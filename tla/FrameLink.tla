------------------------------ MODULE FrameLink ------------------------------
(***************************************************************************)
(* The serial link of the micro speech sample: the preprocessor            *)
(* (multi_machine/micro_speech/preprocessor/src/main.cpp) sends the output *)
(* of its model in frames AA BB payload newline; on the other node         *)
(* (multi_machine/micro_speech/micro_speech/src/main.cpp) an interrupt     *)
(* puts the bytes into a ring buffer and main takes them out, parses the   *)
(* frames and collects the payloads for its own model.                     *)
(*                                                                         *)
(* The frames have neither length nor checksum, and a payload may hold     *)
(* any bytes, those of a header included.  Any bytes may be lost: on the   *)
(* wire, or because the ring buffer is full, of which nobody takes notice. *)
(*                                                                         *)
(* A byte is a record of its value, as far as the parser looks at it, and  *)
(* of the frame and position it was sent as.                               *)
(***************************************************************************)
EXTENDS Integers, Sequences, FiniteSets

CONSTANTS
  PayloadSize,   \* bytes of payload in a frame (40)
  InputFrames,   \* payloads in the input of the second model (1960 / 40)
  RingSize,      \* bytes the ring buffer holds (4096)
  Values,        \* what a byte may be: AA and BB, which begin a frame, NL, which ends it, others
  MaxFrames,     \* bound: frames sent
  MaxLost        \* bound: bytes lost

ASSUME LinkAssumption ==
  /\ PayloadSize \in Nat \ {0} /\ InputFrames \in Nat \ {0} /\ RingSize \in Nat
  /\ {"AA", "BB", "NL"} \subseteq Values
  /\ MaxFrames \in Nat /\ MaxLost \in Nat

FrameSize  == PayloadSize + 3
Payloads   == [1..PayloadSize -> Values]
HasHeader(p) == \E i \in 1..(PayloadSize - 1) : p[i] = "AA" /\ p[i + 1] = "BB"

VARIABLES
  frame,       \* the number of the frame being sent
  outgoing,    \* its payload
  sent,        \* how many of its bytes have been sent
  lost,        \* history: the bytes lost, each by its frame and position
  misleading,  \* history: the frames whose payload holds the bytes of a header
  ring,        \* uart_ringbuf
  state,       \* of process_uart_byte
  payload,     \* the first bytes_read bytes of current_payload
  collected,   \* input_buffer up to input_index, a payload at a time
  inferring,   \* main is in handle_inference_cycle
  accepted     \* history: the last frame accepted whole

linkVars == <<frame, outgoing, sent, lost, misleading, ring, state, payload, collected,
              inferring, accepted>>
receiver == <<state, payload, collected, inferring, accepted>>

LinkInit ==
  /\ frame = 0 /\ outgoing = <<>> /\ sent = 0 /\ lost = {} /\ misleading = {} /\ ring = <<>>
  /\ state = "WAIT_HEADER" /\ payload = <<>> /\ collected = <<>> /\ inferring = FALSE
  /\ accepted = 0

----------------------------------------------------------------------------
(* The preprocessor.  It stops for good when a call of its model fails: no step below must *)
(* ever happen. *)

\* Generate the next input, run the model on it, and start sending its output
NextFrame ==
  /\ frame < MaxFrames /\ (frame = 0 \/ sent = FrameSize)
  /\ frame' = frame + 1
  /\ outgoing' \in Payloads
  /\ misleading' = IF HasHeader(outgoing') THEN misleading \cup {frame'} ELSE misleading
  /\ sent' = 0
  /\ UNCHANGED <<lost, ring, receiver>>

\* Byte k of the frame: header, payload, footer
ByteAt(k) ==
  [value |-> IF k = 1 THEN "AA" ELSE IF k = 2 THEN "BB" ELSE IF k = FrameSize THEN "NL"
             ELSE outgoing[k - 2],
   frame |-> frame, at |-> k]

\* The byte goes out; the receiver's interrupt handler puts it into the ring buffer.
SendByte ==
  /\ frame > 0 /\ sent < FrameSize /\ Len(ring) < RingSize
  /\ sent' = sent + 1
  /\ ring' = Append(ring, ByteAt(sent + 1))
  /\ UNCHANGED <<frame, outgoing, lost, misleading, receiver>>

\* The wire loses it, or ring_buf_put finds no room and nobody looks at its result.
LoseByte ==
  /\ frame > 0 /\ sent < FrameSize /\ Cardinality(lost) < MaxLost
  /\ sent' = sent + 1
  /\ lost' = lost \cup {[frame |-> frame, at |-> sent + 1]}
  /\ UNCHANGED <<frame, outgoing, misleading, ring, receiver>>

----------------------------------------------------------------------------
(* The receiver: main takes a byte at a time *)

Get(byte) ==
  /\ ring # <<>> /\ ~inferring
  /\ byte = Head(ring)
  /\ ring' = Tail(ring)
  /\ UNCHANGED <<frame, outgoing, sent, lost, misleading>>

Header(byte) ==
  /\ state = "WAIT_HEADER" /\ Get(byte)
  /\ state' = IF byte.value = "AA" THEN "WAIT_SYNC" ELSE "WAIT_HEADER"
  /\ UNCHANGED <<payload, collected, inferring, accepted>>

Sync(byte) ==
  /\ state = "WAIT_SYNC" /\ Get(byte)
  /\ state' = IF byte.value = "BB" THEN "PAYLOAD"
              ELSE IF byte.value = "AA" THEN "WAIT_SYNC" ELSE "WAIT_HEADER"
  /\ payload' = IF byte.value = "BB" THEN <<>> ELSE payload
  /\ UNCHANGED <<collected, inferring, accepted>>

Collect(byte) ==
  /\ state = "PAYLOAD" /\ Get(byte)
  /\ payload' = Append(payload, [frame |-> byte.frame, at |-> byte.at])
  /\ state' = IF Len(payload') >= PayloadSize THEN "FOOTER" ELSE "PAYLOAD"
  /\ UNCHANGED <<collected, inferring, accepted>>

\* A payload is whole when its bytes are those of one frame, in order.
Whole(p)   == \A i \in 1..Len(p) : p[i].frame = p[1].frame /\ p[i].at = i + 2
FrameOf(p) == IF Whole(p) THEN p[1].frame ELSE -1

IsFooterUnchecked(byte) == TRUE                   \* mutant
IsFooter(byte) == byte.value = "NL"

\* The payload is copied as far as the input has room; a full input is run.
Footer(byte) ==
  /\ state = "FOOTER" /\ Get(byte)
  /\ state' = "WAIT_HEADER"
  /\ IF IsFooter(byte)
     THEN /\ collected' = IF Len(collected) < InputFrames THEN Append(collected, payload)
                                                         ELSE collected
          /\ inferring' = (Len(collected') = InputFrames)
          /\ accepted' = IF Whole(payload) THEN FrameOf(payload) ELSE accepted
     ELSE UNCHANGED <<collected, inferring, accepted>>
  /\ UNCHANGED payload

\* handle_inference_cycle resets input_index only when all three calls succeeded: the input
\* stays full otherwise, and the next frame runs it again.
AfterInference(ok) == IF ok THEN <<>> ELSE collected

Inference ==
  /\ inferring
  /\ inferring' = FALSE
  /\ \E ok \in BOOLEAN : collected' = AfterInference(ok)
  /\ UNCHANGED <<frame, outgoing, sent, lost, misleading, ring, state, payload, accepted>>

Receive  == \E byte \in {ring[i] : i \in 1..Len(ring)} :
              Header(byte) \/ Sync(byte) \/ Collect(byte) \/ Footer(byte)
LinkNext == NextFrame \/ SendByte \/ LoseByte \/ Receive \/ Inference
LinkSpec == LinkInit /\ [][LinkNext]_linkVars

----------------------------------------------------------------------------
LinkTypeOK ==
  /\ frame \in 0..MaxFrames /\ sent \in 0..FrameSize
  /\ lost \subseteq [frame : 1..frame, at : 1..FrameSize] /\ Cardinality(lost) <= MaxLost
  /\ misleading \subseteq 1..frame
  /\ Len(ring) <= RingSize /\ Len(payload) <= PayloadSize /\ Len(collected) <= InputFrames
  /\ state \in {"WAIT_HEADER", "WAIT_SYNC", "PAYLOAD", "FOOTER"}
  /\ inferring => Len(collected) = InputFrames

Pipe == INSTANCE FeaturePipe WITH
  InputFrames <- InputFrames,
  produced    <- frame,
  lost        <- lost,
  misleading  <- misleading,
  last        <- accepted,
  input       <- [i \in 1..Len(collected) |-> FrameOf(collected[i])]

\* The link keeps the promise of FeaturePipe whatever is sent and lost: although the parser
\* checks no more than the two bytes before a payload and the one after it, and a byte it drops
\* while it is out of step may begin the next frame (process_uart_byte, main.cpp:133-176), it
\* is in step again after one frame that holds no second header and lost nothing; no frame is
\* missed and no payload mixes bytes of two frames but for what was lost since the last such
\* frame, and one lost byte alone never mixes any, unless a payload holds a header.
LinkImplementsPipe == Pipe!PipeSpec
=============================================================================
