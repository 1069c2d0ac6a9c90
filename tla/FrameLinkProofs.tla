--------------------------- MODULE FrameLinkProofs ---------------------------
(***************************************************************************)
(* Proofs about the serial link of the micro speech sample.                *)
(*                                                                         *)
(* The link implements FeaturePipe.  The argument follows the byte that    *)
(* the parser takes next, the first of the ring buffer or, when that is    *)
(* empty, the one the sender sends next.  As long as no byte was lost the  *)
(* parser is in step with it.  After a loss it fills a payload of which a  *)
(* byte is missing, and will take the first byte of the next frame for a   *)
(* footer, or it skips the rest of a frame; either way it is in step again *)
(* at the frame after that.  When more is lost before it is, or a payload  *)
(* passes for a header, it may be doing anything; but a frame that holds   *)
(* no second header and lost nothing leaves it in step.                    *)
(***************************************************************************)
EXTENDS FrameLink, SequenceTheorems, FiniteSetTheorems, TLAPS

----------------------------------------------------------------------------
(* Bytes and their order.  A place is a record with a frame and an at. *)

Places   == [frame : Nat \ {0}, at : 1..FrameSize]
Place(b) == [frame |-> b.frame, at |-> b.at]
Placed(b) == b.frame \in Nat \ {0} /\ b.at \in 1..FrameSize

Precedes(a, b) == a.frame < b.frame \/ (a.frame = b.frame /\ a.at < b.at)

\* b comes next after a on the wire
Consecutive(a, b) ==
  \/ a.at < FrameSize /\ b.frame = a.frame /\ b.at = a.at + 1
  \/ a.at = FrameSize /\ b.frame = a.frame + 1 /\ b.at = 1

GoodByte(b) ==
  /\ Placed(b) /\ b.value \in Values
  /\ b.at = 1 => b.value = "AA"
  /\ b.at = 2 => b.value = "BB"
  /\ b.at = FrameSize => b.value = "NL"

\* The two are no header, unless they are the header of a frame, or of a payload of M
NoHeader(a, b, M) == a.value = "AA" /\ a.at >= 3 /\ a.frame \notin M => b.value # "BB"

\* b is the byte that arrives next after a, when the bytes L are lost
Follows(a, b, L, M) ==
  /\ Precedes(a, b)
  /\ \A x \in Places : Precedes(a, x) /\ Precedes(x, b) => x \in L
  /\ Consecutive(a, b) => NoHeader(a, b, M)

\* The byte sent next, if it is not lost, and the one the parser takes next
Unsent ==
  IF frame = 0 \/ sent = FrameSize THEN [value |-> "AA", frame |-> frame + 1, at |-> 1]
  ELSE ByteAt(sent + 1)

NextByte == IF ring = <<>> THEN Unsent ELSE ring[1]

----------------------------------------------------------------------------
(* What FeaturePipe allows to be missed, or to be garbled, when the bytes L are lost and the *)
(* payloads of the frames M hold a header *)

LossyIn(L, f)      == \E x \in L : x.frame = f
SpellIn(L, M, g)   == {f \in 1..g : \A h \in f..(g - 1) : h \in M \/ LossyIn(L, h)}
ExcusedIn(L, M, g) == \E x \in L : x.frame \in SpellIn(L, M, g)
TroubleIn(L, M, g) ==
  \E x \in L :
    /\ x.frame \in SpellIn(L, M, g)
    /\ \/ \E y \in L : y # x /\ y.frame \in SpellIn(L, M, g)
       \/ SpellIn(L, M, g) \cap M # {}

----------------------------------------------------------------------------
(* What the parser is doing when it takes byte b: st, p and acc are its state, its payload *)
(* and the last frame it accepted *)

\* The first n bytes of the payload of frame f
Bytes(f, n) == [i \in 1..n |-> [frame |-> f, at |-> i + 2]]

InStep(b, st, p) ==
  \/ b.at = 1 /\ st = "WAIT_HEADER"
  \/ b.at = 2 /\ st = "WAIT_SYNC"
  \/ b.at \in 3..(FrameSize - 1) /\ st = "PAYLOAD" /\ p = Bytes(b.frame, b.at - 3)
  \/ b.at = FrameSize /\ st = "FOOTER" /\ p = Bytes(b.frame, PayloadSize)

LossBefore(b, L) == \E x \in L : x.frame = b.frame /\ x.at < b.at

\* A byte of the frame was lost, and the footer and the next header stand in for it.
Late(b, st, p, L) ==
  /\ st = "PAYLOAD" /\ b.at >= 4 /\ Len(p) = b.at - 4
  /\ LossBefore(b, L)

FooterLate(b, st, L) ==
  /\ st = "FOOTER" /\ b.at = 1
  /\ LossyIn(L, b.frame - 1)

\* The header of the frame was missed.  Two bytes that are no header can pass for one only
\* when a byte between them is lost: the second byte of the header itself.
Skipping(b, st, L) ==
  /\ b.at >= 2
  /\ LossBefore(b, L) \/ LossyIn(L, b.frame - 1)
  /\ \/ st = "WAIT_HEADER"
     \/ st = "WAIT_SYNC" /\ b.at = 3 /\ LossBefore(b, L)
     \/ st = "WAIT_SYNC" /\ b.at >= 4 /\ b.value # "BB"

\* After more than one loss anything is possible; but a frame without fault ends with the
\* parser looking for a header.
Recovering(b, st, p) ==
  \/ st = "PAYLOAD" /\ Len(p) >= b.at - 1
  \/ st = "FOOTER" /\ b.at <= PayloadSize + 1
  \/ st = "WAIT_HEADER"
  \/ st = "WAIT_SYNC" /\ (b.at <= 2 \/ b.value # "BB")

Lost(b, st, p, L, M) ==
  /\ TroubleIn(L, M, b.frame)
  /\ b.frame \in M \/ LossyIn(L, b.frame) \/ Recovering(b, st, p)

ParserAt(b, st, p, L, M) ==
  \/ InStep(b, st, p)
  \/ Late(b, st, p, L)
  \/ FooterLate(b, st, L)
  \/ Skipping(b, st, L)
  \/ Lost(b, st, p, L, M)

\* The bytes of a payload are later than the last frame accepted, and earlier than b.
Filling(b, st, p, acc) ==
  st \in {"PAYLOAD", "FOOTER"} =>
    \A i \in 1..Len(p) : acc < p[i].frame /\ Precedes(p[i], b)

Missing(b, acc, L, M) ==
  /\ acc < b.frame
  /\ \A f \in (acc + 1)..(b.frame - 1) : ExcusedIn(L, M, f)

Parsing(b, st, p, acc, L, M) ==
  /\ ParserAt(b, st, p, L, M)
  /\ Filling(b, st, p, acc)
  /\ Missing(b, acc, L, M)

----------------------------------------------------------------------------
(* The inductive invariant *)

BytesSent == [value : Values, frame : Nat \ {0}, at : 1..FrameSize]

LinkTypeInv ==
  /\ LinkTypeOK
  /\ IsFiniteSet(lost)
  /\ ring \in Seq(BytesSent)
  /\ payload \in Seq(Places)
  /\ state = "PAYLOAD" => Len(payload) < PayloadSize
  /\ state = "FOOTER" => Len(payload) = PayloadSize
  /\ collected \in Seq(Seq(Places))
  /\ accepted \in Nat
  /\ frame > 0 => outgoing \in Payloads
  /\ frame > 0 /\ HasHeader(outgoing) => frame \in misleading

BytesInOrder ==
  /\ \A i \in 1..Len(ring) : GoodByte(ring[i]) /\ ring[i].frame <= frame
  /\ \A i \in 1..(Len(ring) - 1) : Follows(ring[i], ring[i + 1], lost, misleading)
  /\ ring # <<>> => Follows(ring[Len(ring)], Unsent, lost, misleading)

LinkInv ==
  /\ LinkTypeInv
  /\ BytesInOrder
  /\ Parsing(NextByte, state, payload, accepted, lost, misleading)

----------------------------------------------------------------------------
(* Spells of trouble *)

LEMMA LinkNumbers ==
  /\ PayloadSize \in Nat \ {0} /\ FrameSize = PayloadSize + 3 /\ FrameSize \in Nat
  /\ InputFrames \in Nat \ {0} /\ MaxFrames \in Nat /\ MaxLost \in Nat /\ RingSize \in Nat
  /\ {"AA", "BB", "NL"} \subseteq Values
BY LinkAssumption DEF FrameSize

\* A frame is in its own spell, and in the next one's when it has a fault.
LEMMA OwnSpell ==
  ASSUME NEW L, NEW M, NEW g \in Nat \ {0}
  PROVE  g \in SpellIn(L, M, g)
BY DEF SpellIn

LEMMA LongerSpell ==
  ASSUME NEW L, NEW M, NEW g \in Nat \ {0}, g \in M \/ LossyIn(L, g)
  PROVE  SpellIn(L, M, g) \subseteq SpellIn(L, M, g + 1)
<1> SUFFICES ASSUME NEW f \in SpellIn(L, M, g) PROVE f \in SpellIn(L, M, g + 1)
  OBVIOUS
<1>1. f \in 1..g /\ \A h \in f..(g - 1) : h \in M \/ LossyIn(L, h)
  BY DEF SpellIn
<1>2. ASSUME NEW h \in f..((g + 1) - 1) PROVE h \in M \/ LossyIn(L, h)
  BY <1>1, <1>2
<1>3. f \in 1..(g + 1)
  BY <1>1
<1> QED
  BY <1>2, <1>3 DEF SpellIn

\* Trouble lasts as long as every frame has a fault.
LEMMA TroubleLasts ==
  ASSUME NEW L, NEW M, NEW g \in Nat \ {0}, g \in M \/ LossyIn(L, g), TroubleIn(L, M, g)
  PROVE  TroubleIn(L, M, g + 1)
BY LongerSpell DEF TroubleIn

LEMMA TroubleExcuses ==
  ASSUME NEW L, NEW M, NEW g, TroubleIn(L, M, g)
  PROVE  ExcusedIn(L, M, g)
BY DEF TroubleIn, ExcusedIn

\* A byte lost in a frame, or in the one before it, is in its spell.
LEMMA LossInSpell ==
  ASSUME NEW L, L \subseteq Places, NEW M, NEW g \in Nat \ {0}, NEW x \in L,
         x.frame = g \/ x.frame = g - 1
  PROVE  x.frame \in SpellIn(L, M, g) /\ ExcusedIn(L, M, g)
<1>1. x.frame \in Nat \ {0}
  BY DEF Places
<1>2. CASE x.frame = g
  BY <1>2, OwnSpell DEF ExcusedIn
<1>3. CASE x.frame = g - 1
  <2>1. LossyIn(L, g - 1) /\ g - 1 \in Nat \ {0} /\ (g - 1) + 1 = g
    BY <1>1, <1>3 DEF LossyIn
  <2>2. g - 1 \in SpellIn(L, M, g)
    <3>1. g - 1 \in SpellIn(L, M, g - 1)
      BY <2>1, OwnSpell
    <3>2. SpellIn(L, M, g - 1) \subseteq SpellIn(L, M, (g - 1) + 1)
      BY <2>1, LongerSpell
    <3> QED
      BY <2>1, <3>1, <3>2
  <2> QED
    BY <1>3, <2>2 DEF ExcusedIn
<1> QED
  BY <1>2, <1>3

\* More faults make no spell shorter.
LEMMA SpellGrows ==
  ASSUME NEW L, NEW K, L \subseteq K, NEW M, NEW N, M \subseteq N, NEW g
  PROVE  /\ SpellIn(L, M, g) \subseteq SpellIn(K, N, g)
         /\ ExcusedIn(L, M, g) => ExcusedIn(K, N, g)
         /\ TroubleIn(L, M, g) => TroubleIn(K, N, g)
<1>1. \A h : LossyIn(L, h) => LossyIn(K, h)
  BY DEF LossyIn
<1>2. SpellIn(L, M, g) \subseteq SpellIn(K, N, g)
  BY <1>1 DEF SpellIn
<1>3. ExcusedIn(L, M, g) => ExcusedIn(K, N, g)
  BY <1>2 DEF ExcusedIn
<1>4. TroubleIn(L, M, g) => TroubleIn(K, N, g)
  BY <1>2 DEF TroubleIn
<1> QED
  BY <1>2, <1>3, <1>4

\* What else is lost, and whatever else is sent, explains no less.
LEMMA LosingMore ==
  ASSUME NEW L, NEW K, L \subseteq K, NEW M, NEW N, M \subseteq N,
         NEW b, NEW st, NEW p, NEW acc, Parsing(b, st, p, acc, L, M)
  PROVE  Parsing(b, st, p, acc, K, N)
<1>1. \A h : LossyIn(L, h) => LossyIn(K, h)
  BY DEF LossyIn
<1>2. LossBefore(b, L) => LossBefore(b, K)
  BY DEF LossBefore
<1>3. TroubleIn(L, M, b.frame) => TroubleIn(K, N, b.frame)
  BY SpellGrows
<1>4. ParserAt(b, st, p, K, N)
  <2>1. Late(b, st, p, L) => Late(b, st, p, K)
    BY <1>2 DEF Late
  <2>2. FooterLate(b, st, L) => FooterLate(b, st, K)
    BY <1>1 DEF FooterLate
  <2>3. Skipping(b, st, L) => Skipping(b, st, K)
    BY <1>1, <1>2 DEF Skipping
  <2>4. Lost(b, st, p, L, M) => Lost(b, st, p, K, N)
    BY <1>1, <1>3 DEF Lost
  <2> QED
    BY <2>1, <2>2, <2>3, <2>4 DEF Parsing, ParserAt
<1>5. Missing(b, acc, K, N)
  BY SpellGrows DEF Parsing, Missing
<1> QED
  BY <1>4, <1>5 DEF Parsing

----------------------------------------------------------------------------
(* The parser takes a byte *)

States == {"WAIT_HEADER", "WAIT_SYNC", "PAYLOAD", "FOOTER"}

\* The parser takes byte b, and c comes next
Taking(b, c, L, M) ==
  /\ GoodByte(b) /\ Placed(c) /\ L \subseteq Places
  /\ Consecutive(b, c) /\ NoHeader(b, c, M)

\* What holds of places and losses in every case of the steps below
LEMMA TakingFacts ==
  ASSUME NEW b, NEW c, NEW L, NEW M, Taking(b, c, L, M)
  PROVE  /\ PayloadSize \in Nat \ {0} /\ FrameSize = PayloadSize + 3
         /\ b.frame \in Nat \ {0} /\ b.at \in 1..FrameSize
         /\ c.frame \in Nat \ {0} /\ c.at \in 1..FrameSize
         /\ b.at < FrameSize => c.frame = b.frame /\ c.at = b.at + 1
         /\ b.at = FrameSize => c.frame = b.frame + 1 /\ c.at = 1
         /\ b.at = 1 => b.value = "AA"
         /\ b.at = 2 => b.value = "BB"
         /\ b.at = FrameSize => b.value = "NL"
         /\ b.value = "AA" /\ b.at >= 3 /\ b.frame \notin M => c.value # "BB"
BY LinkNumbers DEF Taking, GoodByte, Placed, Consecutive, NoHeader

LEMMA TakingLosses ==
  ASSUME NEW b, NEW c, NEW L, NEW M, Taking(b, c, L, M)
  PROVE  /\ b.at < FrameSize /\ LossBefore(b, L) => LossBefore(c, L)
         /\ b.at = FrameSize /\ LossBefore(b, L) => LossyIn(L, c.frame - 1)
<1>1. /\ b.frame \in Nat /\ b.at \in Nat
      /\ b.at < FrameSize => c.frame = b.frame /\ c.at = b.at + 1
      /\ b.at = FrameSize => c.frame = b.frame + 1
  BY TakingFacts, LinkNumbers
<1>2. \A x \in L : x.frame \in Nat /\ x.at \in Nat
  BY LinkNumbers DEF Taking, Places
<1>3. b.at < FrameSize /\ LossBefore(b, L) => LossBefore(c, L)
  BY <1>1, <1>2 DEF LossBefore
<1>4. b.at = FrameSize /\ LossBefore(b, L) => LossyIn(L, c.frame - 1)
  BY <1>1 DEF LossBefore, LossyIn
<1> QED
  BY <1>3, <1>4

\* A byte of this frame or of the last one was lost when the parser is out of step.
LEMMA OutOfStep ==
  ASSUME NEW b, NEW L, NEW M, Placed(b), L \subseteq Places, NEW st, NEW p,
         Late(b, st, p, L) \/ FooterLate(b, st, L) \/ Skipping(b, st, L)
  PROVE  \E x \in L : x # Place(b) /\ x.frame \in SpellIn(L, M, b.frame)
<1>1. PICK x \in L : (x.frame = b.frame /\ x.at < b.at) \/ x.frame = b.frame - 1
  BY DEF Late, FooterLate, Skipping, LossBefore, LossyIn
<1>2. x.frame \in SpellIn(L, M, b.frame)
  BY <1>1, LossInSpell DEF Placed
<1>3. x # Place(b)
  <2>1. Place(b).frame = b.frame /\ Place(b).at = b.at
    BY DEF Place
  <2> QED
    BY <1>1, <2>1 DEF Placed
<1> QED
  BY <1>2, <1>3

LEMMA OutOfStepExcuses ==
  ASSUME NEW b, NEW L, NEW M, Placed(b), L \subseteq Places, NEW st, NEW p,
         ParserAt(b, st, p, L, M), ~InStep(b, st, p)
  PROVE  ExcusedIn(L, M, b.frame)
<1>1. CASE Late(b, st, p, L) \/ FooterLate(b, st, L) \/ Skipping(b, st, L)
  BY <1>1, OutOfStep DEF ExcusedIn
<1>2. CASE Lost(b, st, p, L, M)
  BY <1>2, TroubleExcuses DEF Lost
<1> QED
  BY <1>1, <1>2 DEF ParserAt

\* At the first byte of a frame the parser, once lost, may be doing anything.
LEMMA LostAtFirst ==
  ASSUME NEW c, NEW L, NEW M, NEW st \in States, NEW p \in Seq(Places),
         c.at = 1 \/ LossyIn(L, c.frame), TroubleIn(L, M, c.frame)
  PROVE  ParserAt(c, st, p, L, M)
<1>1. CASE c.at = 1
  <2>1. Recovering(c, st, p)
    BY <1>1, LinkNumbers DEF Recovering, States
  <2> QED
    BY <2>1 DEF ParserAt, Lost
<1>2. CASE LossyIn(L, c.frame)
  BY <1>2 DEF ParserAt, Lost
<1> QED
  BY <1>1, <1>2

\* The parser is lost at b, and takes it.
LEMMA StillLost ==
  ASSUME NEW b, NEW c, NEW L, NEW M, Taking(b, c, L, M), TroubleIn(L, M, b.frame),
         NEW st \in States, NEW p \in Seq(Places),
         \/ b.frame \in M \/ LossyIn(L, b.frame)
         \/ InStep(c, st, p)
         \/ b.at < FrameSize /\ Recovering(c, st, p)
  PROVE  ParserAt(c, st, p, L, M)
<1>1. CASE InStep(c, st, p)
  BY <1>1 DEF ParserAt
<1>2. CASE b.at < FrameSize /\ ~InStep(c, st, p)
  <2>1. c.frame = b.frame
    BY <1>2, TakingFacts
  <2> QED
    BY <1>2, <2>1 DEF ParserAt, Lost
<1>3. CASE b.at = FrameSize /\ ~InStep(c, st, p)
  <2>1. c.at = 1 /\ c.frame = b.frame + 1 /\ b.frame \in Nat \ {0} /\ ~(b.at < FrameSize)
    BY <1>3, TakingFacts
  <2>2. TroubleIn(L, M, c.frame)
    BY <1>3, <2>1, TroubleLasts
  <2> QED
    BY <2>1, <2>2, LostAtFirst
<1> QED
  BY <1>1, <1>2, <1>3, TakingFacts

\* A payload in step grows by the byte that is next in its frame.
LEMMA NextOfPayload ==
  ASSUME NEW f, NEW n \in Nat
  PROVE  /\ Bytes(f, n) \in Seq([frame : {f}, at : Int])
         /\ Len(Bytes(f, n)) = n
         /\ Append(Bytes(f, n), [frame |-> f, at |-> n + 3]) = Bytes(f, n + 1)
<1>1. Bytes(f, n) \in Seq([frame : {f}, at : Int]) /\ Len(Bytes(f, n)) = n
  BY DEF Bytes
<1> QED
  BY <1>1 DEF Bytes

\* Out of step in a frame that holds what looks like a header, the parser is lost.
LEMMA MisledIsLost ==
  ASSUME NEW b, NEW c, NEW L, NEW M, Taking(b, c, L, M), b.frame \in M,
         NEW st, NEW p, ParserAt(b, st, p, L, M), ~InStep(b, st, p),
         NEW st2 \in States, NEW q \in Seq(Places)
  PROVE  ParserAt(c, st2, q, L, M)
<1>1. b.frame \in SpellIn(L, M, b.frame) /\ Placed(b) /\ L \subseteq Places
  BY OwnSpell DEF Taking, GoodByte, Placed
<1>2. ExcusedIn(L, M, b.frame)
  BY <1>1, OutOfStepExcuses
<1>3. TroubleIn(L, M, b.frame)
  BY <1>1, <1>2 DEF TroubleIn, ExcusedIn
<1> QED
  BY <1>3, StillLost

\* WAIT_HEADER (process_uart_byte, main.cpp:143-145)
LEMMA TakeHeader ==
  ASSUME NEW b, NEW c, NEW L, NEW M, Taking(b, c, L, M), NEW p \in Seq(Places),
         ParserAt(b, "WAIT_HEADER", p, L, M)
  PROVE  ParserAt(c, IF b.value = "AA" THEN "WAIT_SYNC" ELSE "WAIT_HEADER", p, L, M)
<1> DEFINE st == IF b.value = "AA" THEN "WAIT_SYNC" ELSE "WAIT_HEADER"
<1>1. \/ b.at = 1
      \/ Skipping(b, "WAIT_HEADER", L)
      \/ Lost(b, "WAIT_HEADER", p, L, M)
  BY DEF ParserAt, InStep, Late, FooterLate
<1>2. st \in States
  BY DEF States
<1>3. CASE b.at = 1
  BY <1>3, TakingFacts DEF ParserAt, InStep
<1>4. CASE b.at = FrameSize
  <2>1. c.at = 1 /\ st = "WAIT_HEADER"
    BY <1>4, TakingFacts
  <2> QED
    BY <2>1 DEF ParserAt, InStep
<1>5. CASE b.at \in 2..(FrameSize - 1)
  <2>1. c.frame = b.frame /\ c.at = b.at + 1 /\ b.at < FrameSize
    BY <1>5, TakingFacts
  <2>2. CASE c.at >= 3 /\ (st = "WAIT_HEADER" \/ (c.at >= 4 /\ c.value # "BB"))
    <3>1. CASE Skipping(b, "WAIT_HEADER", L)
      <4>1. LossBefore(c, L) \/ LossyIn(L, c.frame - 1)
        BY <2>1, <3>1, TakingLosses DEF Skipping
      <4>2. c.at >= 2 /\ (st = "WAIT_HEADER" \/ (st = "WAIT_SYNC" /\ c.at >= 4 /\ c.value # "BB"))
        BY <2>1, <2>2, TakingFacts
      <4> QED
        BY <4>1, <4>2 DEF Skipping, ParserAt
    <3>2. CASE Lost(b, "WAIT_HEADER", p, L, M)
      <4>1. Recovering(c, st, p)
        BY <2>2 DEF Recovering
      <4> QED
        BY <1>2, <2>1, <3>2, <4>1, StillLost DEF Lost
    <3> QED
      BY <1>1, <1>5, <3>1, <3>2
  \* The payload of the frame holds what looks like a header.
  <2>3. CASE ~(c.at >= 3 /\ (st = "WAIT_HEADER" \/ (c.at >= 4 /\ c.value # "BB")))
    <3>1. b.frame \in M
      BY <1>5, <2>1, <2>3, TakingFacts
    <3>2. ~InStep(b, "WAIT_HEADER", p)
      BY <1>5 DEF InStep
    <3> QED
      BY <1>2, <3>1, <3>2, MisledIsLost
  <2> QED
    BY <2>2, <2>3
<1> QED
  BY <1>3, <1>4, <1>5, TakingFacts

\* WAIT_SYNC (process_uart_byte, main.cpp:147-154)
LEMMA TakeSync ==
  ASSUME NEW b, NEW c, NEW L, NEW M, Taking(b, c, L, M), NEW p \in Seq(Places),
         ParserAt(b, "WAIT_SYNC", p, L, M)
  PROVE  ParserAt(c, IF b.value = "BB" THEN "PAYLOAD"
                  ELSE IF b.value = "AA" THEN "WAIT_SYNC" ELSE "WAIT_HEADER",
               IF b.value = "BB" THEN <<>> ELSE p, L, M)
<1> DEFINE st == IF b.value = "BB" THEN "PAYLOAD"
                 ELSE IF b.value = "AA" THEN "WAIT_SYNC" ELSE "WAIT_HEADER"
           q  == IF b.value = "BB" THEN <<>> ELSE p
<1>1. \/ b.at = 2
      \/ Skipping(b, "WAIT_SYNC", L)
      \/ Lost(b, "WAIT_SYNC", p, L, M)
  BY DEF ParserAt, InStep, Late, FooterLate
<1>2. st \in States /\ q \in Seq(Places)
  BY DEF States
<1>3. CASE b.at = 2
  <2>1. c.at = 3 /\ c.frame = b.frame /\ st = "PAYLOAD" /\ q = <<>> /\ FrameSize - 1 >= 3
    BY <1>3, TakingFacts
  <2>2. Bytes(c.frame, c.at - 3) = <<>>
    BY <2>1 DEF Bytes
  <2> QED
    BY <2>1, <2>2 DEF ParserAt, InStep
<1>4. CASE b.at = 1
  <2>1. c.at = 2 /\ st = "WAIT_SYNC"
    BY <1>4, TakingFacts
  <2> QED
    BY <2>1 DEF ParserAt, InStep
<1>5. CASE b.at = FrameSize
  <2>1. c.at = 1 /\ st = "WAIT_HEADER"
    BY <1>5, TakingFacts
  <2> QED
    BY <2>1 DEF ParserAt, InStep
<1>6. CASE b.at \in 3..(FrameSize - 1)
  <2>1. c.frame = b.frame /\ c.at = b.at + 1 /\ b.at < FrameSize /\ c.at >= 4
    BY <1>6, TakingFacts
  <2>2. ~InStep(b, "WAIT_SYNC", p)
    BY <1>6 DEF InStep
  <2>3. CASE b.frame \in M
    BY <1>2, <2>2, <2>3, MisledIsLost
  <2>4. CASE b.frame \notin M /\ Skipping(b, "WAIT_SYNC", L)
    <3>1. CASE b.value = "BB"
      \* The second byte of the header was lost, and the first of the payload is equal to it.
      <4>1. b.at = 3 /\ LossBefore(b, L)
        BY <1>6, <2>4, <3>1 DEF Skipping
      <4>2. Late(c, "PAYLOAD", <<>>, L)
        BY <2>1, <4>1, TakingLosses DEF Late
      <4> QED
        BY <3>1, <4>2 DEF ParserAt
    <3>2. CASE b.value # "BB"
      <4>1. st = "WAIT_HEADER" \/ (st = "WAIT_SYNC" /\ c.value # "BB")
        BY <1>6, <2>4, <3>2, TakingFacts
      <4>2. LossBefore(c, L) \/ LossyIn(L, c.frame - 1)
        BY <2>1, <2>4, TakingLosses DEF Skipping
      <4>3. Skipping(c, st, L)
        BY <1>6, <2>1, <4>1, <4>2 DEF Skipping
      <4>4. ParserAt(c, st, q, L, M)
        BY <4>3 DEF ParserAt
      <4> QED
        BY <4>4
    <3> QED
      BY <3>1, <3>2
  <2>5. CASE b.frame \notin M /\ Lost(b, "WAIT_SYNC", p, L, M)
    <3>1. CASE LossyIn(L, b.frame)
      BY <1>2, <2>5, <3>1, StillLost DEF Lost
    <3>2. CASE ~LossyIn(L, b.frame)
      <4>1. b.value # "BB"
        BY <1>6, <2>5, <3>2 DEF Lost, Recovering
      <4>2. st = "WAIT_HEADER" \/ (st = "WAIT_SYNC" /\ c.value # "BB")
        BY <1>6, <2>5, <4>1, TakingFacts
      <4>3. Recovering(c, st, q)
        BY <4>2 DEF Recovering
      <4> QED
        BY <1>2, <2>1, <2>5, <4>3, StillLost DEF Lost
    <3> QED
      BY <3>1, <3>2
  <2> QED
    BY <1>1, <1>6, <2>3, <2>4, <2>5
<1> QED
  BY <1>3, <1>4, <1>5, <1>6, TakingFacts

\* PAYLOAD (process_uart_byte, main.cpp:156-159): the payload grows until it is full.
LEMMA TakePayload ==
  ASSUME NEW b, NEW c, NEW L, NEW M, Taking(b, c, L, M), NEW p \in Seq(Places),
         Len(p) < PayloadSize, ParserAt(b, "PAYLOAD", p, L, M)
  PROVE  ParserAt(c, IF Len(Append(p, Place(b))) >= PayloadSize THEN "FOOTER" ELSE "PAYLOAD",
               Append(p, Place(b)), L, M)
<1> DEFINE q  == Append(p, Place(b))
           st == IF Len(q) >= PayloadSize THEN "FOOTER" ELSE "PAYLOAD"
<1>1. \/ b.at \in 3..(FrameSize - 1) /\ p = Bytes(b.frame, b.at - 3)
      \/ Late(b, "PAYLOAD", p, L)
      \/ Lost(b, "PAYLOAD", p, L, M)
  BY DEF ParserAt, InStep, Skipping, FooterLate
<1>2. Place(b) \in Places
  BY DEF Place, Places, Taking, GoodByte, Placed
<1>3. Len(q) = Len(p) + 1 /\ Len(p) \in Nat /\ q \in Seq(Places)
  BY <1>2
<1>4. st \in States
  BY DEF States
<1>5. CASE b.at \in 3..(FrameSize - 1) /\ p = Bytes(b.frame, b.at - 3)
  <2>1. c.frame = b.frame /\ c.at = b.at + 1 /\ b.at \in Nat /\ b.at - 3 \in Nat
    BY <1>5, TakingFacts
  <2>2. Len(p) = b.at - 3 /\ q = Bytes(b.frame, b.at - 2)
    <3>1. /\ Len(Bytes(b.frame, b.at - 3)) = b.at - 3
          /\ Append(Bytes(b.frame, b.at - 3), [frame |-> b.frame, at |-> (b.at - 3) + 3])
               = Bytes(b.frame, (b.at - 3) + 1)
      BY <2>1, NextOfPayload
    <3>2. (b.at - 3) + 3 = b.at /\ (b.at - 3) + 1 = b.at - 2
      BY <2>1
    <3> QED
      BY <1>5, <3>1, <3>2 DEF Place
  <2>3. CASE b.at = FrameSize - 1
    <3>1. c.at = FrameSize /\ st = "FOOTER" /\ b.at - 2 = PayloadSize
      BY <1>3, <2>1, <2>2, <2>3, TakingFacts
    <3>2. InStep(c, st, q)
      BY <2>1, <2>2, <3>1 DEF InStep
    <3> QED
      BY <3>2 DEF ParserAt
  <2>4. CASE b.at # FrameSize - 1
    <3>1. c.at \in 3..(FrameSize - 1) /\ st = "PAYLOAD" /\ b.at - 2 = c.at - 3
      BY <1>3, <1>5, <2>1, <2>2, <2>4, TakingFacts, SMTT(30)
    <3>2. InStep(c, st, q)
      BY <2>1, <2>2, <3>1 DEF InStep
    <3> QED
      BY <3>2 DEF ParserAt
  <2> QED
    BY <2>3, <2>4
<1>6. CASE Late(b, "PAYLOAD", p, L)
  <2>1. b.at >= 4 /\ Len(p) = b.at - 4 /\ LossBefore(b, L)
    BY <1>6 DEF Late
  <2>2. CASE b.at < FrameSize
    <3>1. c.at = b.at + 1 /\ b.at \in Nat /\ LossBefore(c, L)
      BY <2>1, <2>2, TakingFacts, TakingLosses
    <3>2. st = "PAYLOAD" /\ Len(q) = c.at - 4 /\ c.at >= 4
      BY <1>3, <2>1, <2>2, <3>1, TakingFacts, SMTT(30)
    <3> QED
      BY <3>1, <3>2 DEF Late, ParserAt
  <2>3. CASE b.at = FrameSize
    <3>1. c.at = 1 /\ st = "FOOTER"
      BY <1>3, <2>1, <2>3, TakingFacts
    <3>2. LossyIn(L, c.frame - 1)
      BY <2>1, <2>3, TakingLosses
    <3> QED
      BY <3>1, <3>2 DEF FooterLate, ParserAt
  <2> QED
    BY <2>2, <2>3, TakingFacts
<1>7. CASE Lost(b, "PAYLOAD", p, L, M)
  <2>1. TroubleIn(L, M, b.frame)
    BY <1>7 DEF Lost
  <2>2. CASE b.frame \in M \/ LossyIn(L, b.frame)
    <3>1. ParserAt(c, st, q, L, M)
      <4> HIDE DEF q, st
      <4> QED
        BY <1>3, <1>4, <2>1, <2>2, StillLost
    <3> QED
      BY <3>1
  \* Not at the end of the frame: the payload would be longer than it can be.
  <2>3. CASE ~(b.frame \in M \/ LossyIn(L, b.frame))
    <3>1. Len(p) >= b.at - 1
      BY <1>7, <2>3 DEF Lost, Recovering
    <3>2. b.at < FrameSize /\ c.at = b.at + 1 /\ b.at \in Nat
      BY <1>3, <3>1, TakingFacts
    <3>3. Recovering(c, st, q)
      BY <1>3, <3>1, <3>2, LinkNumbers DEF Recovering
    <3>4. ParserAt(c, st, q, L, M)
      <4> HIDE DEF q, st
      <4> QED
        BY <1>3, <1>4, <2>1, <3>2, <3>3, StillLost
    <3> QED
      BY <3>4
  <2> QED
    BY <2>2, <2>3
<1> QED
  BY <1>1, <1>5, <1>6, <1>7

\* FOOTER (process_uart_byte, main.cpp:161-175): whatever the byte in the place of the footer
\* is, the parser looks for the next header.
LEMMA TakeFooter ==
  ASSUME NEW b, NEW c, NEW L, NEW M, Taking(b, c, L, M), NEW p \in Seq(Places),
         ParserAt(b, "FOOTER", p, L, M)
  PROVE  ParserAt(c, "WAIT_HEADER", p, L, M)
<1>1. \/ b.at = FrameSize
      \/ FooterLate(b, "FOOTER", L)
      \/ Lost(b, "FOOTER", p, L, M)
  BY DEF ParserAt, InStep, Skipping, Late
<1>2. CASE b.at = FrameSize
  BY <1>2, TakingFacts DEF ParserAt, InStep
<1>3. CASE FooterLate(b, "FOOTER", L)
  <2>1. b.at = 1 /\ LossyIn(L, b.frame - 1)
    BY <1>3 DEF FooterLate
  <2>2. c.frame = b.frame /\ c.at = 2
    BY <2>1, TakingFacts
  <2> QED
    BY <2>1, <2>2 DEF Skipping, ParserAt
<1>4. CASE b.at < FrameSize /\ Lost(b, "FOOTER", p, L, M)
  <2>1. Recovering(c, "WAIT_HEADER", p) /\ "WAIT_HEADER" \in States
    BY DEF Recovering, States
  <2> QED
    BY <1>4, <2>1, StillLost DEF Lost
<1> QED
  BY <1>1, <1>2, <1>3, <1>4, TakingFacts

\* A payload with the right footer is the payload of the frame the footer belongs to, unless
\* there is trouble.
LEMMA FooterFits ==
  ASSUME NEW b, NEW L, NEW M, GoodByte(b), NEW p, ParserAt(b, "FOOTER", p, L, M), b.value = "NL"
  PROVE  \/ b.at = FrameSize /\ p = Bytes(b.frame, PayloadSize)
         \/ TroubleIn(L, M, b.frame)
<1>1. b.at # 1
  BY DEF GoodByte
<1> QED
  BY <1>1 DEF ParserAt, InStep, Late, FooterLate, Skipping, Lost

\* A whole payload is one of a frame later than the last one, and its footer comes after it.
LEMMA WholeIsNew ==
  ASSUME NEW b, NEW L, NEW M, NEW acc \in Nat, NEW p \in Seq(Places), Len(p) = PayloadSize,
         Placed(b), Parsing(b, "FOOTER", p, acc, L, M), Whole(p)
  PROVE  /\ FrameOf(p) \in Nat /\ acc < FrameOf(p) /\ FrameOf(p) <= b.frame
         /\ FrameOf(p) = b.frame => b.at = FrameSize
<1>1. 1 \in 1..Len(p) /\ PayloadSize \in 1..Len(p) /\ FrameSize = PayloadSize + 3
  BY LinkNumbers
<1>2. FrameOf(p) = p[1].frame /\ p[1] \in Places
  BY <1>1 DEF FrameOf
<1>3. acc < p[1].frame /\ Precedes(p[PayloadSize], b)
  BY <1>1 DEF Parsing, Filling
<1>4. p[PayloadSize].frame = p[1].frame /\ p[PayloadSize].at = PayloadSize + 2
  BY <1>1 DEF Whole
<1>5. p[1].frame \in Nat
  BY <1>2 DEF Places
<1>6. /\ p[1].frame <= b.frame
      /\ p[1].frame = b.frame => b.at = FrameSize
  BY <1>1, <1>3, <1>4, <1>5, LinkNumbers DEF Precedes, Placed
<1> QED
  BY <1>2, <1>3, <1>5, <1>6

\* Every frame up to the next byte has been accepted, or is missing for a reason.
LEMMA MissingNext ==
  ASSUME NEW b, NEW c, NEW L, NEW M, Taking(b, c, L, M), NEW acc \in Nat, NEW new \in Nat,
         Missing(b, acc, L, M), acc <= new, new <= b.frame, new = b.frame => b.at = FrameSize,
         b.at = FrameSize => new = b.frame \/ ExcusedIn(L, M, b.frame)
  PROVE  Missing(c, new, L, M)
<1>1. /\ b.frame \in Nat
      /\ b.at < FrameSize => c.frame = b.frame
      /\ b.at = FrameSize => c.frame = b.frame + 1
      /\ b.at < FrameSize \/ b.at = FrameSize
  BY TakingFacts
<1>2. new < c.frame
  BY <1>1
<1>3. ASSUME NEW f \in (new + 1)..(c.frame - 1) PROVE ExcusedIn(L, M, f)
  <2>1. CASE f \in (acc + 1)..(b.frame - 1)
    BY <2>1 DEF Missing
  <2>2. CASE f \notin (acc + 1)..(b.frame - 1)
    <3>1. f = b.frame /\ b.at = FrameSize /\ new # b.frame
      BY <1>1, <1>3, <2>2
    <3> QED
      BY <3>1
  <2> QED
    BY <2>1, <2>2
<1> QED
  BY <1>2, <1>3 DEF Missing

----------------------------------------------------------------------------
(* Bytes that the parser would take next are lost *)

Successor(b) ==
  IF b.at < FrameSize THEN [value |-> "NL", frame |-> b.frame, at |-> b.at + 1]
  ELSE [value |-> "NL", frame |-> b.frame + 1, at |-> 1]

LEMMA SuccessorFacts ==
  ASSUME NEW b, Placed(b)
  PROVE  LET d == Successor(b)
         IN  /\ Placed(d) /\ Place(d) \in Places /\ Consecutive(b, d) /\ Precedes(b, d)
             /\ \A c : Placed(c) /\ Precedes(b, c) =>
                  Precedes(d, c) \/ (c.frame = d.frame /\ c.at = d.at)
BY LinkNumbers DEF Successor, Placed, Place, Places, Consecutive, Precedes

LEMMA PlacedConsecutive ==
  ASSUME NEW b, NEW c, Placed(b), Placed(c), Consecutive(b, c)
  PROVE  /\ b.frame \in Nat \ {0} /\ c.frame \in Nat \ {0}
         /\ b.at \in 1..FrameSize /\ c.at \in 1..FrameSize /\ FrameSize \in Nat
         /\ b.at < FrameSize => c.frame = b.frame /\ c.at = b.at + 1
         /\ b.at = FrameSize => c.frame = b.frame + 1 /\ c.at = 1
         /\ Precedes(b, c)
         /\ \A x : Placed(x) => ~(Precedes(b, x) /\ Precedes(x, c))
BY LinkNumbers DEF Placed, Consecutive, Precedes

LEMMA PrecedesTransitive ==
  ASSUME NEW a, NEW b, NEW c, Placed(a), Placed(b), Placed(c), Precedes(a, b), Precedes(b, c)
  PROVE  Precedes(a, c)
BY LinkNumbers DEF Placed, Precedes

\* Byte b is lost, and the parser meets c instead.
LEMMA SkipLost ==
  ASSUME NEW b, NEW c, NEW L, NEW M, Placed(b), Placed(c), Consecutive(b, c),
         L \subseteq Places, Place(b) \in L,
         NEW st \in States, NEW p \in Seq(Places), ParserAt(b, st, p, L, M)
  PROVE  ParserAt(c, st, p, L, M)
<1>1. /\ b.frame \in Nat \ {0} /\ b.at \in 1..FrameSize
      /\ c.frame \in Nat \ {0} /\ c.at \in 1..FrameSize
      /\ b.at < FrameSize => c.frame = b.frame /\ c.at = b.at + 1
      /\ b.at = FrameSize => c.frame = b.frame + 1 /\ c.at = 1
      /\ PayloadSize \in Nat \ {0} /\ FrameSize = PayloadSize + 3
  BY PlacedConsecutive, LinkNumbers
<1>2. Place(b).frame = b.frame /\ Place(b).at = b.at
  BY DEF Place
<1>3. LossyIn(L, b.frame)
  BY <1>2 DEF LossyIn
<1>4. CASE InStep(b, st, p)
  <2>1. CASE b.at < FrameSize
    <3>1. c.frame = b.frame /\ c.at = b.at + 1 /\ b.at \in Nat
      BY <1>1, <2>1
    <3>2. LossBefore(c, L)
      BY <1>2, <3>1 DEF LossBefore
    <3>3. CASE b.at \in 3..(FrameSize - 1) /\ st = "PAYLOAD" /\ p = Bytes(b.frame, b.at - 3)
      <4>1. b.at - 3 \in Nat /\ b.at - 3 = c.at - 4 /\ c.at >= 4
        BY <1>1, <3>1, <3>3
      <4>2. Len(p) = b.at - 3
        BY <3>3, <4>1, NextOfPayload
      <4>3. Late(c, st, p, L)
        BY <3>2, <3>3, <4>1, <4>2 DEF Late
      <4> QED
        BY <4>3 DEF ParserAt
    <3>4. CASE (b.at = 1 /\ st = "WAIT_HEADER") \/ (b.at = 2 /\ st = "WAIT_SYNC")
      <4>1. Skipping(c, st, L)
        BY <3>1, <3>2, <3>4 DEF Skipping
      <4> QED
        BY <4>1 DEF ParserAt
    <3> QED
      BY <1>1, <1>4, <2>1, <3>3, <3>4 DEF InStep
  <2>2. CASE b.at = FrameSize
    <3>1. c.frame = b.frame + 1 /\ c.at = 1 /\ st = "FOOTER"
      BY <1>1, <1>4, <2>2 DEF InStep
    <3>2. c.frame - 1 = b.frame
      BY <1>1, <3>1
    <3> QED
      BY <1>3, <3>1, <3>2 DEF FooterLate, ParserAt
  <2> QED
    BY <1>1, <2>1, <2>2
\* Out of step already, the parser is lost.
<1>5. CASE ~InStep(b, st, p)
  <2>1. TroubleIn(L, M, b.frame)
    <3>1. CASE Late(b, st, p, L) \/ FooterLate(b, st, L) \/ Skipping(b, st, L)
      <4>1. PICK x \in L : x # Place(b) /\ x.frame \in SpellIn(L, M, b.frame)
        BY <3>1, OutOfStep
      <4>2. Place(b).frame \in SpellIn(L, M, b.frame)
        BY <1>1, <1>2, OwnSpell
      <4> QED
        BY <4>1, <4>2 DEF TroubleIn
    <3>2. CASE Lost(b, st, p, L, M)
      BY <3>2 DEF Lost
    <3> QED
      BY <1>5, <3>1, <3>2 DEF ParserAt
  <2>2. CASE b.at < FrameSize
    <3>1. c.frame = b.frame
      BY <1>1, <2>2
    <3> QED
      BY <1>3, <2>1, <3>1, LostAtFirst
  <2>3. CASE b.at = FrameSize
    <3>1. c.frame = b.frame + 1 /\ c.at = 1
      BY <1>1, <2>3
    <3>2. TroubleIn(L, M, c.frame)
      BY <1>1, <1>3, <2>1, <3>1, TroubleLasts
    <3> QED
      BY <3>1, <3>2, LostAtFirst
  <2> QED
    BY <1>1, <2>2, <2>3
<1> QED
  BY <1>4, <1>5

\* Bytes d and e, the next two after b, are lost, and so is every other one before c.
LEMMA JumpLost ==
  ASSUME NEW b, NEW c, NEW L, NEW M, Placed(b), Placed(c), L \subseteq Places,
         \A x \in Places : Precedes(b, x) /\ Precedes(x, c) => x \in L,
         NEW d \in L, NEW e \in L, Consecutive(b, d), Consecutive(d, e), Precedes(e, c),
         NEW st \in States, NEW p \in Seq(Places)
  PROVE  ParserAt(c, st, p, L, M)
<1>1. d \in Places /\ e \in Places /\ Placed(d) /\ Placed(e)
  BY DEF Places, Placed
<1>2. /\ Precedes(b, d) /\ Precedes(d, e) /\ d.frame <= e.frame /\ e.frame <= c.frame
      /\ d.frame \in Nat \ {0} /\ e.frame \in Nat \ {0} /\ c.frame \in Nat \ {0}
      /\ c.at \in 1..FrameSize /\ b.frame \in Nat \ {0} /\ b.frame <= d.frame
      /\ d # e /\ FrameSize \in Nat
  BY <1>1, PlacedConsecutive, LinkNumbers DEF Precedes, Placed
<1>3. ASSUME NEW h \in (d.frame + 1)..(c.frame - 1) PROVE LossyIn(L, h)
  <2> DEFINE x == [frame |-> h, at |-> 1]
  <2>1. x \in Places
    BY <1>2, <1>3, LinkNumbers DEF Places
  <2>2. Precedes(b, x) /\ Precedes(x, c)
    BY <1>2, <1>3 DEF Precedes
  <2> QED
    BY <2>1, <2>2 DEF LossyIn
<1>4. ASSUME NEW h \in d.frame..(c.frame - 1) PROVE LossyIn(L, h)
  <2>1. h = d.frame \/ h \in (d.frame + 1)..(c.frame - 1)
    BY <1>2, <1>4
  <2> QED
    BY <1>3, <2>1 DEF LossyIn
<1>5. ASSUME NEW f \in d.frame..c.frame PROVE f \in SpellIn(L, M, c.frame)
  <2>1. f \in 1..c.frame /\ f..(c.frame - 1) \subseteq d.frame..(c.frame - 1)
    BY <1>2, <1>5
  <2> QED
    BY <1>4, <2>1 DEF SpellIn
<1>6. TroubleIn(L, M, c.frame)
  <2>1. d.frame \in SpellIn(L, M, c.frame) /\ e.frame \in SpellIn(L, M, c.frame)
    BY <1>2, <1>5
  <2> QED
    BY <1>2, <2>1 DEF TroubleIn
<1>7. c.at = 1 \/ LossyIn(L, c.frame)
  <2>1. CASE c.frame = d.frame
    BY <2>1 DEF LossyIn
  <2>2. CASE c.frame > d.frame /\ c.at # 1
    <3> DEFINE x == [frame |-> c.frame, at |-> 1]
    <3>1. x \in Places
      BY <1>2, LinkNumbers DEF Places
    <3>2. Precedes(b, x) /\ Precedes(x, c)
      BY <1>2, <2>2 DEF Precedes
    <3> QED
      BY <3>1, <3>2 DEF LossyIn
  <2> QED
    BY <1>2, <2>1, <2>2
<1> QED
  BY <1>6, <1>7, LostAtFirst

\* What the bytes of the payload, and the frames missed, have to do with d holds of a later c.
LEMMA MeetsLater ==
  ASSUME NEW d, NEW c, NEW L, NEW M, Placed(d), Placed(c), Precedes(d, c), L \subseteq Places,
         Place(d) \in L, \A x \in Places : Precedes(d, x) /\ Precedes(x, c) => x \in L,
         NEW st, NEW p \in Seq(Places), NEW acc \in Nat,
         Filling(d, st, p, acc), Missing(d, acc, L, M)
  PROVE  Filling(c, st, p, acc) /\ Missing(c, acc, L, M)
<1>1. /\ d.frame \in Nat \ {0} /\ c.frame \in Nat \ {0} /\ d.frame <= c.frame
      /\ d.at \in 1..FrameSize
  BY LinkNumbers DEF Placed, Precedes
<1>2. Filling(c, st, p, acc)
  <2> SUFFICES ASSUME st \in {"PAYLOAD", "FOOTER"}, NEW i \in 1..Len(p)
               PROVE  acc < p[i].frame /\ Precedes(p[i], c)
    BY DEF Filling
  <2>1. acc < p[i].frame /\ Precedes(p[i], d)
    BY DEF Filling
  <2>2. Placed(p[i])
    <3>1. p[i] \in Places
      OBVIOUS
    <3> QED
      BY <3>1 DEF Places, Placed
  <2> QED
    BY <2>1, <2>2, PrecedesTransitive
<1>3. ASSUME NEW f \in (acc + 1)..(c.frame - 1) PROVE ExcusedIn(L, M, f)
  <2>1. CASE f < d.frame
    <3>1. f \in (acc + 1)..(d.frame - 1)
      BY <1>1, <1>3, <2>1
    <3> QED
      BY <3>1 DEF Missing
  <2>2. CASE f = d.frame
    <3>1. Place(d).frame = f
      BY <2>2 DEF Place
    <3> QED
      BY <1>1, <2>2, <3>1, LossInSpell
  <2>3. CASE f > d.frame
    <3> DEFINE x == [frame |-> f, at |-> 1]
    <3>1. x \in Places
      BY <1>1, <1>3, <2>3, LinkNumbers DEF Places
    <3>2. Precedes(d, x) /\ Precedes(x, c)
      BY <1>1, <1>3, <2>3 DEF Precedes
    <3>3. x \in L /\ f \in Nat \ {0} /\ x.frame = f
      BY <1>1, <1>3, <2>3, <3>1, <3>2
    <3> HIDE DEF x
    <3> QED
      BY <3>3, LossInSpell
  <2> QED
    BY <1>1, <1>3, <2>1, <2>2, <2>3
<1>4. acc < c.frame
  BY <1>1 DEF Missing
<1> QED
  BY <1>2, <1>3, <1>4 DEF Missing

\* The parser takes the byte b at the head of the ring buffer and meets c, the next one that
\* arrived, or that will: some in between may be lost.
LEMMA Meets ==
  ASSUME NEW b, NEW c, NEW L, NEW M, GoodByte(b), Placed(c), L \subseteq Places,
         Follows(b, c, L, M),
         NEW st \in States, NEW p \in Seq(Places), NEW acc \in Nat,
         \A d : Taking(b, d, L, M) => Parsing(d, st, p, acc, L, M)
  PROVE  Parsing(c, st, p, acc, L, M)
<1>1. CASE Consecutive(b, c)
  BY <1>1 DEF Taking, Follows
<1>2. CASE ~Consecutive(b, c)
  <2> DEFINE d == Successor(b)
  <2>1. Placed(b) /\ Precedes(b, c)
    BY DEF GoodByte, Follows
  <2>2. /\ Placed(d) /\ Place(d) \in Places /\ Consecutive(b, d) /\ Precedes(b, d)
        /\ Precedes(d, c) \/ (c.frame = d.frame /\ c.at = d.at)
    BY <2>1, SuccessorFacts
  <2>3. Precedes(d, c)
    BY <1>2, <2>2 DEF Consecutive
  <2>4. d.value = "NL"
    BY DEF Successor
  <2>5. Parsing(d, st, p, acc, L, M)
    BY <2>2, <2>4 DEF Taking, NoHeader
  <2> HIDE DEF d
  <2>6. Place(d) \in L
    <3>1. Precedes(b, Place(d)) /\ Precedes(Place(d), c)
      BY <2>2, <2>3 DEF Precedes, Place
    <3> QED
      BY <2>2, <3>1 DEF Follows
  <2>7. \A x \in Places : Precedes(d, x) /\ Precedes(x, c) => x \in L
    <3>1. ASSUME NEW x \in Places, Precedes(d, x) PROVE Precedes(b, x)
      <4>1. Placed(x)
        BY DEF Places, Placed
      <4> QED
        BY <2>1, <2>2, <3>1, <4>1, PrecedesTransitive
    <3> QED
      BY <3>1 DEF Follows
  <2>8. Filling(c, st, p, acc) /\ Missing(c, acc, L, M)
    BY <2>2, <2>3, <2>5, <2>6, <2>7, MeetsLater DEF Parsing
  <2>9. ParserAt(c, st, p, L, M)
    <3>1. CASE Consecutive(d, c)
      BY <2>2, <2>5, <2>6, <3>1, SkipLost DEF Parsing
    <3>2. CASE ~Consecutive(d, c)
      <4> DEFINE e == Successor(d)
      <4>1. /\ Placed(e) /\ Place(e) \in Places /\ Consecutive(d, e) /\ Precedes(d, e)
            /\ Precedes(e, c) \/ (c.frame = e.frame /\ c.at = e.at)
        BY <2>2, <2>3, SuccessorFacts
      <4> HIDE DEF e
      <4>2. Precedes(e, c)
        BY <3>2, <4>1 DEF Consecutive
      <4>3. /\ Precedes(d, Place(e)) /\ Precedes(Place(e), c)
            /\ Consecutive(b, Place(d)) /\ Consecutive(Place(d), Place(e))
        BY <2>2, <4>1, <4>2 DEF Precedes, Place, Consecutive
      <4>4. Place(e) \in L
        BY <2>7, <4>1, <4>3
      <4>5. \A x \in Places : Precedes(b, x) /\ Precedes(x, c) => x \in L
        BY DEF Follows
      <4> QED
        BY <2>1, <2>6, <4>3, <4>4, <4>5, JumpLost
    <3> QED
      BY <3>1, <3>2
  <2> QED
    BY <2>8, <2>9 DEF Parsing
<1> QED
  BY <1>1, <1>2

----------------------------------------------------------------------------
(* Types *)

LEMMA LinkTypeInit ==
  LinkInit => LinkTypeInv
<1> SUFFICES ASSUME LinkInit PROVE LinkTypeInv
  OBVIOUS
<1>1. IsFiniteSet({}) /\ Cardinality({}) = 0
  BY FS_EmptySet
<1>2. lost = {} /\ misleading = {} /\ frame = 0 /\ sent = 0 /\ accepted = 0
  BY DEF LinkInit
<1>3. ring = <<>> /\ payload = <<>> /\ collected = <<>> /\ state = "WAIT_HEADER" /\ ~inferring
  BY DEF LinkInit
<1>4. Len(ring) = 0 /\ Len(payload) = 0 /\ Len(collected) = 0
  BY <1>3
<1>5. LinkTypeOK
  BY <1>1, <1>2, <1>3, <1>4, LinkAssumption DEF LinkTypeOK, FrameSize
<1>6. /\ ring \in Seq(BytesSent)
      /\ payload \in Seq(Places)
      /\ collected \in Seq(Seq(Places))
  BY <1>3
<1> QED
  BY <1>1, <1>2, <1>3, <1>5, <1>6 DEF LinkTypeInv

LEMMA ByteAtSent ==
  ASSUME LinkTypeInv, frame > 0, sent < FrameSize
  PROVE  ByteAt(sent + 1) \in BytesSent /\ GoodByte(ByteAt(sent + 1))
<1>1. frame \in Nat \ {0} /\ sent + 1 \in 1..FrameSize /\ outgoing \in Payloads
  BY LinkNumbers DEF LinkTypeInv, LinkTypeOK
<1> DEFINE v == IF sent + 1 = 1 THEN "AA" ELSE IF sent + 1 = 2 THEN "BB"
                ELSE IF sent + 1 = FrameSize THEN "NL" ELSE outgoing[(sent + 1) - 2]
<1>2. ByteAt(sent + 1) = [value |-> v, frame |-> frame, at |-> sent + 1]
  BY DEF ByteAt
<1>3. v \in Values
  <2>1. CASE sent + 1 \in {1, 2, FrameSize}
    BY <2>1, LinkNumbers
  <2>2. CASE sent + 1 \notin {1, 2, FrameSize}
    <3>1. (sent + 1) - 2 \in 1..PayloadSize
      BY <1>1, <2>2, LinkNumbers
    <3>2. outgoing[(sent + 1) - 2] \in Values
      BY <1>1, <3>1 DEF Payloads
    <3> QED
      BY <2>2, <3>2
  <2> QED
    BY <2>1, <2>2
<1>4. /\ sent + 1 = 1 => v = "AA"
      /\ sent + 1 = 2 => v = "BB"
      /\ sent + 1 = FrameSize => v = "NL"
  BY <1>1, LinkNumbers
<1> HIDE DEF v
<1> QED
  BY <1>1, <1>2, <1>3, <1>4 DEF BytesSent, GoodByte, Placed

LEMMA LinkTypeNext ==
  LinkTypeInv /\ [LinkNext]_linkVars => LinkTypeInv'
<1> SUFFICES ASSUME LinkTypeInv, [LinkNext]_linkVars PROVE LinkTypeInv'
  OBVIOUS
<1> USE LinkAssumption DEF LinkTypeInv, LinkTypeOK
<1>1. CASE NextFrame
  <2>1. frame' = frame + 1 /\ frame \in Nat /\ frame' \in 0..MaxFrames /\ lost' = lost
    BY <1>1 DEF NextFrame
  <2>2. lost' \subseteq [frame : 1..frame', at : 1..FrameSize]
    BY <2>1
  <2>3. misleading' \subseteq 1..frame'
    BY <1>1, <2>1 DEF NextFrame
  <2>4. outgoing' \in Payloads /\ (HasHeader(outgoing') => frame' \in misleading')
    BY <1>1 DEF NextFrame
  <2>5. HasHeader(outgoing)' => frame' \in misleading'
    BY <2>4 DEF HasHeader
  <2> QED
    BY <1>1, <2>1, <2>2, <2>3, <2>4, <2>5 DEF NextFrame, receiver, FrameSize
<1>2. ASSUME UNCHANGED <<outgoing, frame, misleading>>
      PROVE  (frame > 0 /\ HasHeader(outgoing) => frame \in misleading)'
  BY <1>2 DEF HasHeader
<1>3. CASE SendByte
  <2>1. ByteAt(sent + 1) \in BytesSent
    BY <1>3, ByteAtSent DEF SendByte
  <2> QED
    BY <1>2, <1>3, <2>1 DEF SendByte, receiver, FrameSize
<1>4. CASE LoseByte
  <2> DEFINE x == [frame |-> frame, at |-> sent + 1]
  <2>1. IsFiniteSet(lost') /\ Cardinality(lost') <= MaxLost
    <3>1. lost' = lost \cup {x} /\ Cardinality(lost) < MaxLost /\ Cardinality(lost) \in Nat
      BY <1>4, FS_CardinalityType DEF LoseByte
    <3>2. /\ IsFiniteSet(lost \cup {x})
          /\ \/ Cardinality(lost \cup {x}) = Cardinality(lost)
             \/ Cardinality(lost \cup {x}) = Cardinality(lost) + 1
      BY FS_AddElement
    <3> QED
      BY <3>1, <3>2
  <2>2. x \in [frame : 1..frame, at : 1..FrameSize]
    BY <1>4 DEF LoseByte, FrameSize
  <2> QED
    BY <1>2, <1>4, <2>1, <2>2 DEF LoseByte, receiver, FrameSize
<1>5. ASSUME NEW byte, Get(byte)
      PROVE  /\ byte \in BytesSent
             /\ ring' \in Seq(BytesSent) /\ Len(ring') <= RingSize
             /\ Place(byte) \in Places
             /\ (frame > 0 /\ HasHeader(outgoing) => frame \in misleading)'
  <2>1. ring \in Seq(BytesSent) /\ ring # <<>>
    BY <1>5 DEF Get
  <2>2. /\ Head(ring) \in BytesSent
        /\ Tail(ring) \in Seq(BytesSent)
        /\ Len(Tail(ring)) = Len(ring) - 1 /\ Len(ring) \in Nat
    BY <2>1
  <2>3. byte = Head(ring) /\ ring' = Tail(ring)
    BY <1>5 DEF Get
  <2>4. /\ byte \in BytesSent
        /\ ring' \in Seq(BytesSent)
    BY <2>2, <2>3
  <2>5. Len(ring') <= RingSize
    BY <2>2, <2>3
  <2>6. Place(byte) \in Places
    BY <2>4 DEF Place, Places, BytesSent
  <2>7. (frame > 0 /\ HasHeader(outgoing) => frame \in misleading)'
    BY <1>2, <1>5 DEF Get
  <2> QED
    BY <2>4, <2>5, <2>6, <2>7
<1>6. ASSUME NEW byte, Header(byte) PROVE LinkTypeInv'
  <2>1. Get(byte)
    BY <1>6 DEF Header
  <2> QED
    BY <1>5, <1>6, <2>1 DEF Header, Get
<1>7. ASSUME NEW byte, Sync(byte) PROVE LinkTypeInv'
  <2>1. Get(byte)
    BY <1>7 DEF Sync
  <2> QED
    BY <1>5, <1>7, <2>1 DEF Sync, Get
<1>8. ASSUME NEW byte, Collect(byte) PROVE LinkTypeInv'
  <2>1. Get(byte)
    BY <1>8 DEF Collect
  <2>2. payload' = Append(payload, Place(byte))
    BY <1>8 DEF Collect, Place
  <2>3. payload' \in Seq(Places) /\ Len(payload') = Len(payload) + 1 /\ Len(payload) \in Nat
    BY <1>5, <2>1, <2>2
  <2>4. /\ Len(payload') <= PayloadSize
        /\ state' = "PAYLOAD" => Len(payload') < PayloadSize
        /\ state' = "FOOTER" => Len(payload') = PayloadSize
        /\ state' \in {"WAIT_HEADER", "WAIT_SYNC", "PAYLOAD", "FOOTER"}
    BY <1>8, <2>3 DEF Collect
  <2> QED
    BY <1>5, <1>8, <2>1, <2>3, <2>4 DEF Collect, Get
<1>9. ASSUME NEW byte, Footer(byte) PROVE LinkTypeInv'
  <2>1. Get(byte)
    BY <1>9 DEF Footer
  <2>2. accepted' \in Nat
    <3>1. payload[1] \in Places
      BY <1>9 DEF Footer
    <3>2. payload[1].frame \in Nat
      BY <3>1 DEF Places
    <3>3. accepted' = accepted \/ (Whole(payload) /\ accepted' = FrameOf(payload))
      BY <1>9 DEF Footer
    <3> QED
      BY <3>2, <3>3 DEF FrameOf
  <2>3. collected' \in Seq(Seq(Places)) /\ Len(collected') <= InputFrames
    <3>1. /\ Append(collected, payload) \in Seq(Seq(Places))
          /\ Len(Append(collected, payload)) = Len(collected) + 1 /\ Len(collected) \in Nat
      OBVIOUS
    <3>2. \/ collected' = collected
          \/ Len(collected) < InputFrames /\ collected' = Append(collected, payload)
      BY <1>9 DEF Footer
    <3>3. CASE collected' = collected
      BY <3>3
    <3>4. CASE Len(collected) < InputFrames /\ collected' = Append(collected, payload)
      BY <3>1, <3>4
    <3> QED
      BY <3>2, <3>3, <3>4
  <2>4. inferring' => Len(collected') = InputFrames
    <3>1. CASE IsFooter(byte)
      <4>1. inferring' = (Len(collected') = InputFrames)
        BY <1>9, <3>1 DEF Footer
      <4> QED
        BY <4>1, Zenon
    <3>2. CASE ~IsFooter(byte)
      BY <1>9, <3>2 DEF Footer
    <3> QED
      BY <3>1, <3>2
  <2> QED
    BY <1>5, <1>9, <2>1, <2>2, <2>3, <2>4 DEF Footer, Get
<1>10. CASE Inference
  BY <1>2, <1>10 DEF Inference, AfterInference
<1>11. CASE UNCHANGED linkVars
  BY <1>2, <1>11 DEF linkVars
<1> QED
  BY <1>1, <1>3, <1>4, <1>6, <1>7, <1>8, <1>9, <1>10, <1>11 DEF LinkNext, Receive

----------------------------------------------------------------------------
(* The inductive invariant *)

LEMMA UnsentGood ==
  LinkTypeInv => GoodByte(Unsent) /\ Placed(Unsent)
<1> SUFFICES ASSUME LinkTypeInv PROVE GoodByte(Unsent) /\ Placed(Unsent)
  OBVIOUS
<1>1. frame \in Nat /\ sent \in 0..FrameSize
  BY DEF LinkTypeInv, LinkTypeOK
<1>2. CASE frame = 0 \/ sent = FrameSize
  BY <1>1, <1>2, LinkNumbers DEF Unsent, GoodByte, Placed
<1>3. CASE ~(frame = 0 \/ sent = FrameSize)
  <2>1. frame > 0 /\ sent < FrameSize /\ Unsent = ByteAt(sent + 1)
    BY <1>1, <1>3, LinkNumbers DEF Unsent
  <2> QED
    BY <2>1, ByteAtSent DEF GoodByte
<1> QED
  BY <1>2, <1>3

\* When a byte has been sent or lost it is the turn of the next one.
LEMMA UnsentNext ==
  ASSUME LinkTypeInv, frame > 0, sent < FrameSize,
         sent' = sent + 1, UNCHANGED <<frame, outgoing>>
  PROVE  /\ Consecutive(Unsent, Unsent') /\ NoHeader(Unsent, Unsent', misleading)
         /\ Unsent = ByteAt(sent + 1) /\ Unsent.frame = frame
<1> USE LinkAssumption DEF FrameSize
<1>1. frame \in Nat \ {0} /\ sent \in 0..(FrameSize - 1) /\ outgoing \in Payloads
  BY DEF LinkTypeInv, LinkTypeOK
<1>2. /\ Unsent = ByteAt(sent + 1)
      /\ Unsent.frame = frame /\ Unsent.at = sent + 1
  BY <1>1 DEF Unsent, ByteAt
<1>3. CASE sent + 1 = FrameSize
  BY <1>1, <1>2, <1>3 DEF Unsent, ByteAt, Consecutive, NoHeader
<1>4. CASE sent + 1 # FrameSize
  <2>1. Unsent' = [value |-> IF sent + 2 = 2 THEN "BB" ELSE IF sent + 2 = FrameSize THEN "NL"
                             ELSE outgoing[sent],
                   frame |-> frame, at |-> sent + 2]
    BY <1>1, <1>4 DEF Unsent, ByteAt
  <2>2. Consecutive(Unsent, Unsent')
    BY <1>1, <1>2, <1>4, <2>1 DEF Consecutive
  <2>3. NoHeader(Unsent, Unsent', misleading)
    <3> SUFFICES ASSUME Unsent.value = "AA", sent + 1 >= 3, frame \notin misleading
                 PROVE  Unsent'.value # "BB"
      BY <1>2 DEF NoHeader
    <3>1. Unsent.value = outgoing[sent - 1] /\ sent - 1 \in 1..PayloadSize
      BY <1>1, <1>2, <1>4 DEF ByteAt
    <3>2. CASE sent + 2 = FrameSize
      BY <1>1, <2>1, <3>2
    <3>3. CASE sent + 2 # FrameSize
      <4>1. sent - 1 \in 1..(PayloadSize - 1) /\ (sent - 1) + 1 = sent
        BY <1>1, <1>4, <3>3
      <4>2. ~HasHeader(outgoing)
        BY <1>1 DEF LinkTypeInv
      <4>3. outgoing[sent] # "BB"
        BY <3>1, <4>1, <4>2 DEF HasHeader
      <4> QED
        BY <1>1, <2>1, <3>3, <4>3
    <3> QED
      BY <3>2, <3>3
  <2> QED
    BY <1>2, <2>2, <2>3
<1> QED
  BY <1>2, <1>3, <1>4

\* A byte that arrives follows also when more are lost, or more is sent.
LEMMA FollowsMore ==
  ASSUME NEW b, NEW c, NEW L, NEW K, L \subseteq K, NEW M, NEW N, M \subseteq N,
         Follows(b, c, L, M)
  PROVE  Follows(b, c, K, N)
BY DEF Follows, NoHeader

LEMMA LostIsOK ==
  ASSUME LinkTypeInv
  PROVE  /\ lost \subseteq Places /\ accepted \in Nat /\ payload \in Seq(Places)
         /\ state \in States /\ ring \in Seq(BytesSent) /\ frame \in Nat
BY DEF LinkTypeInv, LinkTypeOK, Places, States

\* The next byte comes from the ring buffer, where each follows the one before it.
LEMMA BytesInOrderNext ==
  LinkInv /\ [LinkNext]_linkVars => BytesInOrder'
<1> SUFFICES ASSUME LinkInv, [LinkNext]_linkVars PROVE BytesInOrder'
  OBVIOUS
<1>1. LinkTypeInv /\ BytesInOrder /\ ring \in Seq(BytesSent) /\ frame \in Nat
  BY LostIsOK DEF LinkInv
<1>2. CASE NextFrame
  <2>1. Unsent' = Unsent
    BY <1>1, <1>2, LinkAssumption DEF NextFrame, Unsent, ByteAt, FrameSize
  <2>2. /\ ring' = ring /\ lost' = lost /\ frame' = frame + 1
        /\ misleading \subseteq misleading' /\ lost \subseteq lost'
    BY <1>2 DEF NextFrame, receiver
  <2>3. \A i \in 1..Len(ring) : ring[i].frame \in Nat
    <3>1. \A i \in 1..Len(ring) : ring[i] \in BytesSent
      BY <1>1
    <3> QED
      BY <3>1 DEF BytesSent
  <2>4. \A i \in 1..Len(ring') : GoodByte(ring'[i]) /\ ring'[i].frame <= frame'
    BY <1>1, <2>2, <2>3 DEF BytesInOrder
  <2>5. \A i \in 1..(Len(ring') - 1) : Follows(ring'[i], ring'[i + 1], lost', misleading')
    BY <1>1, <2>2, FollowsMore DEF BytesInOrder
  <2>6. ring' # <<>> => Follows(ring'[Len(ring')], Unsent', lost', misleading')
    BY <1>1, <2>1, <2>2, FollowsMore DEF BytesInOrder
  <2> QED
    BY <2>4, <2>5, <2>6 DEF BytesInOrder
<1>3. CASE SendByte
  <2>1. frame > 0 /\ sent < FrameSize /\ sent' = sent + 1 /\ UNCHANGED <<frame, outgoing>>
    BY <1>3 DEF SendByte
  <2>2. Consecutive(Unsent, Unsent') /\ NoHeader(Unsent, Unsent', misleading)
    BY <1>1, <2>1, UnsentNext
  <2>3. /\ ring' = Append(ring, Unsent) /\ lost' = lost /\ frame' = frame
        /\ misleading' = misleading
    BY <1>1, <1>3, <2>1, UnsentNext DEF SendByte
  <2>4. GoodByte(Unsent) /\ Unsent.frame <= frame /\ Placed(Unsent)
    BY <1>1, <2>1, UnsentGood, UnsentNext
  <2>5. LinkTypeInv'
    BY <1>1, LinkTypeNext
  <2>6. Placed(Unsent')
    <3>1. (LinkTypeInv => Placed(Unsent))'
      BY UnsentGood, PTL
    <3> QED
      BY <2>5, <3>1 DEF Placed
  <2>7. Follows(Unsent, Unsent', lost, misleading)
    <3>1. \A x \in Places : Placed(x)
      BY DEF Places, Placed
    <3> QED
      BY <2>2, <2>4, <2>6, <3>1, PlacedConsecutive DEF Follows
  <2>8. Unsent \in BytesSent
    BY <1>1, <2>1, ByteAtSent, UnsentNext
  <2>9. /\ Len(ring') = Len(ring) + 1 /\ Len(ring) \in Nat
        /\ \A i \in 1..Len(ring) : ring'[i] = ring[i]
        /\ ring'[Len(ring) + 1] = Unsent
    BY <1>1, <2>3, <2>8
  <2>10. \A i \in 1..Len(ring') : GoodByte(ring'[i]) /\ ring'[i].frame <= frame'
    BY <1>1, <2>3, <2>4, <2>9 DEF BytesInOrder
  <2>11. ASSUME NEW i \in 1..(Len(ring') - 1)
         PROVE  Follows(ring'[i], ring'[i + 1], lost', misleading')
    <3>1. CASE i = Len(ring)
      BY <1>1, <2>3, <2>9, <2>11, <3>1 DEF BytesInOrder
    <3>2. CASE i # Len(ring)
      BY <1>1, <2>3, <2>9, <2>11, <3>2 DEF BytesInOrder
    <3> QED
      BY <3>1, <3>2
  <2>12. Follows(ring'[Len(ring')], Unsent', lost', misleading')
    BY <2>3, <2>7, <2>9
  <2> QED
    BY <2>10, <2>11, <2>12 DEF BytesInOrder
<1>4. CASE LoseByte
  <2> DEFINE x == Place(Unsent)
  <2>1. frame > 0 /\ sent < FrameSize /\ sent' = sent + 1 /\ UNCHANGED <<frame, outgoing>>
    BY <1>4 DEF LoseByte
  <2>2. ring' = ring /\ frame' = frame /\ lost' = lost \cup {x} /\ misleading' = misleading
    BY <1>1, <1>4, <2>1, UnsentNext DEF LoseByte, receiver, ByteAt, Place
  <2>3. Consecutive(Unsent, Unsent') /\ Placed(Unsent)
    BY <1>1, <2>1, UnsentNext, UnsentGood
  <2>4. Placed(Unsent')
    <3>1. (LinkTypeInv => Placed(Unsent))'
      BY UnsentGood, PTL
    <3> QED
      BY <1>1, <3>1, LinkTypeNext DEF Placed
  <2>5. ASSUME ring # <<>> PROVE Follows(ring[Len(ring)], Unsent', lost', misleading')
    <3> DEFINE b == ring[Len(ring)]
               d == Unsent'
    <3>1. Follows(b, Unsent, lost, misleading) /\ Placed(b)
      <4>1. Len(ring) \in 1..Len(ring)
        BY <1>1, <2>5
      <4> QED
        BY <1>1, <2>5, <4>1 DEF BytesInOrder, GoodByte
    <3>2. Precedes(b, Unsent) /\ Precedes(Unsent, d) /\ Precedes(b, d)
      BY <2>3, <2>4, <3>1, PlacedConsecutive, PrecedesTransitive DEF Follows
    <3>3. ~Consecutive(b, d)
      BY <2>3, <2>4, <3>1, <3>2, PlacedConsecutive
    <3>4. ASSUME NEW y \in Places, Precedes(b, y), Precedes(y, d) PROVE y \in lost'
      <4>1. CASE Precedes(y, Unsent)
        BY <2>2, <3>1, <3>4, <4>1 DEF Follows
      <4>2. CASE Precedes(Unsent, y)
        <5>1. Placed(y)
          BY DEF Places, Placed
        <5> QED
          BY <2>3, <2>4, <3>4, <4>2, <5>1, PlacedConsecutive
      <4>3. CASE y.frame = Unsent.frame /\ y.at = Unsent.at
        <5>1. y = x
          BY <4>3 DEF Places, Place
        <5> QED
          BY <2>2, <5>1
      <4>4. Precedes(y, Unsent) \/ Precedes(Unsent, y)
              \/ (y.frame = Unsent.frame /\ y.at = Unsent.at)
        BY <2>3, LinkNumbers DEF Precedes, Placed, Places
      <4> QED
        BY <4>1, <4>2, <4>3, <4>4
    <3> QED
      BY <3>2, <3>3, <3>4 DEF Follows
  <2>6. \A i \in 1..(Len(ring) - 1) : Follows(ring[i], ring[i + 1], lost', misleading')
    BY <1>1, <2>2, FollowsMore DEF BytesInOrder
  <2> QED
    BY <1>1, <2>2, <2>5, <2>6 DEF BytesInOrder
<1>5. ASSUME NEW byte, Get(byte) PROVE BytesInOrder'
  <2>1. /\ ring # <<>> /\ ring' = Tail(ring) /\ lost' = lost /\ misleading' = misleading
        /\ frame' = frame /\ Unsent' = Unsent
    BY <1>5 DEF Get, Unsent, ByteAt
  <2>2. /\ Len(ring') = Len(ring) - 1 /\ Len(ring) \in Nat
        /\ \A i \in 1..(Len(ring) - 1) : ring'[i] = ring[i + 1]
    BY <1>1, <2>1
  <2>3. \A i \in 1..Len(ring') : GoodByte(ring'[i]) /\ ring'[i].frame <= frame'
    BY <1>1, <2>1, <2>2 DEF BytesInOrder
  <2>4. ASSUME NEW i \in 1..(Len(ring') - 1)
        PROVE  Follows(ring'[i], ring'[i + 1], lost', misleading')
    <3>1. /\ i + 1 \in 1..(Len(ring) - 1)
          /\ ring'[i] = ring[i + 1] /\ ring'[i + 1] = ring[(i + 1) + 1]
      BY <2>2, <2>4
    <3> QED
      BY <1>1, <2>1, <3>1 DEF BytesInOrder
  <2>5. ring' # <<>> => Follows(ring'[Len(ring')], Unsent', lost', misleading')
    <3> SUFFICES ASSUME ring' # <<>>
                 PROVE  Follows(ring'[Len(ring')], Unsent', lost', misleading')
      OBVIOUS
    <3>1. Len(ring') \in 1..(Len(ring) - 1) /\ Len(ring') + 1 = Len(ring)
      BY <1>1, <2>1, <2>2
    <3>2. ring'[Len(ring')] = ring[Len(ring)]
      BY <2>2, <3>1
    <3> QED
      BY <1>1, <2>1, <3>2 DEF BytesInOrder
  <2> QED
    BY <2>3, <2>4, <2>5 DEF BytesInOrder
<1>6. CASE Inference \/ UNCHANGED linkVars
  <2>1. /\ ring' = ring /\ lost' = lost /\ misleading' = misleading /\ frame' = frame
        /\ Unsent' = Unsent
    BY <1>6 DEF Inference, linkVars, Unsent, ByteAt
  <2> QED
    BY <1>1, <2>1 DEF BytesInOrder
<1> QED
  BY <1>2, <1>3, <1>4, <1>5, <1>6 DEF LinkNext, Receive, Header, Sync, Collect, Footer

\* What the parser may be doing when it takes its next byte, whichever that is
LEMMA ParsingNext ==
  LinkInv /\ [LinkNext]_linkVars =>
    Parsing(NextByte', state', payload', accepted', lost', misleading')
<1> DEFINE After == Parsing(NextByte', state', payload', accepted', lost', misleading')
<1> SUFFICES ASSUME LinkInv, [LinkNext]_linkVars PROVE After
  OBVIOUS
<1>1. /\ LinkTypeInv /\ BytesInOrder
      /\ Parsing(NextByte, state, payload, accepted, lost, misleading)
  BY DEF LinkInv
<1>2. /\ LinkTypeInv'
      /\ lost \subseteq Places /\ accepted \in Nat /\ payload \in Seq(Places)
      /\ state \in States /\ ring \in Seq(BytesSent) /\ frame \in Nat
  BY <1>1, LinkTypeNext, LostIsOK
<1>3. /\ lost' \subseteq Places /\ accepted' \in Nat /\ payload' \in Seq(Places)
      /\ state' \in States
  <2>1. (LinkTypeInv =>
          /\ lost \subseteq Places /\ accepted \in Nat /\ payload \in Seq(Places)
          /\ state \in States)'
    BY LostIsOK, PTL
  <2> QED
    BY <1>2, <2>1 DEF Places, States
<1>4. GoodByte(Unsent) /\ Placed(Unsent) /\ Placed(Unsent)'
  <2>1. (LinkTypeInv => GoodByte(Unsent) /\ Placed(Unsent))'
    BY UnsentGood, PTL
  <2> QED
    BY <1>1, <1>2, <2>1, UnsentGood
<1>5. CASE NextFrame
  <2>1. Unsent' = Unsent
    BY <1>1, <1>2, <1>5, LinkAssumption DEF NextFrame, Unsent, ByteAt, FrameSize
  <2>2. ring' = ring /\ lost' = lost /\ misleading \subseteq misleading' /\ UNCHANGED receiver
    BY <1>5 DEF NextFrame
  <2>3. NextByte' = NextByte
    BY <2>1, <2>2 DEF NextByte
  <2>4. Parsing(NextByte, state, payload, accepted, lost, misleading')
    BY <1>1, <2>2, LosingMore
  <2> QED
    BY <2>2, <2>3, <2>4 DEF receiver
<1>6. CASE SendByte
  <2>1. frame > 0 /\ sent < FrameSize /\ sent' = sent + 1 /\ UNCHANGED <<frame, outgoing>>
    BY <1>6 DEF SendByte
  <2>2. /\ ring' = Append(ring, Unsent) /\ lost' = lost /\ misleading' = misleading
        /\ UNCHANGED receiver
    BY <1>1, <1>6, <2>1, UnsentNext DEF SendByte
  <2>3. Unsent \in BytesSent
    BY <1>1, <2>1, ByteAtSent, UnsentNext
  <2>4. NextByte' = NextByte
    BY <1>2, <2>2, <2>3 DEF NextByte
  <2> QED
    BY <1>1, <2>2, <2>4 DEF receiver
<1>7. CASE LoseByte
  <2>1. frame > 0 /\ sent < FrameSize /\ sent' = sent + 1 /\ UNCHANGED <<frame, outgoing>>
    BY <1>7 DEF LoseByte
  <2>2. /\ ring' = ring /\ lost' = lost \cup {Place(Unsent)} /\ misleading' = misleading
        /\ UNCHANGED receiver
    BY <1>1, <1>7, <2>1, UnsentNext DEF LoseByte, ByteAt, Place
  <2>3. Consecutive(Unsent, Unsent')
    BY <1>1, <2>1, UnsentNext
  <2>4. Parsing(NextByte, state, payload, accepted, lost', misleading)
    BY <1>1, <2>2, LosingMore
  <2>5. CASE ring = <<>>
    <3> DEFINE b == Unsent
               c == Unsent'
    <3>1. NextByte = b /\ NextByte' = c
      BY <2>2, <2>5 DEF NextByte
    <3>2. Placed(b) /\ Placed(c) /\ Consecutive(b, c) /\ Place(b) \in lost'
      BY <1>4, <2>2, <2>3 DEF Placed
    <3>3. Parsing(b, state, payload, accepted, lost', misleading)
      BY <2>4, <3>1
    <3> HIDE DEF b, c
    <3>4. ParserAt(c, state, payload, lost', misleading)
      BY <1>2, <1>3, <3>2, <3>3, SkipLost DEF Parsing
    <3>5. Filling(c, state, payload, accepted) /\ Missing(c, accepted, lost', misleading)
      <4>1. \A x \in Places : ~(Precedes(b, x) /\ Precedes(x, c))
        <5>1. \A x \in Places : Placed(x)
          BY DEF Places, Placed
        <5> QED
          BY <3>2, <5>1, PlacedConsecutive
      <4>2. Precedes(b, c)
        BY <3>2, PlacedConsecutive
      <4> QED
        BY <1>2, <1>3, <3>2, <3>3, <4>1, <4>2, MeetsLater DEF Parsing
    <3> QED
      BY <2>2, <3>1, <3>4, <3>5 DEF receiver, Parsing
  <2>6. CASE ring # <<>>
    <3>1. NextByte' = NextByte
      BY <2>2, <2>6 DEF NextByte
    <3> QED
      BY <2>2, <2>4, <3>1 DEF receiver
  <2> QED
    BY <2>5, <2>6
<1>8. ASSUME NEW byte, Get(byte)
      PROVE  /\ GoodByte(byte) /\ Parsing(byte, state, payload, accepted, lost, misleading)
             /\ Placed(NextByte') /\ Follows(byte, NextByte', lost, misleading)
             /\ lost' = lost /\ misleading' = misleading
  <2>1. /\ ring # <<>> /\ byte = ring[1] /\ ring' = Tail(ring) /\ lost' = lost
        /\ misleading' = misleading /\ Unsent' = Unsent
    BY <1>2, <1>8 DEF Get, Unsent, ByteAt
  <2>2. GoodByte(byte) /\ byte = NextByte
    BY <1>1, <1>2, <2>1 DEF BytesInOrder, NextByte
  <2>3. CASE Len(ring) = 1
    <3>1. ring' = <<>> /\ ring[Len(ring)] = byte
      BY <1>2, <2>1, <2>3
    <3>2. NextByte' = Unsent
      BY <2>1, <3>1 DEF NextByte
    <3> QED
      BY <1>1, <1>4, <2>1, <2>2, <3>1, <3>2 DEF BytesInOrder
  <2>4. CASE Len(ring) # 1
    <3>1. /\ Len(ring) \in Nat /\ Len(ring) >= 2 /\ Len(ring') = Len(ring) - 1
          /\ \A i \in 1..(Len(ring) - 1) : ring'[i] = ring[i + 1]
      <4>1. /\ Len(ring') = Len(ring) - 1 /\ Len(ring) \in Nat
            /\ \A i \in 1..(Len(ring) - 1) : ring'[i] = ring[i + 1]
        BY <1>2, <2>1
      <4>2. Len(ring) # 0
        BY <1>2, <2>1
      <4> QED
        BY <2>4, <4>1, <4>2
    <3>2. 1 \in 1..(Len(ring) - 1) /\ 2 \in 1..Len(ring) /\ ring'[1] = ring[1 + 1]
      BY <3>1
    <3>3. ring' # <<>>
      BY <3>1
    <3>4. NextByte' = ring[1 + 1]
      BY <3>2, <3>3 DEF NextByte
    <3>5. GoodByte(ring[2]) /\ Follows(ring[1], ring[1 + 1], lost, misleading)
      BY <1>1, <3>2 DEF BytesInOrder
    <3> QED
      BY <1>1, <2>1, <2>2, <3>4, <3>5 DEF GoodByte
  <2> QED
    BY <2>3, <2>4
\* What is left to show of a step that takes a byte
<1>9. ASSUME NEW byte, Get(byte),
             \A d : Taking(byte, d, lost, misleading) =>
               Parsing(d, state', payload', accepted', lost, misleading)
      PROVE  After
  <2> DEFINE c == NextByte'
  <2>1. Placed(c) /\ Follows(byte, c, lost, misleading) /\ GoodByte(byte)
    BY <1>8, <1>9
  <2> HIDE DEF c
  <2>2. Parsing(c, state', payload', accepted', lost, misleading)
    BY <1>2, <1>3, <1>9, <2>1, Meets
  <2> QED
    BY <1>8, <1>9, <2>2 DEF c
\* Unless it accepts one, and not for the newline that ends a frame in step, no frame is missed.
<1>10. ASSUME NEW byte, Get(byte), ~(InStep(byte, state, payload) /\ byte.at = FrameSize),
              NEW d, Taking(byte, d, lost, misleading), accepted' = accepted
       PROVE  Missing(d, accepted', lost, misleading)
  <2>1. Placed(byte) /\ Parsing(byte, state, payload, accepted, lost, misleading)
    BY <1>8, <1>10 DEF GoodByte
  <2>2. byte.at = FrameSize => ExcusedIn(lost, misleading, byte.frame)
    BY <1>2, <1>10, <2>1, OutOfStepExcuses DEF Parsing
  <2>3. accepted < byte.frame /\ Missing(byte, accepted, lost, misleading)
    BY <2>1 DEF Parsing, Missing
  <2>4. accepted \in Nat /\ byte.frame \in Nat
    BY <1>2, <2>1 DEF Placed
  <2> QED
    BY <1>10, <2>2, <2>3, <2>4, MissingNext
<1>11. ASSUME NEW byte, Header(byte) PROVE After
  <2>1. Get(byte) /\ state = "WAIT_HEADER" /\ payload' = payload /\ accepted' = accepted
    BY <1>11 DEF Header
  <2>2. state' = IF byte.value = "AA" THEN "WAIT_SYNC" ELSE "WAIT_HEADER"
    BY <1>11 DEF Header
  <2>3. ASSUME NEW d, Taking(byte, d, lost, misleading)
        PROVE  Parsing(d, state', payload', accepted', lost, misleading)
    <3>1. ParserAt(d, state', payload', lost, misleading)
      BY <1>2, <1>8, <2>1, <2>2, <2>3, TakeHeader DEF Parsing
    <3>2. ~(InStep(byte, state, payload) /\ byte.at = FrameSize)
      BY <2>1, LinkNumbers DEF InStep
    <3>3. Missing(d, accepted', lost, misleading)
      BY <1>10, <2>1, <2>3, <3>2
    <3>4. Filling(d, state', payload', accepted')
      BY <2>2 DEF Filling
    <3> QED
      BY <3>1, <3>3, <3>4 DEF Parsing
  <2> QED
    BY <1>9, <2>1, <2>3
<1>12. ASSUME NEW byte, Sync(byte) PROVE After
  <2>1. Get(byte) /\ state = "WAIT_SYNC" /\ accepted' = accepted
    BY <1>12 DEF Sync
  <2>2. /\ state' = IF byte.value = "BB" THEN "PAYLOAD"
                    ELSE IF byte.value = "AA" THEN "WAIT_SYNC" ELSE "WAIT_HEADER"
        /\ payload' = IF byte.value = "BB" THEN <<>> ELSE payload
    BY <1>12 DEF Sync
  <2>3. ASSUME NEW d, Taking(byte, d, lost, misleading)
        PROVE  Parsing(d, state', payload', accepted', lost, misleading)
    <3>1. ParserAt(d, state', payload', lost, misleading)
      BY <1>2, <1>8, <2>1, <2>2, <2>3, TakeSync DEF Parsing
    <3>2. ~(InStep(byte, state, payload) /\ byte.at = FrameSize)
      BY <2>1, LinkNumbers DEF InStep
    <3>3. Missing(d, accepted', lost, misleading)
      BY <1>10, <2>1, <2>3, <3>2
    <3>4. Filling(d, state', payload', accepted')
      BY <2>2 DEF Filling
    <3> QED
      BY <3>1, <3>3, <3>4 DEF Parsing
  <2> QED
    BY <1>9, <2>1, <2>3
<1>13. ASSUME NEW byte, Collect(byte) PROVE After
  <2>1. Get(byte) /\ state = "PAYLOAD" /\ accepted' = accepted
    BY <1>13 DEF Collect
  <2>2. /\ payload' = Append(payload, Place(byte))
        /\ state' = IF Len(Append(payload, Place(byte))) >= PayloadSize THEN "FOOTER"
                    ELSE "PAYLOAD"
    BY <1>13 DEF Collect, Place
  <2>3. ASSUME NEW d, Taking(byte, d, lost, misleading)
        PROVE  Parsing(d, state', payload', accepted', lost, misleading)
    <3>1. ParserAt(d, state', payload', lost, misleading)
      <4>1. Len(payload) < PayloadSize
        BY <1>1, <2>1 DEF LinkTypeInv
      <4> QED
        BY <1>2, <1>8, <2>1, <2>2, <2>3, <4>1, TakePayload DEF Parsing
    <3>2. ~(InStep(byte, state, payload) /\ byte.at = FrameSize)
      BY <2>1, LinkNumbers DEF InStep
    <3>3. Missing(d, accepted', lost, misleading)
      BY <1>10, <2>1, <2>3, <3>2
    <3>4. Filling(d, state', payload', accepted')
      <4>1. /\ Placed(byte) /\ Placed(d) /\ Precedes(byte, d)
            /\ Filling(byte, "PAYLOAD", payload, accepted) /\ accepted < byte.frame
        BY <1>8, <2>1, <2>3, PlacedConsecutive DEF Taking, GoodByte, Parsing, Missing
      <4>2. Place(byte) \in Places
        BY <4>1 DEF Placed, Place, Places
      <4>3. ASSUME NEW i \in 1..Len(payload')
            PROVE  accepted < payload'[i].frame /\ Precedes(payload'[i], d)
        <5>1. CASE i \in 1..Len(payload)
          <6>1. payload'[i] = payload[i] /\ payload[i] \in Places
            BY <1>2, <2>2, <4>2, <5>1
          <6>2. accepted < payload[i].frame /\ Precedes(payload[i], byte)
            BY <4>1, <5>1 DEF Filling
          <6>3. Placed(payload[i])
            BY <6>1 DEF Places, Placed
          <6> QED
            BY <4>1, <6>1, <6>2, <6>3, PrecedesTransitive
        <5>2. CASE i \notin 1..Len(payload)
          <6>1. payload'[i] = Place(byte)
            BY <1>2, <2>2, <4>2, <4>3, <5>2
          <6> QED
            BY <4>1, <6>1 DEF Place, Precedes
        <5> QED
          BY <5>1, <5>2
      <4> QED
        BY <2>1, <4>3 DEF Filling
    <3> QED
      BY <3>1, <3>3, <3>4 DEF Parsing
  <2> QED
    BY <1>9, <2>1, <2>3
<1>14. ASSUME NEW byte, Footer(byte) PROVE After
  <2>1. /\ Get(byte) /\ state = "FOOTER" /\ state' = "WAIT_HEADER" /\ payload' = payload
        /\ Parsing(byte, "FOOTER", payload, accepted, lost, misleading) /\ GoodByte(byte)
    BY <1>8, <1>14 DEF Footer
  <2>2. ASSUME NEW d, Taking(byte, d, lost, misleading)
        PROVE  Parsing(d, state', payload', accepted', lost, misleading)
    <3>1. ParserAt(d, state', payload', lost, misleading)
      BY <1>2, <2>1, <2>2, TakeFooter DEF Parsing
    <3>2. Filling(d, state', payload', accepted')
      BY <2>1 DEF Filling
    <3>3. Missing(d, accepted', lost, misleading)
      <4>1. CASE byte.value = "NL" /\ Whole(payload)
        <5>1. accepted' = FrameOf(payload)
          BY <1>14, <4>1 DEF Footer, IsFooter
        <5>2. /\ accepted < accepted' /\ accepted' <= byte.frame
              /\ accepted' = byte.frame => byte.at = FrameSize
          <6>1. Len(payload) = PayloadSize
            BY <1>1, <2>1 DEF LinkTypeInv
          <6> QED
            BY <1>2, <2>1, <4>1, <5>1, <6>1, WholeIsNew DEF GoodByte
        <5>3. byte.at = FrameSize =>
                accepted' = byte.frame \/ ExcusedIn(lost, misleading, byte.frame)
          <6>1. CASE payload = Bytes(byte.frame, PayloadSize)
            <7>1. FrameOf(payload) = byte.frame
              BY <4>1, <6>1, LinkNumbers DEF FrameOf, Bytes
            <7> QED
              BY <5>1, <7>1
          <6>2. CASE TroubleIn(lost, misleading, byte.frame)
            BY <6>2, TroubleExcuses
          <6> QED
            BY <2>1, <4>1, <6>1, <6>2, FooterFits DEF Parsing
        <5>4. Missing(byte, accepted, lost, misleading)
          BY <2>1 DEF Parsing
        <5>5. accepted <= accepted'
          BY <1>2, <1>3, <5>2
        <5> QED
          BY <1>2, <1>3, <2>2, <5>2, <5>3, <5>4, <5>5, MissingNext
      <4>2. CASE ~(byte.value = "NL" /\ Whole(payload))
        <5>1. accepted' = accepted
          BY <1>14, <4>2 DEF Footer, IsFooter
        <5>2. ~(InStep(byte, state, payload) /\ byte.at = FrameSize)
          <6> SUFFICES ASSUME InStep(byte, state, payload), byte.at = FrameSize PROVE FALSE
            OBVIOUS
          <6>1. payload = Bytes(byte.frame, PayloadSize) /\ byte.value = "NL"
            BY <2>1, LinkNumbers DEF InStep, GoodByte
          <6>2. Whole(payload)
            BY <6>1, LinkNumbers DEF Whole, Bytes
          <6> QED
            BY <4>2, <6>1, <6>2
        <5> QED
          BY <1>10, <2>1, <2>2, <5>1, <5>2
      <4> QED
        BY <4>1, <4>2
    <3> QED
      BY <3>1, <3>2, <3>3 DEF Parsing
  <2> QED
    BY <1>9, <2>1, <2>2
<1>15. CASE Inference \/ UNCHANGED linkVars
  <2>1. /\ ring' = ring /\ lost' = lost /\ misleading' = misleading /\ Unsent' = Unsent
        /\ state' = state /\ payload' = payload /\ accepted' = accepted
    BY <1>15 DEF Inference, linkVars, Unsent, ByteAt
  <2> QED
    BY <1>1, <2>1 DEF NextByte
<1> QED
  BY <1>5, <1>6, <1>7, <1>11, <1>12, <1>13, <1>14, <1>15 DEF LinkNext, Receive

LEMMA LinkInvInit ==
  LinkInit => LinkInv
<1> SUFFICES ASSUME LinkInit PROVE LinkInv
  OBVIOUS
<1>1. LinkTypeInv
  BY LinkTypeInit
<1>2. lost = {} /\ ring = <<>> /\ Unsent = [value |-> "AA", frame |-> 1, at |-> 1]
  BY DEF LinkInit, Unsent
<1>3. BytesInOrder
  BY <1>2 DEF BytesInOrder
<1>4. Parsing(NextByte, state, payload, accepted, lost, misleading)
  <2>1. NextByte.frame = 1 /\ NextByte.at = 1
    BY <1>2 DEF NextByte
  <2>2. state = "WAIT_HEADER" /\ accepted = 0
    BY DEF LinkInit
  <2> QED
    BY <2>1, <2>2 DEF Parsing, ParserAt, InStep, Filling, Missing
<1> QED
  BY <1>1, <1>3, <1>4 DEF LinkInv

LEMMA LinkInvNext ==
  LinkInv /\ [LinkNext]_linkVars => LinkInv'
<1> SUFFICES ASSUME LinkInv, [LinkNext]_linkVars PROVE LinkInv'
  OBVIOUS
<1>1. LinkTypeInv' /\ BytesInOrder'
  BY LinkTypeNext, BytesInOrderNext DEF LinkInv
<1>2. Parsing(NextByte, state, payload, accepted, lost, misleading)'
  BY ParsingNext
  DEF Parsing, ParserAt, InStep, Late, FooterLate, Skipping, Lost, Recovering, Filling, Missing,
      LossBefore, LossyIn, SpellIn, ExcusedIn, TroubleIn, Bytes, Precedes, FrameSize
<1> QED
  BY <1>1, <1>2 DEF LinkInv

\* Whatever was sent and lost, what process_uart_byte (main.cpp:133-176) is doing fits the
\* place of the next byte in its frame: for every size of the payload and of the ring buffer.
THEOREM LinkSpecInv ==
  LinkSpec => []LinkInv
BY LinkInvInit, LinkInvNext, PTL DEF LinkSpec

\* The ring buffer, the payload and the input never hold more than they have room for, and an
\* inference runs on a full input only (main.cpp:133-231).
THEOREM LinkSpecType ==
  LinkSpec => []LinkTypeOK
<1>1. LinkInv => LinkTypeOK
  BY DEF LinkInv, LinkTypeInv
<1> QED
  BY <1>1, LinkSpecInv, PTL

----------------------------------------------------------------------------
(* The refinement: a new frame is Produce, a lost byte Lose, an accepted payload Arrive when *)
(* it is whole and Garble when it is not, an inference that succeeds Consume; the other steps *)
(* change nothing that FeaturePipe sees. *)

\* The frames collected, as FeaturePipe sees them
Features == [i \in 1..Len(collected) |-> FrameOf(collected[i])]

\* One payload more is one frame more.
LEMMA OneMoreFeature ==
  ASSUME NEW c \in Seq(Seq(Places)), NEW p \in Seq(Places)
  PROVE  [i \in 1..Len(Append(c, p)) |-> FrameOf(Append(c, p)[i])]
           = Append([i \in 1..Len(c) |-> FrameOf(c[i])], FrameOf(p))
<1> DEFINE fs == [i \in 1..Len(c) |-> FrameOf(c[i])]
<1>1. Len(c) \in Nat /\ Len(Append(c, p)) = Len(c) + 1
  OBVIOUS
<1>2. Len(fs) = Len(c)
  BY <1>1
<1>3. \A i \in 1..Len(c) : Append(c, p)[i] = c[i]
  OBVIOUS
<1>4. Append(c, p)[Len(c) + 1] = p
  OBVIOUS
<1> DEFINE F == {FrameOf(x) : x \in Seq(Places)}
<1>5. \A x \in Seq(Places) : FrameOf(x) \in F
  OBVIOUS
<1> HIDE DEF F
<1>6. fs \in Seq(F) /\ FrameOf(p) \in F
  <2>1. \A i \in 1..Len(c) : FrameOf(c[i]) \in F
    BY <1>5
  <2> QED
    BY <1>1, <1>5, <2>1
<1> DEFINE gs == [i \in 1..(Len(c) + 1) |-> FrameOf(Append(c, p)[i])]
<1>7. Len(gs) = Len(c) + 1 /\ gs \in Seq(F)
  <2>1. Append(c, p) \in Seq(Seq(Places))
    OBVIOUS
  <2>2. \A i \in 1..(Len(c) + 1) : Append(c, p)[i] \in Seq(Places)
    BY <1>1, <2>1
  <2>3. \A i \in 1..(Len(c) + 1) : FrameOf(Append(c, p)[i]) \in F
    BY <1>5, <2>2
  <2> QED
    BY <1>1, <2>3
<1>8. \A i \in 1..(Len(c) + 1) : gs[i] = Append(fs, FrameOf(p))[i]
  <2> SUFFICES ASSUME NEW i \in 1..(Len(c) + 1) PROVE gs[i] = Append(fs, FrameOf(p))[i]
    OBVIOUS
  <2>1. CASE i = Len(c) + 1
    BY <1>1, <1>2, <1>4, <1>6, <2>1
  <2>2. CASE i \in 1..Len(c)
    <3>1. Append(fs, FrameOf(p))[i] = fs[i]
      BY <1>2, <1>6, <2>2
    <3> QED
      BY <1>3, <2>2, <3>1
  <2> QED
    BY <1>1, <2>1, <2>2
<1>9. /\ Append(fs, FrameOf(p)) \in Seq(F)
      /\ Len(Append(fs, FrameOf(p))) = Len(c) + 1
  BY <1>2, <1>6
<1>10. gs = Append(fs, FrameOf(p))
  <2> HIDE DEF gs, fs
  <2> QED
    BY <1>7, <1>8, <1>9, SeqEqual
<1> QED
  BY <1>1, <1>10

\* An accepted payload that is whole arrives: it is a frame later than the last one, and every
\* frame between the two is missing for a reason.  One that is not is garbled for a reason.
LEMMA FooterArrives ==
  ASSUME LinkInv, NEW byte, Footer(byte), IsFooter(byte)
  PROVE  Pipe!Arrive \/ Pipe!Garble
<1>1. /\ LinkTypeInv /\ BytesInOrder
      /\ Parsing(NextByte, "FOOTER", payload, accepted, lost, misleading)
  BY DEF LinkInv, Footer
<1>2. /\ lost \subseteq Places /\ accepted \in Nat /\ payload \in Seq(Places)
      /\ ring \in Seq(BytesSent) /\ frame \in Nat /\ Len(payload) = PayloadSize
      /\ collected \in Seq(Seq(Places))
  BY <1>1, LostIsOK DEF LinkTypeInv, Footer
<1>3. /\ ring # <<>> /\ byte = ring[1]
      /\ frame' = frame /\ lost' = lost /\ misleading' = misleading
  BY <1>2 DEF Footer, Get
<1>4. byte = NextByte /\ GoodByte(byte) /\ byte.frame <= frame /\ byte.frame \in Nat
  BY <1>1, <1>2, <1>3 DEF NextByte, BytesInOrder, GoodByte, Placed
<1>5. /\ collected' = IF Len(collected) < InputFrames THEN Append(collected, payload)
                      ELSE collected
      /\ accepted' = IF Whole(payload) THEN FrameOf(payload) ELSE accepted
      /\ byte.value = "NL"
  BY DEF Footer, IsFooter
<1>6. Pipe!Use(FrameOf(payload))
  <2>1. Len(Features) = Len(collected)
    BY <1>2 DEF Features
  <2>2. CASE Len(collected) < InputFrames
    <3>1. collected' = Append(collected, payload)
      BY <1>5, <2>2
    <3>2. Features' = Append(Features, FrameOf(payload))
      BY <1>2, <3>1, OneMoreFeature DEF Features
    <3> QED
      BY <2>1, <2>2, <3>2 DEF Pipe!Use, Features
  <2>3. CASE ~(Len(collected) < InputFrames)
    <3>1. collected' = collected
      BY <1>5, <2>3
    <3> QED
      BY <2>1, <2>3, <3>1 DEF Pipe!Use, Features
  <2> QED
    BY <2>2, <2>3
<1>7. accepted < byte.frame
      /\ \A g \in (accepted + 1)..(byte.frame - 1) : ExcusedIn(lost, misleading, g)
  BY <1>1, <1>4 DEF Parsing, Missing
<1>8. ASSUME NEW g, ExcusedIn(lost, misleading, g) PROVE Pipe!Excused(g)
  BY <1>8 DEF ExcusedIn, SpellIn, LossyIn, Pipe!Excused, Pipe!Spell, Pipe!Faulty
<1>9. ASSUME NEW f \in Nat, accepted < f, f <= byte.frame
      PROVE  f \in (accepted + 1)..frame /\ Pipe!NextAfter(f)
  <2>1. f \in (accepted + 1)..frame
    BY <1>2, <1>4, <1>9
  <2>2. \A g \in (accepted + 1)..(f - 1) : Pipe!Excused(g)
    <3>1. (accepted + 1)..(f - 1) \subseteq (accepted + 1)..(byte.frame - 1)
      BY <1>2, <1>4, <1>9
    <3> SUFFICES ASSUME NEW g \in (accepted + 1)..(f - 1) PROVE Pipe!Excused(g)
      OBVIOUS
    <3>2. ExcusedIn(lost, misleading, g)
      BY <1>7, <3>1
    <3> QED
      BY <1>8, <3>2
  <2> QED
    BY <2>1, <2>2 DEF Pipe!NextAfter
<1>10. CASE Whole(payload)
  <2> DEFINE f == FrameOf(payload)
  <2>1. f \in Nat /\ accepted < f /\ f <= byte.frame
    BY <1>1, <1>2, <1>4, <1>10, WholeIsNew DEF GoodByte
  <2>2. accepted' = f
    BY <1>5, <1>10
  <2> HIDE DEF f
  <2>3. f \in (accepted + 1)..frame /\ Pipe!NextAfter(f)
    BY <1>9, <2>1
  <2>4. Pipe!Use(f)
    BY <1>6 DEF f
  <2> QED
    BY <1>3, <2>2, <2>3, <2>4 DEF Pipe!Arrive
<1>11. CASE ~Whole(payload)
  <2>1. payload # Bytes(byte.frame, PayloadSize)
    BY <1>11, LinkNumbers DEF Whole, Bytes
  <2>2. Pipe!Trouble(byte.frame)
    <3>1. TroubleIn(lost, misleading, byte.frame)
      BY <1>1, <1>4, <1>5, <2>1, FooterFits DEF Parsing
    <3> QED
      BY <3>1 DEF TroubleIn, SpellIn, LossyIn, Pipe!Trouble, Pipe!Spell, Pipe!Faulty
  <2>3. byte.frame \in (accepted + 1)..frame /\ Pipe!NextAfter(byte.frame)
    BY <1>4, <1>7, <1>9
  <2>4. FrameOf(payload) = Pipe!NoFrame /\ accepted' = accepted
    BY <1>5, <1>11 DEF FrameOf, Pipe!NoFrame
  <2> QED
    BY <1>3, <1>6, <2>2, <2>3, <2>4 DEF Pipe!Garble
<1> QED
  BY <1>10, <1>11

LEMMA LinkStep ==
  LinkInv /\ [LinkNext]_linkVars => [Pipe!PipeNext]_(Pipe!pipeVars)
<1> SUFFICES ASSUME LinkInv, [LinkNext]_linkVars
             PROVE  Pipe!PipeNext \/ UNCHANGED Pipe!pipeVars
  OBVIOUS
<1> USE DEF Pipe!PipeNext
<1>1. LinkTypeInv
  BY DEF LinkInv
<1>2. ASSUME UNCHANGED <<frame, lost, misleading, accepted, collected>>
      PROVE  UNCHANGED Pipe!pipeVars
  BY <1>2 DEF Pipe!pipeVars
<1>3. CASE NextFrame
  <2>1. /\ frame' = frame + 1 /\ lost' = lost /\ accepted' = accepted /\ collected' = collected
        /\ misleading' \in {misleading, misleading \cup {frame'}}
    BY <1>3 DEF NextFrame, receiver
  <2> QED
    BY <2>1 DEF Pipe!Produce
<1>4. CASE SendByte
  BY <1>2, <1>4 DEF SendByte, receiver
<1>5. CASE LoseByte
  <2>1. /\ lost' = lost \cup {[frame |-> frame, at |-> sent + 1]}
        /\ UNCHANGED <<frame, misleading, accepted, collected>>
    BY <1>5 DEF LoseByte, receiver
  <2> QED
    BY <2>1 DEF Pipe!Lose
<1>6. ASSUME NEW byte, Header(byte) \/ Sync(byte) \/ Collect(byte)
      PROVE  UNCHANGED Pipe!pipeVars
  BY <1>2, <1>6 DEF Header, Sync, Collect, Get
<1>7. ASSUME NEW byte, Footer(byte) PROVE Pipe!PipeNext \/ UNCHANGED Pipe!pipeVars
  <2>1. CASE IsFooter(byte)
    BY <1>7, <2>1, FooterArrives
  <2>2. CASE ~IsFooter(byte)
    BY <1>2, <1>7, <2>2 DEF Footer, Get
  <2> QED
    BY <2>1, <2>2
<1>8. CASE Inference
  <2>1. /\ UNCHANGED <<frame, lost, misleading, accepted>>
        /\ Len(collected) = InputFrames
    BY <1>1, <1>8 DEF Inference, LinkTypeInv, LinkTypeOK
  <2>2. CASE collected' = collected
    BY <1>2, <2>1, <2>2
  <2>3. CASE collected' = <<>>
    <3>1. /\ Len([i \in 1..Len(collected) |-> FrameOf(collected[i])]) = InputFrames
          /\ [i \in 1..Len(collected') |-> FrameOf(collected'[i])] = <<>>
      BY <2>1, <2>3, LinkAssumption
    <3> QED
      BY <2>1, <3>1 DEF Pipe!Consume
  <2> QED
    BY <1>8, <2>2, <2>3 DEF Inference, AfterInference
<1>9. CASE UNCHANGED linkVars
  BY <1>2, <1>9 DEF linkVars
<1> QED
  BY <1>3, <1>4, <1>5, <1>6, <1>7, <1>8, <1>9 DEF LinkNext, Receive

\* The parser checks no more than the two bytes before a payload and the one after it, and a
\* byte it drops while it is out of step may begin the next frame (process_uart_byte,
\* main.cpp:133-176).  Nevertheless, whatever bytes the payloads hold and however many bytes are
\* lost, for every size of the payload, the input and the ring buffer: no frame is used twice or
\* out of order; one is missed, or a payload mixed from several used, only for what was lost
\* since the last frame without fault; one lost byte alone never mixes any, unless a payload
\* holds a header; and an inference runs on exactly InputFrames payloads.
THEOREM LinkIsAPipe ==
  LinkSpec => LinkImplementsPipe
<1>1. LinkInit => Pipe!PipeInit
  BY DEF LinkInit, Pipe!PipeInit
<1> QED
  BY <1>1, LinkStep, LinkSpecInv, PTL DEF LinkSpec, LinkImplementsPipe, Pipe!PipeSpec
=============================================================================
