-------------------------- MODULE StreamParserProxy --------------------------
(***************************************************************************)
(* StreamParserProxy of src/server/handlers/trace_handler.py: it cuts the  *)
(* stream that a capture script forwards into resets (start tags) and CTF  *)
(* packets.  The network delivers the stream in pieces of any length.  The *)
(* generator's loop is one action per round, from one yield or await of    *)
(* its caller to the next.                                                 *)
(*                                                                         *)
(* A packet begins with a header of two bytes here, the packet's id and    *)
(* its size in bits (the real one takes two bytes for each).               *)
(***************************************************************************)
EXTENDS TraceStream, FiniteSets

CONSTANTS
  Packets,      \* well-formed packets
  Noise,        \* what a board may send before its first tag
  Corrupt,      \* headers with a size no packet can have
  MaxItems,     \* tags, packets and corrupt headers in a stream
  MaxRead       \* DATA_CHUNK_BYTES

HeaderLen == 2
SizeOf(bytes) == bytes[2] \div 8

ASSUME StreamAssumption ==
  /\ \A p \in Packets : p \in Seq(Nat) /\ Len(p) >= HeaderLen /\ SizeOf(p) = Len(p)
  /\ \A p \in Corrupt : p \in Seq(Nat) /\ Len(p) >= HeaderLen /\ SizeOf(p) < HeaderLen
  /\ Noise \subseteq Seq(Nat) /\ <<>> \in Noise
  /\ MaxItems \in Nat /\ MaxRead \in Nat \ {0}

\* The tag is no shorter than a header, and read as one it gives a size no smaller than itself
\* ("pl", its third and fourth byte, are 27760 bits).
ASSUME TagAsHeader == TagLen >= HeaderLen /\ SizeOf(Tag) >= TagLen

Items == Packets \cup Corrupt \cup {Tag}
\* Noise, then a tag, then anything; no other tag comes about by chance.
WellTagged(items) ==
  /\ Len(items) > 1 => items[2] = Tag
  /\ Cardinality(TagsIn(FlattenSeq(items))) = Cardinality({n \in DOMAIN items : items[n] = Tag})

VARIABLES
  items,         \* history: what the board sends, item by item
  read,          \* how many bytes of it have been read
  buffer, expected_size, is_synced,
  out,           \* for each RESET that was yielded, the PACKETs after it
  parsing        \* inside the loop of process_data

vars == <<items, read, buffer, expected_size, is_synced, out, parsing>>

None == 0        \* expected_size is not known
Streams == {noise \o rest : noise \in [1..1 -> Noise], rest \in BoundedSeq(Items, MaxItems)}

TypeOK ==
  /\ read \in 0..Len(FlattenSeq(items)) /\ buffer \in Seq(Nat)
  /\ expected_size \in Nat /\ is_synced \in BOOLEAN /\ parsing \in BOOLEAN
  /\ out \in Seq(Seq(Packets \cup Corrupt))
  /\ IsSuffix(buffer, FirstBytes(FlattenSeq(items), read))

Init ==
  /\ items \in {s \in Streams : WellTagged(s)}
  /\ read = 0 /\ buffer = <<>> /\ expected_size = None /\ is_synced = FALSE
  /\ out = <<>> /\ parsing = FALSE

Receive(n) ==
  /\ ~parsing
  /\ read + n <= Len(FlattenSeq(items))
  /\ buffer' = buffer \o SubSeq(FlattenSeq(items), read + 1, read + n)
  /\ read' = read + n /\ parsing' = TRUE
  /\ UNCHANGED <<items, expected_size, is_synced, out>>

\* A tag anywhere in the buffer: all before it goes, packets not yet yielded too.
FoundTag ==
  /\ parsing /\ HasTag(buffer)
  /\ buffer' = AfterTag(buffer)
  /\ is_synced' = TRUE /\ expected_size' = None /\ out' = Append(out, <<>>)
  /\ UNCHANGED <<items, read, parsing>>

UnsyncedKeepsNothing ==                        \* mutant: no bytes are kept
  /\ parsing /\ ~HasTag(buffer) /\ ~is_synced
  /\ buffer' = <<>> /\ parsing' = FALSE
  /\ UNCHANGED <<items, read, expected_size, is_synced, out>>

UnsyncedKeepsFirst ==                          \* mutant: the wrong end is kept
  /\ parsing /\ ~HasTag(buffer) /\ ~is_synced
  /\ buffer' = IF Len(buffer) > TagLen THEN FirstBytes(buffer, TagLen) ELSE buffer
  /\ parsing' = FALSE
  /\ UNCHANGED <<items, read, expected_size, is_synced, out>>

\* No tag so far: keep what may be the beginning of one.
Unsynced ==
  /\ parsing /\ ~HasTag(buffer) /\ ~is_synced
  /\ buffer' = IF Len(buffer) > TagLen THEN LastBytes(buffer, TagLen) ELSE buffer
  /\ parsing' = FALSE
  /\ UNCHANGED <<items, read, expected_size, is_synced, out>>

HeaderKnown == expected_size # None \/ Len(buffer) >= HeaderLen
Size == IF expected_size # None THEN expected_size ELSE SizeOf(buffer)

CorruptHeaderSkipped ==                        \* mutant: stay synced, go on behind it
  /\ parsing /\ ~HasTag(buffer) /\ is_synced
  /\ HeaderKnown /\ Size < HeaderLen
  /\ buffer' = Drop(buffer, HeaderLen) /\ expected_size' = None
  /\ UNCHANGED <<items, read, is_synced, out, parsing>>

\* The size is too small for a packet: drop everything, wait for the next tag.
CorruptHeader ==
  /\ parsing /\ ~HasTag(buffer) /\ is_synced
  /\ HeaderKnown /\ Size < HeaderLen
  /\ buffer' = <<>> /\ expected_size' = None /\ is_synced' = FALSE /\ parsing' = FALSE
  /\ UNCHANGED <<items, read, out>>

Packet ==
  /\ parsing /\ ~HasTag(buffer) /\ is_synced
  /\ HeaderKnown /\ Size >= HeaderLen /\ Len(buffer) >= Size
  /\ out' = [out EXCEPT ![Len(out)] = Append(@, FirstBytes(buffer, Size))]
  /\ buffer' = Drop(buffer, Size) /\ expected_size' = None
  /\ UNCHANGED <<items, read, is_synced, parsing>>

Incomplete ==
  /\ parsing /\ ~HasTag(buffer) /\ is_synced
  /\ HeaderKnown => Size >= HeaderLen /\ Len(buffer) < Size
  /\ expected_size' = IF HeaderKnown THEN Size ELSE None
  /\ parsing' = FALSE
  /\ UNCHANGED <<items, read, buffer, is_synced, out>>

Next ==
  \/ \E n \in 1..MaxRead : Receive(n)
  \/ FoundTag \/ Unsynced \/ CorruptHeader \/ Packet \/ Incomplete

Spec == Init /\ [][Next]_vars

----------------------------------------------------------------------------
\* The items that have been read completely
WholeItems ==
  SubSeq(items, 1,
         Cardinality({n \in DOMAIN items : Len(FlattenSeq(SubSeq(items, 1, n))) <= read}))

TagItems(is)   == {t \in DOMAIN is : is[t] = Tag}
TagItem(is, n) == CHOOSE t \in TagItems(is) : Cardinality({u \in TagItems(is) : u <= t}) = n
\* The packets after tag t, up to the next tag or a corrupt header
BootItems(is, t) == {e \in DOMAIN is : e > t /\ \A j \in (t + 1)..e : is[j] \in Packets \ {Tag}}
PacketsOfBoot(is, t) == SubSeq(is, t + 1, t + Cardinality(BootItems(is, t)))

\* The reference: the packets of each boot
BootsOf(is) == [n \in 1..Cardinality(TagItems(is)) |-> PacketsOfBoot(is, TagItem(is, n))]
Wanted == BootsOf(WholeItems)

\* Without corrupt headers, between two reads: every tag that has arrived was answered
\* with a reset, every packet that arrived after the last one was handed on, and of an
\* earlier boot the packets handed on are the first ones, in order.
FramedRight ==
  ~parsing /\ (\A n \in DOMAIN items : items[n] \notin Corrupt) =>
    /\ Len(out) = Len(Wanted)
    /\ \A n \in DOMAIN out : IsPrefix(out[n], Wanted[n])
    /\ out # <<>> => Last(out) = Last(Wanted)

\* babeltrace2 is given nothing but packets the board sent, in the order of one boot,
\* whatever is corrupt in between.
OnlyRealPackets ==
  \A n \in DOMAIN out : \E m \in DOMAIN Wanted : IsPrefix(out[n], Wanted[m])

\* Every start tag that was read is answered with a reset, also after corrupt data.
ResyncsAtTag == ~parsing => Len(out) = Len(Wanted)
=============================================================================
