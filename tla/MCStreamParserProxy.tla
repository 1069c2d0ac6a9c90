------------------------ MODULE MCStreamParserProxy ------------------------
(* Instances of StreamParserProxy for TLC: a tag of three bytes, packets of   *)
(* the smallest size and with the beginning of a tag in them.  Read as a      *)
(* header, the tag's first bytes give a large size, as they do in the code.   *)
EXTENDS StreamParserProxy
TagBytes     == <<90, 80, 90>>
SomePackets  == {<<2, 16>>, <<2, 24, 5>>, <<3, 32, 90, 80>>}
SomeNoise    == {<<>>, <<90>>, <<5, 90, 80>>, <<5, 5, 5, 5>>}
SomeCorrupt  == {<<2, 0>>, <<2, 8, 6>>}

\* The packets of each boot once more, item by item as the board sends them: a tag begins a boot,
\* a packet goes to the last one unless a corrupt header came before it.
BootsRead(is) ==
  LET Read(boots, item) ==
        IF item = Tag THEN Append(boots, <<>>)
        ELSE IF boots = <<>> \/ (Last(boots) # <<>> /\ Last(Last(boots)) \in Corrupt) THEN boots
        ELSE [boots EXCEPT ![Len(boots)] = Append(@, item)]
      boots == FoldLeft(Read, <<>>, is)
  IN  [n \in DOMAIN boots |-> SelectSeq(boots[n], LAMBDA p : p \in Packets)]

ASSUME ReferencesAgree == \A is \in BoundedSeq(Items, 6) : BootsOf(is) = BootsRead(is)
=============================================================================
