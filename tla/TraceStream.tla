---------------------------- MODULE TraceStream ----------------------------
(***************************************************************************)
(* The byte stream of a board.  Every boot of the application begins with  *)
(* the start tag, b"_zpl_ctf_start__", followed by the CTF data of the     *)
(* boot.  Bytes are small numbers; the tag is a short sequence of them     *)
(* that, like the real one, begins and ends with the same byte.            *)
(***************************************************************************)
EXTENDS Naturals, FiniteSets, SequencesExt

CONSTANT Tag       \* _CTF_TRACE_START_TAG

ASSUME TagAssumption == Tag \in Seq(Nat) /\ Tag # <<>>

TagLen == Len(Tag)

\* how many bytes of s precede the first tag, as find(); only if there is one
HasTag(s)     == \E i \in 0..(Len(s) - TagLen) : SubSeq(s, i + 1, i + TagLen) = Tag
TagIndex(s)   == CHOOSE i \in 0..(Len(s) - TagLen) :
                   /\ SubSeq(s, i + 1, i + TagLen) = Tag
                   /\ \A h \in 0..(i - 1) : SubSeq(s, h + 1, h + TagLen) # Tag
BeforeTag(s)  == SubSeq(s, 1, TagIndex(s))
AfterTag(s)   == SubSeq(s, TagIndex(s) + TagLen + 1, Len(s))
LastBytes(s, n)  == SubSeq(s, Len(s) - n + 1, Len(s))
FirstBytes(s, n) == SubSeq(s, 1, n)
Drop(s, n)    == SubSeq(s, n + 1, Len(s))

\* where tags begin in s
TagsIn(s) == {i \in 1..(Len(s) - TagLen + 1) : SubSeq(s, i, i + TagLen - 1) = Tag}
=============================================================================
