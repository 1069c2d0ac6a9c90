----------------------------- MODULE FeaturePipe -----------------------------
(***************************************************************************)
(* What the serial link of the micro speech sample promises                *)
(* (src/samples/multi_machine/micro_speech), whatever the frames hold and  *)
(* however many bytes are lost.  Of the feature frames one node sends the  *)
(* other uses whole ones, each at most once and in the order they were     *)
(* sent, and it runs an inference on exactly InputFrames of them, all      *)
(* collected since the last inference that succeeded.  It misses a frame   *)
(* only for a byte lost in it or in the frames that lead up to it; and     *)
(* only where more than that went wrong may it use, for a frame, bytes     *)
(* that are none.                                                          *)
(***************************************************************************)
EXTENDS Integers, Sequences

CONSTANT
  InputFrames    \* frames in the input of the model (1960 / 40)

VARIABLES
  produced,   \* frames sent: 1..produced
  lost,       \* the bytes lost of them, each by its frame and position
  misleading, \* the frames whose payload holds the two bytes a frame begins with
  last,       \* the last frame that arrived
  input       \* the frames the next inference will use, NoFrame for bytes of several

pipeVars == <<produced, lost, misleading, last, input>>

NoFrame == -1

\* Frame g and those just before it, back to the last one that must have set the parser right
Faulty(f) == f \in misleading \/ \E x \in lost : x.frame = f
Spell(g)  == {f \in 1..g : \A h \in f..(g - 1) : Faulty(h)}

\* A byte was lost that frame g may be missed for
Excused(g) == \E x \in lost : x.frame \in Spell(g)

\* Two were, or one was and some payload looks like the beginning of a frame
Trouble(g) ==
  \E x \in lost :
    /\ x.frame \in Spell(g)
    /\ \/ \E y \in lost : y # x /\ y.frame \in Spell(g)
       \/ Spell(g) \cap misleading # {}

PipeInit == produced = 0 /\ lost = {} /\ misleading = {} /\ last = 0 /\ input = <<>>

Produce ==
  /\ produced' = produced + 1
  /\ misleading' \in {misleading, misleading \cup {produced'}}
  /\ UNCHANGED <<lost, last, input>>

\* Bytes of the frame being sent are lost.
Lose ==
  /\ lost \subseteq lost' /\ \A x \in lost' \ lost : x.frame = produced
  /\ UNCHANGED <<produced, misleading, last, input>>

\* A frame is not used when inferences fail and the input stays full.
Use(f) == input' = IF Len(input) < InputFrames THEN Append(input, f) ELSE input

\* Every frame between the last one and this one was missed for a reason.
NextAfter(g) == g \in (last + 1)..produced /\ \A f \in (last + 1)..(g - 1) : Excused(f)

Arrive ==
  \E f \in (last + 1)..produced :
    /\ NextAfter(f)
    /\ last' = f /\ Use(f)
    /\ UNCHANGED <<produced, lost, misleading>>

Garble ==
  /\ \E g \in (last + 1)..produced : NextAfter(g) /\ Trouble(g)
  /\ Use(NoFrame)
  /\ UNCHANGED <<produced, lost, misleading, last>>

Consume ==
  /\ Len(input) = InputFrames
  /\ input' = <<>>
  /\ UNCHANGED <<produced, lost, misleading, last>>

PipeNext == Produce \/ Lose \/ Arrive \/ Garble \/ Consume
PipeSpec == PipeInit /\ [][PipeNext]_pipeVars
=============================================================================
