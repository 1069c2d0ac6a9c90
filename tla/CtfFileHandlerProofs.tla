------------------------ MODULE CtfFileHandlerProofs ------------------------
(***************************************************************************)
(* Proofs about CtfFileHandler, for every tag, every stream and chunks of  *)
(* any length.  The inductive invariant says what the tags taken so far    *)
(* make of the bytes that have left the window (SplitInto), where the      *)
(* window may begin when it is too short, and that every tag that begins   *)
(* before it was taken or has one of the two excuses.                      *)
(***************************************************************************)
EXTENDS CtfFileHandler, FiniteSetTheorems, SequenceTheorems, TLAPS

\* The n-th piece into which the tags at tk divide h
PieceAt(h, tk, n) ==
  SubSeq(h, IF n = 0 THEN 1 ELSE tk[n] + TagLen,
            IF n = Len(tk) THEN Len(h) ELSE tk[n + 1] - 1)

\* The files fs are the pieces into which the tags at tk divide h, the first one numbered 1 - k.
SplitInto(h, fs, tk, k) ==
  /\ \A n \in 1..Len(tk) : tk[n] \in TagsIn(h) /\ (n > 1 => tk[n - 1] + TagLen <= tk[n])
  /\ \A n \in 1..Len(fs) : fs[n] = PieceAt(h, tk, n - k)

\* The tags taken, once a has been saved behind h
TakenWith(h, tk, a) == IF HasTag(a) THEN Append(tk, Len(h) + TagIndex(a) + 1) ELSE tk

\* What SaveChunk saves of the window and the chunk, and what it keeps
Whole(w, c) == IF TagIsCut(w, c) THEN BeforeTag(w \o c) ELSE w
Rest(w, c)  == IF TagIsCut(w, c) THEN Drop(w \o c, TagIndex(w \o c)) ELSE c

TypeInv == FileTypeOK /\ taken \in Seq(Nat)

\* The window begins where a chunk does if it is too short, and does not grow beyond measure.
WindowInv ==
  /\ WindowTooShort(window) => Len(Saved) = 0 \/ Len(Saved) \in ends
  /\ Len(window) = 0 => Len(Saved) = 0
  /\ Len(sent) = 0 \/ Len(sent) \in ends
  /\ Len(window) <= TagLen - 1 + MaxChunk

Excused(t) == Taken(t) \/ CutTwice(t) \/ Crowded(t)

\* The tags that begin in what was saved
TagsInv ==
  /\ \A t \in TagsIn(sent) : t <= Len(Saved) => Excused(t)
  /\ taken = <<>> => HasTag(window) \/ \A t \in TagsIn(sent) : t <= Len(Saved) => CutTwice(t)

ClosedInv ==
  /\ \A t \in TagsIn(sent) : Excused(t)
  /\ taken = <<>> => \A t \in TagsIn(sent) : CutTwice(t)
  /\ outcome = "ValueError" <=> expect_start_tag /\ taken = <<>>

IInv ==
  /\ TypeInv /\ SplitInto(Saved, files, taken, Len(NoFiles))
  /\ outcome = "open" => WindowInv /\ TagsInv
  /\ outcome # "open" => ClosedInv

----------------------------------------------------------------------------
\* Tags in sequences of bytes

LEMMA TagLenPositive == TagLen \in Nat \ {0}
BY TagAssumption, EmptySeq DEF TagLen

\* A piece of a sequence of bytes
LEMMA PieceOf ==
  ASSUME NEW s \in Seq(Bytes), NEW a \in 1..(Len(s) + 1), NEW b \in 0..Len(s)
  PROVE  /\ SubSeq(s, a, b) \in Seq(Bytes)
         /\ Len(SubSeq(s, a, b)) = IF a <= b THEN b - a + 1 ELSE 0
         /\ \A i \in 1..(b - a + 1) : SubSeq(s, a, b)[i] = s[a + i - 1]
<1>1. Len(s) \in Nat
  BY LenProperties
<1>2. \A i \in a..b : s[i] \in Bytes
  BY <1>1, ElementOfSeq
<1> QED BY <1>1, <1>2, SubSeqProperties

\* A tag is there where its bytes are.
LEMMA TagChars ==
  ASSUME NEW s \in Seq(Bytes), NEW i \in Int
  PROVE  i \in TagsIn(s) <=> /\ i >= 1 /\ i + TagLen - 1 <= Len(s)
                             /\ \A k \in 1..TagLen : s[i + k - 1] = Tag[k]
<1> DEFINE m == SubSeq(s, i, i + TagLen - 1)
<1>1. Len(s) \in Nat /\ TagLen \in Nat /\ TagLen >= 1
  BY LenProperties, TagLenPositive
<1>2. i \in TagsIn(s) <=> i >= 1 /\ i + TagLen - 1 <= Len(s) /\ m = Tag
  BY <1>1 DEF TagsIn
<1>3. SUFFICES ASSUME i >= 1, i + TagLen - 1 <= Len(s)
               PROVE  m = Tag <=> \A k \in 1..TagLen : s[i + k - 1] = Tag[k]
  BY <1>2
<1>4. i \in 1..(Len(s) + 1) /\ i + TagLen - 1 \in 0..Len(s)
  BY <1>1, <1>3
<1>5. /\ m \in Seq(Bytes)
      /\ Len(m) = IF i <= i + TagLen - 1 THEN (i + TagLen - 1) - i + 1 ELSE 0
      /\ \A k \in 1..((i + TagLen - 1) - i + 1) : m[k] = s[i + k - 1]
  BY <1>4, PieceOf
<1>6. Len(m) = TagLen /\ \A k \in 1..TagLen : m[k] = s[i + k - 1]
  BY <1>1, <1>5
<1>7. ASSUME \A k \in 1..TagLen : s[i + k - 1] = Tag[k]  PROVE m = Tag
  <2>1. m \in Seq(Bytes \cup Nat) /\ Tag \in Seq(Bytes \cup Nat)
    BY <1>5, TagAssumption, SeqMonotonic
  <2>2. Len(m) = Len(Tag) /\ \A k \in 1..Len(m) : m[k] = Tag[k]
    BY <1>6, <1>7 DEF TagLen
  <2> QED BY <2>1, <2>2, SeqEqual
<1> QED BY <1>6, <1>7

\* There are finitely many of them.
LEMMA TagsFinite ==
  ASSUME NEW s \in Seq(Bytes)
  PROVE  /\ TagsIn(s) \subseteq 1..Len(s) /\ TagsIn(s) \subseteq Int
         /\ IsFiniteSet(TagsIn(s)) /\ Cardinality(TagsIn(s)) \in Nat
         /\ (Cardinality(TagsIn(s)) = 0) <=> (TagsIn(s) = {})
<1>1. Len(s) \in Nat /\ TagLen \in Nat /\ TagLen >= 1
  BY LenProperties, TagLenPositive
<1>2. TagsIn(s) \subseteq 1..Len(s)
  BY <1>1 DEF TagsIn
<1>3. IsFiniteSet(1..Len(s))
  BY <1>1, FS_Interval
<1>4. IsFiniteSet(TagsIn(s))
  BY <1>2, <1>3, FS_Subset
<1> QED BY <1>1, <1>2, <1>4, FS_CardinalityType, FS_EmptySet

\* The tags of a concatenation: those of either part, and those across the boundary.
LEMMA TagsOfConcat ==
  ASSUME NEW s \in Seq(Bytes), NEW t \in Seq(Bytes), NEW i \in Int
  PROVE  /\ i + TagLen - 1 <= Len(s) => (i \in TagsIn(s \o t) <=> i \in TagsIn(s))
         /\ i > Len(s) => (i \in TagsIn(s \o t) <=> i - Len(s) \in TagsIn(t))
<1>1. Len(s) \in Nat /\ Len(t) \in Nat /\ TagLen \in Nat /\ TagLen >= 1
  BY LenProperties, TagLenPositive
<1>2. /\ s \o t \in Seq(Bytes) /\ Len(s \o t) = Len(s) + Len(t)
      /\ \A k \in 1..(Len(s) + Len(t)) : (s \o t)[k] = IF k <= Len(s) THEN s[k] ELSE t[k - Len(s)]
  BY ConcatProperties
<1>3. ASSUME i + TagLen - 1 <= Len(s)
      PROVE  i \in TagsIn(s \o t) <=> i \in TagsIn(s)
  <2>1. ASSUME i >= 1, NEW k \in 1..TagLen  PROVE (s \o t)[i + k - 1] = s[i + k - 1]
    <3>1. i + k - 1 \in 1..(Len(s) + Len(t)) /\ i + k - 1 <= Len(s)
      BY <1>1, <1>3, <2>1
    <3> QED BY <3>1, <1>2
  <2>2. i \in TagsIn(s \o t) <=> /\ i >= 1 /\ i + TagLen - 1 <= Len(s \o t)
                                 /\ \A k \in 1..TagLen : (s \o t)[i + k - 1] = Tag[k]
    BY <1>2, TagChars
  <2>3. i \in TagsIn(s) <=> /\ i >= 1 /\ i + TagLen - 1 <= Len(s)
                            /\ \A k \in 1..TagLen : s[i + k - 1] = Tag[k]
    BY TagChars
  <2>4. i + TagLen - 1 <= Len(s \o t)
    BY <1>1, <1>2, <1>3
  <2> QED BY <1>3, <2>1, <2>2, <2>3, <2>4
<1>4. ASSUME i > Len(s)
      PROVE  i \in TagsIn(s \o t) <=> i - Len(s) \in TagsIn(t)
  <2>1. ASSUME i + TagLen - 1 <= Len(s) + Len(t), NEW k \in 1..TagLen
        PROVE  (s \o t)[i + k - 1] = t[(i - Len(s)) + k - 1]
    <3>1. i + k - 1 \in 1..(Len(s) + Len(t)) /\ ~(i + k - 1 <= Len(s))
      BY <1>1, <1>4, <2>1
    <3>2. (i + k - 1) - Len(s) = (i - Len(s)) + k - 1
      BY <1>1
    <3> QED BY <3>1, <3>2, <1>2
  <2>2. i \in TagsIn(s \o t) <=> /\ i >= 1 /\ i + TagLen - 1 <= Len(s \o t)
                                 /\ \A k \in 1..TagLen : (s \o t)[i + k - 1] = Tag[k]
    BY <1>2, TagChars
  <2>3. i - Len(s) \in Int
    BY <1>1
  <2>4. i - Len(s) \in TagsIn(t) <=>
          /\ i - Len(s) >= 1 /\ (i - Len(s)) + TagLen - 1 <= Len(t)
          /\ \A k \in 1..TagLen : t[(i - Len(s)) + k - 1] = Tag[k]
    BY <2>3, TagChars
  <2>5. /\ i >= 1 /\ i - Len(s) >= 1
        /\ i + TagLen - 1 <= Len(s \o t) <=> (i - Len(s)) + TagLen - 1 <= Len(t)
        /\ i + TagLen - 1 <= Len(s \o t) <=> i + TagLen - 1 <= Len(s) + Len(t)
    BY <1>1, <1>2, <1>4
  <2> QED BY <2>1, <2>2, <2>4, <2>5
<1> QED BY <1>3, <1>4

\* A tag ends inside the sequence.
LEMMA TagEnds ==
  ASSUME NEW s \in Seq(Bytes), NEW i \in TagsIn(s)
  PROVE  i \in Nat /\ i >= 1 /\ i + TagLen - 1 <= Len(s)
<1>1. Len(s) \in Nat /\ TagLen \in Nat
  BY LenProperties, TagLenPositive
<1> QED BY <1>1 DEF TagsIn

\* Every set of numbers has a least one.
LEMMA LeastNat ==
  ASSUME NEW S \in SUBSET Nat, S # {}
  PROVE  \E m \in S : \A k \in S : m <= k
<1> DEFINE R == StrictSubsetOrdering(Nat)
           T == {0..k : k \in S}
<1>1. IsWellFoundedOn(R, FiniteSubsetsOf(Nat))
  BY FS_StrictSubsetOrderingWellFounded
<1>2. T \subseteq FiniteSubsetsOf(Nat)
  <2>1. \A k \in S : 0..k \in SUBSET Nat
    OBVIOUS
  <2>2. \A k \in S : IsFiniteSet(0..k)
    BY FS_Interval
  <2> QED BY <2>1, <2>2 DEF FiniteSubsetsOf
<1>3. T # {}
  OBVIOUS
<1>4. ASSUME NEW k \in S, NEW m \in S, k < m  PROVE <<0..k, 0..m>> \in R
  <2>1. 0..k \subseteq 0..m /\ 0..k # 0..m
    <3>1. m \in 0..m /\ m \notin 0..k
      BY <1>4
    <3>2. 0..k \subseteq 0..m
      BY <1>4
    <3> QED BY <3>1, <3>2
  <2>2. 0..k \in SUBSET Nat /\ 0..m \in SUBSET Nat
    OBVIOUS
  <2> QED BY <2>1, <2>2 DEF StrictSubsetOrdering
<1> HIDE DEF R
<1>5. \E x \in T : \A y \in T : ~(<<y, x>> \in R)
  <2> HIDE DEF T
  <2> QED BY <1>1, <1>2, <1>3, WFMin
<1>6. PICK m \in S : \A k \in S : ~(<<0..k, 0..m>> \in R)
  BY <1>5
<1>7. \A k \in S : ~(k < m)
  BY <1>4, <1>6
<1>8. \A k \in S : m <= k
  BY <1>7
<1> QED BY <1>8

\* find() finds a tag exactly if there is one, and if there is only one, that one.
LEMMA HasTagIff ==
  ASSUME NEW s \in Seq(Bytes)
  PROVE  HasTag(s) <=> TagsIn(s) # {}
<1>1. Len(s) \in Nat /\ TagLen \in Nat /\ TagLen >= 1
  BY LenProperties, TagLenPositive
<1>2. ASSUME NEW i \in 0..(Len(s) - TagLen), SubSeq(s, i + 1, i + TagLen) = Tag
      PROVE  i + 1 \in TagsIn(s)
  <2>1. (i + 1) + TagLen - 1 = i + TagLen /\ i + 1 \in 1..(Len(s) - TagLen + 1)
    BY <1>1
  <2> QED BY <1>2, <2>1 DEF TagsIn
<1>3. ASSUME NEW i \in TagsIn(s)
      PROVE  i - 1 \in 0..(Len(s) - TagLen) /\ SubSeq(s, (i - 1) + 1, (i - 1) + TagLen) = Tag
  <2>1. i \in 1..(Len(s) - TagLen + 1) /\ SubSeq(s, i, i + TagLen - 1) = Tag
    BY DEF TagsIn
  <2>2. i - 1 \in 0..(Len(s) - TagLen) /\ (i - 1) + 1 = i /\ (i - 1) + TagLen = i + TagLen - 1
    BY <1>1, <2>1
  <2> QED BY <2>1, <2>2
<1> QED BY <1>2, <1>3 DEF HasTag

\* find() finds the first tag.
LEMMA TagIndexIs ==
  ASSUME NEW s \in Seq(Bytes), HasTag(s)
  PROVE  /\ TagIndex(s) \in Nat /\ TagIndex(s) + TagLen <= Len(s)
         /\ TagIndex(s) + 1 \in TagsIn(s)
         /\ \A t \in TagsIn(s) : TagIndex(s) + 1 <= t
<1>1. Len(s) \in Nat /\ TagLen \in Nat /\ TagLen >= 1
  BY LenProperties, TagLenPositive
<1> DEFINE S == {i \in 0..(Len(s) - TagLen) : SubSeq(s, i + 1, i + TagLen) = Tag}
           Is(i) == /\ SubSeq(s, i + 1, i + TagLen) = Tag
                    /\ \A h \in 0..(i - 1) : SubSeq(s, h + 1, h + TagLen) # Tag
<1>2. S \in SUBSET Nat /\ S # {}
  <2>1. PICK i \in 0..(Len(s) - TagLen) : SubSeq(s, i + 1, i + TagLen) = Tag
    BY DEF HasTag
  <2>2. i \in S
    BY <2>1
  <2>3. 0..(Len(s) - TagLen) \subseteq Nat
    BY <1>1
  <2> QED BY <2>2, <2>3
<1>3. PICK m \in S : \A k \in S : m <= k
  <2> HIDE DEF S
  <2> QED BY <1>2, LeastNat
<1>4. m \in 0..(Len(s) - TagLen) /\ Is(m)
  <2>1. ASSUME NEW h \in 0..(m - 1), SubSeq(s, h + 1, h + TagLen) = Tag  PROVE FALSE
    <3>1. h \in 0..(Len(s) - TagLen) /\ ~(m <= h)
      BY <1>1
    <3>2. h \in S
      BY <2>1, <3>1
    <3> QED BY <1>3, <3>1, <3>2
  <2> QED BY <2>1
<1>5. TagIndex(s) = CHOOSE i \in 0..(Len(s) - TagLen) : Is(i)
  BY DEF TagIndex
<1> DEFINE n == TagIndex(s)
<1>6. n \in 0..(Len(s) - TagLen) /\ Is(n)
  <2> HIDE DEF Is
  <2> QED BY <1>4, <1>5
<1> HIDE DEF n, S
<1>7. n \in Nat /\ n + TagLen <= Len(s)
  BY <1>1, <1>6
<1>8. n + 1 \in TagsIn(s)
  <2>1. (n + 1) + TagLen - 1 = n + TagLen /\ n + 1 \in 1..(Len(s) - TagLen + 1)
    BY <1>1, <1>6
  <2> QED BY <1>6, <2>1 DEF TagsIn
<1>9. ASSUME NEW t \in TagsIn(s)  PROVE n + 1 <= t
  <2>1. t \in 1..(Len(s) - TagLen + 1) /\ SubSeq(s, t, t + TagLen - 1) = Tag
    BY DEF TagsIn
  <2>2. t - 1 \in Nat /\ (t - 1) + 1 = t /\ (t - 1) + TagLen = t + TagLen - 1
    BY <1>1, <2>1
  <2>3. ~(t - 1 \in 0..(n - 1))
    BY <1>6, <2>1, <2>2
  <2> QED BY <1>7, <2>1, <2>2, <2>3
<1> QED BY <1>7, <1>8, <1>9 DEF n

----------------------------------------------------------------------------
\* Pieces of a concatenation

LEMMA PieceOfLeft ==
  ASSUME NEW s \in Seq(Bytes), NEW t \in Seq(Bytes),
         NEW a \in 1..(Len(s) + 1), NEW b \in 0..Len(s)
  PROVE  SubSeq(s \o t, a, b) = SubSeq(s, a, b)
<1> DEFINE left == SubSeq(s \o t, a, b)
           right == SubSeq(s, a, b)
<1>1. Len(s) \in Nat /\ Len(t) \in Nat
  BY LenProperties
<1>2. /\ s \o t \in Seq(Bytes) /\ Len(s \o t) = Len(s) + Len(t)
      /\ \A k \in 1..(Len(s) + Len(t)) : (s \o t)[k] = IF k <= Len(s) THEN s[k] ELSE t[k - Len(s)]
  BY ConcatProperties
<1>3. a \in 1..(Len(s \o t) + 1) /\ b \in 0..Len(s \o t)
  BY <1>1, <1>2
<1>4. /\ left \in Seq(Bytes) /\ Len(left) = IF a <= b THEN b - a + 1 ELSE 0
      /\ \A i \in 1..(b - a + 1) : left[i] = (s \o t)[a + i - 1]
  BY <1>2, <1>3, PieceOf
<1>5. /\ right \in Seq(Bytes) /\ Len(right) = IF a <= b THEN b - a + 1 ELSE 0
      /\ \A i \in 1..(b - a + 1) : right[i] = s[a + i - 1]
  BY PieceOf
<1>6. ASSUME NEW i \in 1..Len(left)  PROVE left[i] = right[i]
  <2>1. i \in 1..(b - a + 1) /\ a + i - 1 \in 1..(Len(s) + Len(t)) /\ a + i - 1 <= Len(s)
    BY <1>1, <1>4
  <2> QED BY <2>1, <1>2, <1>4, <1>5
<1> HIDE DEF left, right
<1>7. Len(left) = Len(right)
  BY <1>4, <1>5
<1>8. left = right
  BY <1>4, <1>5, <1>6, <1>7, SeqEqual
<1> QED BY <1>8 DEF left, right

LEMMA PieceAcross ==
  ASSUME NEW s \in Seq(Bytes), NEW t \in Seq(Bytes),
         NEW a \in 1..(Len(s) + 1), NEW c \in 0..Len(t)
  PROVE  SubSeq(s \o t, a, Len(s) + c) = SubSeq(s, a, Len(s)) \o SubSeq(t, 1, c)
<1> DEFINE left == SubSeq(s \o t, a, Len(s) + c)
           front == SubSeq(s, a, Len(s))
           back == SubSeq(t, 1, c)
<1>1. Len(s) \in Nat /\ Len(t) \in Nat
  BY LenProperties
<1>2. /\ s \o t \in Seq(Bytes) /\ Len(s \o t) = Len(s) + Len(t)
      /\ \A k \in 1..(Len(s) + Len(t)) : (s \o t)[k] = IF k <= Len(s) THEN s[k] ELSE t[k - Len(s)]
  BY ConcatProperties
<1>3. /\ a \in 1..(Len(s \o t) + 1) /\ Len(s) + c \in 0..Len(s \o t)
      /\ Len(s) \in 0..Len(s) /\ 1 \in 1..(Len(t) + 1)
  BY <1>1, <1>2
<1>4. /\ left \in Seq(Bytes)
      /\ Len(left) = IF a <= Len(s) + c THEN (Len(s) + c) - a + 1 ELSE 0
      /\ \A i \in 1..((Len(s) + c) - a + 1) : left[i] = (s \o t)[a + i - 1]
  BY <1>2, <1>3, PieceOf
<1>5. /\ front \in Seq(Bytes) /\ Len(front) = IF a <= Len(s) THEN Len(s) - a + 1 ELSE 0
      /\ \A i \in 1..(Len(s) - a + 1) : front[i] = s[a + i - 1]
  BY <1>3, PieceOf
<1>6. /\ back \in Seq(Bytes) /\ Len(back) = IF 1 <= c THEN c - 1 + 1 ELSE 0
      /\ \A i \in 1..(c - 1 + 1) : back[i] = t[1 + i - 1]
  BY <1>3, PieceOf
<1>7. /\ Len(left) = Len(s) + c - a + 1 /\ Len(front) = Len(s) - a + 1 /\ Len(back) = c
  BY <1>1, <1>4, <1>5, <1>6
<1> HIDE DEF left, front, back
<1>8. /\ front \o back \in Seq(Bytes) /\ Len(front \o back) = Len(front) + Len(back)
      /\ \A k \in 1..(Len(front) + Len(back)) :
           (front \o back)[k] = IF k <= Len(front) THEN front[k] ELSE back[k - Len(front)]
  BY <1>5, <1>6, ConcatProperties
<1>9. ASSUME NEW i \in 1..Len(left)  PROVE left[i] = (front \o back)[i]
  <2>1. /\ i \in 1..((Len(s) + c) - a + 1) /\ a + i - 1 \in 1..(Len(s) + Len(t))
        /\ i \in 1..(Len(front) + Len(back))
    BY <1>1, <1>7
  <2>2. CASE i <= Len(front)
    <3>1. a + i - 1 <= Len(s) /\ i \in 1..(Len(s) - a + 1)
      BY <1>1, <1>7, <2>2
    <3> QED BY <1>2, <1>4, <1>5, <1>8, <2>1, <2>2, <3>1
  <2>3. CASE ~(i <= Len(front))
    <3>1. /\ ~(a + i - 1 <= Len(s)) /\ i - Len(front) \in 1..(c - 1 + 1)
          /\ (a + i - 1) - Len(s) = 1 + (i - Len(front)) - 1
      BY <1>1, <1>7, <2>1, <2>3
    <3> QED BY <1>2, <1>4, <1>6, <1>8, <2>1, <2>3, <3>1
  <2> QED BY <2>2, <2>3
<1>10. Len(left) = Len(front \o back)
  BY <1>1, <1>7, <1>8
<1>11. left = front \o back
  BY <1>4, <1>8, <1>9, <1>10, SeqEqual
<1> QED BY <1>11 DEF left, front, back

LEMMA PieceOfRight ==
  ASSUME NEW s \in Seq(Bytes), NEW t \in Seq(Bytes), NEW a \in 1..(Len(t) + 1)
  PROVE  SubSeq(s \o t, Len(s) + a, Len(s) + Len(t)) = SubSeq(t, a, Len(t))
<1> DEFINE left == SubSeq(s \o t, Len(s) + a, Len(s) + Len(t))
           right == SubSeq(t, a, Len(t))
<1>1. Len(s) \in Nat /\ Len(t) \in Nat
  BY LenProperties
<1>2. /\ s \o t \in Seq(Bytes) /\ Len(s \o t) = Len(s) + Len(t)
      /\ \A k \in 1..(Len(s) + Len(t)) : (s \o t)[k] = IF k <= Len(s) THEN s[k] ELSE t[k - Len(s)]
  BY ConcatProperties
<1>3. /\ Len(s) + a \in 1..(Len(s \o t) + 1) /\ Len(s) + Len(t) \in 0..Len(s \o t)
      /\ Len(t) \in 0..Len(t)
  BY <1>1, <1>2
<1>4. /\ left \in Seq(Bytes)
      /\ Len(left) = IF Len(s) + a <= Len(s) + Len(t)
                     THEN (Len(s) + Len(t)) - (Len(s) + a) + 1 ELSE 0
      /\ \A i \in 1..((Len(s) + Len(t)) - (Len(s) + a) + 1) :
           left[i] = (s \o t)[(Len(s) + a) + i - 1]
  BY <1>2, <1>3, PieceOf
<1>5. /\ right \in Seq(Bytes) /\ Len(right) = IF a <= Len(t) THEN Len(t) - a + 1 ELSE 0
      /\ \A i \in 1..(Len(t) - a + 1) : right[i] = t[a + i - 1]
  BY <1>3, PieceOf
<1>6. Len(left) = Len(right) /\ Len(left) = Len(t) - a + 1
  BY <1>1, <1>4, <1>5
<1> HIDE DEF left, right
<1>7. ASSUME NEW i \in 1..Len(left)  PROVE left[i] = right[i]
  <2>1. /\ i \in 1..((Len(s) + Len(t)) - (Len(s) + a) + 1) /\ i \in 1..(Len(t) - a + 1)
        /\ (Len(s) + a) + i - 1 \in 1..(Len(s) + Len(t)) /\ ~((Len(s) + a) + i - 1 <= Len(s))
        /\ ((Len(s) + a) + i - 1) - Len(s) = a + i - 1
    BY <1>1, <1>6
  <2> QED BY <2>1, <1>2, <1>4, <1>5
<1>8. left = right
  BY <1>4, <1>5, <1>6, <1>7, SeqEqual
<1> QED BY <1>8 DEF left, right

\* The parts of a piece around its first tag
LEMMA PartsOfTagged ==
  ASSUME NEW t \in Seq(Bytes), HasTag(t)
  PROVE  /\ BeforeTag(t) \in Seq(Bytes) /\ AfterTag(t) \in Seq(Bytes)
         /\ Drop(t, TagIndex(t)) \in Seq(Bytes) /\ BeforeTag(t) \o Drop(t, TagIndex(t)) = t
<1> DEFINE n == TagIndex(t)
<1>1. Len(t) \in Nat /\ TagLen \in Nat /\ TagLen >= 1 /\ n \in Nat /\ n + TagLen <= Len(t)
  BY LenProperties, TagLenPositive, TagIndexIs
<1> HIDE DEF n
<1>2. /\ 1 \in 1..(Len(t) + 1) /\ n \in 0..Len(t)
      /\ n + TagLen + 1 \in 1..(Len(t) + 1) /\ Len(t) \in 0..Len(t)
      /\ n + 1 \in 1..(Len(t) + 1)
  BY <1>1
<1>3. /\ SubSeq(t, 1, n) \in Seq(Bytes) /\ SubSeq(t, n + TagLen + 1, Len(t)) \in Seq(Bytes)
      /\ SubSeq(t, n + 1, Len(t)) \in Seq(Bytes)
  BY <1>2, PieceOf
<1>4. SubSeq(t, 1, n) \o SubSeq(t, n + 1, Len(t)) = t
  <2>1. n \in (1 - 1)..Len(t) /\ Len(t) \in n..Len(t)
    BY <1>1
  <2>2. SubSeq(t, 1, n) \o SubSeq(t, n + 1, Len(t)) = SubSeq(t, 1, Len(t))
    BY <1>2, <2>1, ConcatAdjacentSubSeq
  <2> QED BY <2>2, SubSeqFull
<1> QED BY <1>3, <1>4 DEF BeforeTag, AfterTag, Drop, n

\* Writing to the last file
LEMMA WrittenIs ==
  ASSUME NEW fs \in Seq(Seq(Bytes)), fs # <<>>, NEW data \in Seq(Bytes)
  PROVE  /\ Written(fs, data) \in Seq(Seq(Bytes)) /\ Len(Written(fs, data)) = Len(fs)
         /\ Len(fs) \in Nat \ {0}
         /\ \A n \in 1..Len(fs) :
              Written(fs, data)[n] = IF n = Len(fs) THEN fs[n] \o data ELSE fs[n]
<1>1. Len(fs) \in Nat \ {0}
  BY EmptySeq
<1>2. Len(fs) \in 1..Len(fs)
  BY <1>1
<1>3. fs[Len(fs)] \in Seq(Bytes)
  BY <1>2, ElementOfSeq
<1> DEFINE e == fs[Len(fs)] \o data
           w == [fs EXCEPT ![Len(fs)] = e]
<1>4. e \in Seq(Bytes)
  BY <1>3, ConcatProperties
<1>5. Written(fs, data) = w
  BY DEF Written
<1> HIDE DEF e
<1>6. /\ w \in Seq(Seq(Bytes)) /\ Len(w) = Len(fs)
      /\ \A n \in 1..Len(fs) : w[n] = IF n = Len(fs) THEN e ELSE fs[n]
  BY <1>2, <1>4, ExceptSeq
<1> HIDE DEF w
<1> QED BY <1>1, <1>5, <1>6 DEF e

\* Completing the last file and beginning another one
LEMMA AppendedIs ==
  ASSUME NEW fs \in Seq(Seq(Bytes)), fs # <<>>, NEW a \in Seq(Bytes), NEW b \in Seq(Bytes)
  PROVE  /\ Append(Written(fs, a), b) \in Seq(Seq(Bytes))
         /\ Len(Append(Written(fs, a), b)) = Len(fs) + 1
         /\ \A n \in 1..Len(fs) :
              Append(Written(fs, a), b)[n] = IF n = Len(fs) THEN fs[n] \o a ELSE fs[n]
         /\ Append(Written(fs, a), b)[Len(fs) + 1] = b
<1> DEFINE w == Written(fs, a)
<1>1. /\ w \in Seq(Seq(Bytes)) /\ Len(w) = Len(fs)
      /\ \A n \in 1..Len(fs) : w[n] = IF n = Len(fs) THEN fs[n] \o a ELSE fs[n]
  BY WrittenIs
<1> HIDE DEF w
<1>2. /\ Append(w, b) \in Seq(Seq(Bytes)) /\ Len(Append(w, b)) = Len(w) + 1
      /\ \A n \in 1..Len(w) : Append(w, b)[n] = w[n]
      /\ Append(w, b)[Len(w) + 1] = b
  BY <1>1, AppendProperties
<1>3. /\ Append(w, b) \in Seq(Seq(Bytes)) /\ Len(Append(w, b)) = Len(fs) + 1
      /\ \A n \in 1..Len(fs) : Append(w, b)[n] = IF n = Len(fs) THEN fs[n] \o a ELSE fs[n]
      /\ Append(w, b)[Len(fs) + 1] = b
  BY <1>1, <1>2
<1> QED BY <1>3 DEF w

LEMMA WithIntegralType ==
  ASSUME NEW fs \in Seq(Seq(Bytes)), NEW t \in Seq(Bytes)
  PROVE  /\ WithIntegral(fs, t) \in Seq(Seq(Bytes))
         /\ Len(WithIntegral(fs, t)) = IF HasTag(t) THEN Len(fs) + 1 ELSE Len(fs)
<1>1. ASSUME NEW data \in Seq(Bytes)
      PROVE  Written(fs, data) \in Seq(Seq(Bytes)) /\ Len(Written(fs, data)) = Len(fs)
  <2>1. CASE fs = <<>>
    BY <2>1 DEF Written
  <2>2. CASE fs # <<>>
    BY <2>2, WrittenIs
  <2> QED BY <2>1, <2>2
<1>2. CASE ~HasTag(t)
  BY <1>1, <1>2 DEF WithIntegral
<1>3. CASE HasTag(t)
  <2> DEFINE w == Written(fs, BeforeTag(t))
  <2>1. BeforeTag(t) \in Seq(Bytes) /\ AfterTag(t) \in Seq(Bytes)
    BY <1>3, PartsOfTagged
  <2>2. w \in Seq(Seq(Bytes)) /\ Len(w) = Len(fs)
    BY <1>1, <2>1
  <2> HIDE DEF w
  <2>3. Append(w, AfterTag(t)) \in Seq(Seq(Bytes)) /\ Len(Append(w, AfterTag(t))) = Len(w) + 1
    BY <2>1, <2>2, AppendProperties
  <2>4. WithIntegral(fs, t) = Append(w, AfterTag(t))
    BY <1>3 DEF WithIntegral, w
  <2> QED BY <1>3, <2>2, <2>3, <2>4
<1> QED BY <1>2, <1>3

\* A piece may begin behind a tag, and end before one.
LEMMA AroundTag ==
  ASSUME NEW n \in Nat, NEW t \in Nat, t >= 1, t + TagLen - 1 <= n
  PROVE  t + TagLen \in 1..(n + 1) /\ t - 1 \in 0..n
BY TagLenPositive

\* The tags of the front stay where they are.
LEMMA TagsStay ==
  ASSUME NEW s \in Seq(Bytes), NEW t \in Seq(Bytes)
  PROVE  /\ TagsIn(s) \subseteq TagsIn(s \o t)
         /\ \A i \in TagsIn(t) : Len(s) + i \in TagsIn(s \o t)
<1>1. \A i \in TagsIn(s) : i \in Int /\ i + TagLen - 1 <= Len(s)
  BY TagEnds
<1>2. TagsIn(s) \subseteq TagsIn(s \o t)
  BY <1>1, TagsOfConcat
<1>3. ASSUME NEW i \in TagsIn(t)  PROVE Len(s) + i \in TagsIn(s \o t)
  <2>1. i \in Nat /\ i >= 1 /\ Len(s) \in Nat
    BY TagEnds, LenProperties
  <2>2. Len(s) + i \in Int /\ Len(s) + i > Len(s) /\ (Len(s) + i) - Len(s) = i
    BY <2>1
  <2> QED BY <2>2, TagsOfConcat
<1> QED BY <1>2, <1>3

\* Saving bytes without a tag makes the last piece longer.
LEMMA SplitGrowsByData ==
  ASSUME NEW h \in Seq(Bytes), NEW a \in Seq(Bytes), NEW fs \in Seq(Seq(Bytes)),
         NEW tk \in Seq(Nat), NEW k \in {0, 1}, Len(fs) = k + Len(tk),
         SplitInto(h, fs, tk, k)
  PROVE  SplitInto(h \o a, Written(fs, a), tk, k)
<1> DEFINE u == h \o a
           gs == Written(fs, a)
<1>1. /\ Len(h) \in Nat /\ Len(a) \in Nat /\ Len(tk) \in Nat /\ Len(fs) \in Nat
      /\ TagLen \in Nat /\ TagLen >= 1
      /\ u \in Seq(Bytes) /\ Len(u) = Len(h) + Len(a)
  BY LenProperties, TagLenPositive, ConcatProperties
<1>2. ASSUME NEW n \in 1..Len(tk)
      PROVE  tk[n] \in TagsIn(u) /\ (n > 1 => tk[n - 1] + TagLen <= tk[n])
  BY TagsStay DEF SplitInto
<1>3. \A n \in 1..Len(tk) : tk[n] \in Nat /\ tk[n] >= 1 /\ tk[n] + TagLen - 1 <= Len(h)
  BY TagEnds DEF SplitInto
<1>4. Len(gs) = Len(fs)
  <2>1. CASE fs = <<>>
    BY <2>1 DEF Written
  <2>2. CASE fs # <<>>
    BY <2>2, WrittenIs
  <2> QED BY <2>1, <2>2
<1>5. ASSUME NEW n \in 1..Len(fs)  PROVE gs[n] = PieceAt(u, tk, n - k)
  <2> DEFINE m == n - k
             x == IF m = 0 THEN 1 ELSE tk[m] + TagLen
  <2>1. m \in Nat /\ m <= Len(tk) /\ (m = Len(tk) <=> n = Len(fs))
    BY <1>1
  <2>2. fs # <<>>
    BY <1>1, EmptySeq
  <2>3. gs[n] = IF n = Len(fs) THEN fs[n] \o a ELSE fs[n]
    BY <2>2, WrittenIs
  <2>4. fs[n] = PieceAt(h, tk, m)
    BY DEF SplitInto
  <2>5. x \in 1..(Len(h) + 1)
    <3>1. CASE m = 0
      BY <1>1, <3>1
    <3>2. CASE m # 0
      <4>1. m \in 1..Len(tk)
        BY <2>1, <3>2
      <4>2. tk[m] \in Nat /\ tk[m] >= 1 /\ tk[m] + TagLen - 1 <= Len(h)
        BY <1>3, <4>1
      <4>3. tk[m] + TagLen \in 1..(Len(h) + 1)
        BY <1>1, <4>2, AroundTag
      <4> QED BY <3>2, <4>3
    <3> QED BY <3>1, <3>2
  <2> HIDE DEF gs
  <2>6. CASE n = Len(fs)
    <3>1. PieceAt(h, tk, m) = SubSeq(h, x, Len(h)) /\ PieceAt(u, tk, m) = SubSeq(u, x, Len(u))
      BY <2>1, <2>6 DEF PieceAt
    <3> HIDE DEF x, m
    <3>2. SubSeq(h \o a, x, Len(h) + Len(a)) = SubSeq(h, x, Len(h)) \o SubSeq(a, 1, Len(a))
      <4>1. Len(a) \in 0..Len(a)
        BY <1>1
      <4> QED BY <2>5, <4>1, PieceAcross
    <3>3. SubSeq(a, 1, Len(a)) = a
      BY SubSeqFull
    <3>4. PieceAt(u, tk, m) = PieceAt(h, tk, m) \o a
      BY <1>1, <3>1, <3>2, <3>3
    <3>5. gs[n] = PieceAt(u, tk, m)
      BY <2>3, <2>4, <2>6, <3>4
    <3> QED BY <3>5 DEF m
  <2>7. CASE n # Len(fs)
    <3>1. m + 1 \in 1..Len(tk) /\ m # Len(tk)
      BY <1>1, <2>1, <2>7
    <3>2. tk[m + 1] \in Nat /\ tk[m + 1] >= 1 /\ tk[m + 1] + TagLen - 1 <= Len(h)
      BY <1>3, <3>1
    <3> DEFINE y == tk[m + 1] - 1
    <3>3. y \in 0..Len(h)
      BY <1>1, <3>2, AroundTag
    <3>4. PieceAt(h, tk, m) = SubSeq(h, x, y) /\ PieceAt(u, tk, m) = SubSeq(u, x, y)
      BY <3>1 DEF PieceAt
    <3> HIDE DEF x, y, m
    <3>5. SubSeq(h \o a, x, y) = SubSeq(h, x, y)
      BY <2>5, <3>3, PieceOfLeft
    <3>6. gs[n] = PieceAt(u, tk, m)
      BY <2>3, <2>4, <2>7, <3>4, <3>5
    <3> QED BY <3>6 DEF m
  <2> QED BY <2>6, <2>7
<1> HIDE DEF u, gs
<1>6. SplitInto(u, gs, tk, k)
  BY <1>2, <1>4, <1>5 DEF SplitInto
<1> QED BY <1>6 DEF u, gs

\* Saving a piece with a tag in it completes the last piece and begins another one.
LEMMA SplitGrowsByTag ==
  ASSUME NEW h \in Seq(Bytes), NEW a \in Seq(Bytes), NEW fs \in Seq(Seq(Bytes)),
         NEW tk \in Seq(Nat), NEW k \in {0, 1}, Len(fs) = k + Len(tk),
         SplitInto(h, fs, tk, k), HasTag(a)
  PROVE  SplitInto(h \o a, Append(Written(fs, BeforeTag(a)), AfterTag(a)),
                   Append(tk, Len(h) + TagIndex(a) + 1), k)
<1> DEFINE u == h \o a
           i == TagIndex(a)
           p == Len(h) + i + 1
           L == Len(tk)
           tl == Append(tk, p)
           ws == Written(fs, BeforeTag(a))
           gs == Append(ws, AfterTag(a))
<1>1. /\ Len(h) \in Nat /\ Len(a) \in Nat /\ L \in Nat /\ Len(fs) \in Nat
      /\ TagLen \in Nat /\ TagLen >= 1
      /\ u \in Seq(Bytes) /\ Len(u) = Len(h) + Len(a)
  BY LenProperties, TagLenPositive, ConcatProperties
<1>2. i \in Nat /\ i + TagLen <= Len(a) /\ i + 1 \in TagsIn(a)
  BY TagIndexIs
<1>3. p \in Nat /\ p = Len(h) + (i + 1)
  BY <1>1, <1>2
<1>4. p \in TagsIn(u)
  BY <1>2, <1>3, TagsStay
<1>5. BeforeTag(a) \in Seq(Bytes) /\ AfterTag(a) \in Seq(Bytes)
  BY PartsOfTagged
<1>6. \A n \in 1..L : tk[n] \in Nat /\ tk[n] >= 1 /\ tk[n] + TagLen - 1 <= Len(h)
  BY TagEnds DEF SplitInto
<1> HIDE DEF p
<1>7. /\ Len(tl) = L + 1 /\ tl[L + 1] = p /\ tl \in Seq(Nat)
      /\ \A n \in 1..L : tl[n] = tk[n]
  BY <1>3, AppendProperties
<1>8. /\ Len(ws) = Len(fs) /\ ws \in Seq(Seq(Bytes))
      /\ \A n \in 1..Len(fs) : ws[n] = IF n = Len(fs) THEN fs[n] \o BeforeTag(a) ELSE fs[n]
  <2>1. CASE fs = <<>>
    <3>1. ws = fs /\ Len(fs) = 0
      BY <2>1, EmptySeq DEF Written
    <3> QED BY <3>1, SMTT(30)
  <2>2. CASE fs # <<>>
    BY <1>5, <2>2, WrittenIs
  <2> QED BY <2>1, <2>2
<1> HIDE DEF ws
<1>9. /\ Len(gs) = Len(fs) + 1 /\ gs[Len(fs) + 1] = AfterTag(a)
      /\ \A n \in 1..Len(fs) : gs[n] = IF n = Len(fs) THEN fs[n] \o BeforeTag(a) ELSE fs[n]
  <2>1. /\ Len(gs) = Len(ws) + 1 /\ gs[Len(ws) + 1] = AfterTag(a)
        /\ \A n \in 1..Len(ws) : gs[n] = ws[n]
    BY <1>5, <1>8, AppendProperties
  <2> QED BY <1>8, <2>1
<1> HIDE DEF gs, tl
<1>10. ASSUME NEW n \in 1..(L + 1)
       PROVE  tl[n] \in TagsIn(u) /\ (n > 1 => tl[n - 1] + TagLen <= tl[n])
  <2>1. CASE n = L + 1
    <3>1. tl[n] = p
      BY <1>7, <2>1
    <3>2. ASSUME n > 1  PROVE tl[n - 1] + TagLen <= p
      <4>1. n - 1 \in 1..L
        BY <1>1, <2>1, <3>2
      <4>2. tl[n - 1] \in Nat /\ tl[n - 1] + TagLen - 1 <= Len(h)
        BY <1>6, <1>7, <4>1
      <4> DEFINE t == tl[n - 1]
      <4>3. t \in Nat /\ t + TagLen - 1 <= Len(h)
        BY <4>2
      <4> HIDE DEF t
      <4>4. t + TagLen <= p
        BY <1>1, <1>2, <1>3, <4>3, SMTT(30)
      <4> QED BY <4>4 DEF t
    <3> QED BY <1>4, <3>1, <3>2
  <2>2. CASE n # L + 1
    <3>1. n \in 1..L
      BY <1>1, <2>2
    <3>2. tl[n] = tk[n] /\ (n > 1 => tl[n - 1] = tk[n - 1])
      <4>1. n > 1 => n - 1 \in 1..L
        BY <1>1, <3>1
      <4> QED BY <1>7, <3>1, <4>1
    <3>3. tk[n] \in TagsIn(h) /\ (n > 1 => tk[n - 1] + TagLen <= tk[n])
      BY <3>1 DEF SplitInto
    <3> QED BY <3>2, <3>3, TagsStay
  <2> QED BY <2>1, <2>2
<1>11. ASSUME NEW n \in 1..(Len(fs) + 1)  PROVE gs[n] = PieceAt(u, tl, n - k)
  <2> DEFINE m == n - k
             x == IF m = 0 THEN 1 ELSE tk[m] + TagLen
  <2>1. m \in Nat /\ m <= L + 1 /\ (m = L <=> n = Len(fs)) /\ (m = L + 1 <=> n = Len(fs) + 1)
    BY <1>1
  <2>2. ASSUME m <= L  PROVE x \in 1..(Len(h) + 1) /\ (m # 0 => tl[m] = tk[m])
    <3>1. CASE m = 0
      BY <1>1, <3>1
    <3>2. CASE m # 0
      <4>1. m \in 1..L
        BY <2>1, <2>2, <3>2
      <4>2. tk[m] \in Nat /\ tk[m] >= 1 /\ tk[m] + TagLen - 1 <= Len(h) /\ tl[m] = tk[m]
        BY <1>6, <1>7, <4>1
      <4>3. x = tk[m] + TagLen
        BY <3>2
      <4>4. tk[m] + TagLen \in 1..(Len(h) + 1)
        BY <1>1, <4>2, AroundTag
      <4> QED BY <4>2, <4>3, <4>4
    <3> QED BY <3>1, <3>2
  <2>3. CASE m < L
    <3>1. n \in 1..Len(fs) /\ n # Len(fs) /\ m + 1 \in 1..L /\ m # L + 1 /\ m # L /\ m <= L
      <4>1. /\ n = m + k /\ Len(fs) = k + L /\ n \in 1..(Len(fs) + 1)
            /\ L \in Nat /\ k \in {0, 1}
        BY <1>1
      <4> HIDE DEF m, L
      <4> QED BY <2>1, <2>3, <4>1
    <3>2. tk[m + 1] \in Nat /\ tk[m + 1] >= 1 /\ tk[m + 1] + TagLen - 1 <= Len(h)
          /\ tl[m + 1] = tk[m + 1]
      BY <1>6, <1>7, <3>1
    <3> DEFINE y == tk[m + 1] - 1
    <3>3. y \in 0..Len(h)
      BY <1>1, <3>2, AroundTag
    <3>4. PieceAt(h, tk, m) = SubSeq(h, x, y)
      BY <3>1 DEF PieceAt
    <3>5. PieceAt(u, tl, m) = SubSeq(u, x, y)
      BY <1>7, <2>2, <3>1, <3>2 DEF PieceAt
    <3>6. fs[n] = PieceAt(h, tk, m)
      BY <3>1 DEF SplitInto
    <3>7. x \in 1..(Len(h) + 1)
      BY <2>2, <3>1
    <3> HIDE DEF x, y, m
    <3>8. SubSeq(h \o a, x, y) = SubSeq(h, x, y)
      BY <3>3, <3>7, PieceOfLeft
    <3>9. gs[n] = PieceAt(u, tl, m)
      BY <1>9, <3>1, <3>4, <3>5, <3>6, <3>8
    <3> QED BY <3>9 DEF m
  <2>4. CASE m = L
    <3>1. n \in 1..Len(fs) /\ n = Len(fs) /\ m # L + 1 /\ m + 1 = L + 1 /\ m <= L
      <4>1. /\ n = m + k /\ Len(fs) = k + L /\ n \in 1..(Len(fs) + 1)
            /\ L \in Nat /\ k \in {0, 1}
        BY <1>1
      <4> HIDE DEF m, L
      <4> QED BY <2>1, <2>4, <4>1
    <3>2. tl[m + 1] - 1 = Len(h) + i
      <4>1. tl[m + 1] = p
        BY <1>7, <3>1
      <4>2. p - 1 = Len(h) + i
        BY <1>1, <1>2, <1>3, SMTT(30)
      <4> QED BY <4>1, <4>2
    <3>3. PieceAt(h, tk, m) = SubSeq(h, x, Len(h))
      BY <2>4 DEF PieceAt
    <3>4. PieceAt(u, tl, m) = SubSeq(u, x, Len(h) + i)
      BY <1>7, <2>2, <3>1, <3>2 DEF PieceAt
    <3>5. fs[n] = PieceAt(h, tk, m)
      BY <3>1 DEF SplitInto
    <3>6. x \in 1..(Len(h) + 1) /\ i \in 0..Len(a)
      BY <1>1, <1>2, <2>2, <3>1
    <3>7. gs[n] = fs[n] \o BeforeTag(a)
      BY <1>9, <3>1
    <3>8. BeforeTag(a) = SubSeq(a, 1, i)
      BY DEF BeforeTag
    <3> HIDE DEF x, m, i
    <3>9. SubSeq(h \o a, x, Len(h) + i) = SubSeq(h, x, Len(h)) \o SubSeq(a, 1, i)
      BY <3>6, PieceAcross
    <3>10. gs[n] = PieceAt(u, tl, m)
      BY <3>3, <3>4, <3>5, <3>7, <3>8, <3>9
    <3> QED BY <3>10 DEF m
  <2>5. CASE m = L + 1
    <3>1. n = Len(fs) + 1 /\ m # 0 /\ m = Len(tl)
      BY <1>1, <1>7, <2>1, <2>5
    <3>2. tl[m] + TagLen = Len(h) + (i + TagLen + 1) /\ i + TagLen + 1 \in 1..(Len(a) + 1)
      <4>1. tl[m] = p
        BY <1>7, <2>5
      <4>2. TagLen \in Nat /\ i \in Nat /\ Len(h) \in Nat /\ Len(a) \in Nat /\ i + TagLen <= Len(a)
        BY <1>1, <1>2
      <4> HIDE DEF i
      <4>3. p + TagLen = Len(h) + (i + TagLen + 1) /\ i + TagLen + 1 \in 1..(Len(a) + 1)
        BY <1>3, <4>2
      <4> QED BY <4>1, <4>3
    <3>3. PieceAt(u, tl, m) = SubSeq(u, tl[m] + TagLen, Len(u))
      BY <3>1 DEF PieceAt
    <3>4. gs[n] = AfterTag(a)
      BY <1>9, <3>1
    <3>5. AfterTag(a) = SubSeq(a, i + TagLen + 1, Len(a))
      BY DEF AfterTag
    <3> HIDE DEF m, i
    <3>6. SubSeq(h \o a, Len(h) + (i + TagLen + 1), Len(h) + Len(a))
            = SubSeq(a, i + TagLen + 1, Len(a))
      BY <3>2, PieceOfRight
    <3>7. gs[n] = PieceAt(u, tl, m)
      BY <1>1, <3>2, <3>3, <3>4, <3>5, <3>6
    <3> QED BY <3>7 DEF m
  <2>6. m < L \/ m = L \/ m = L + 1
    BY <1>1, <2>1
  <2> QED BY <2>3, <2>4, <2>5, <2>6
<1>12. SplitInto(u, gs, tl, k)
  <2> HIDE DEF u
  <2> QED BY <1>7, <1>9, <1>10, <1>11 DEF SplitInto
<1> QED BY <1>12 DEF u, gs, ws, tl, p

LEMMA SplitGrows ==
  ASSUME NEW h \in Seq(Bytes), NEW a \in Seq(Bytes), NEW fs \in Seq(Seq(Bytes)),
         NEW tk \in Seq(Nat), NEW k \in {0, 1}, Len(fs) = k + Len(tk),
         SplitInto(h, fs, tk, k)
  PROVE  SplitInto(h \o a, WithIntegral(fs, a), TakenWith(h, tk, a), k)
<1>1. CASE HasTag(a)
  BY <1>1, SplitGrowsByTag DEF WithIntegral, TakenWith
<1>2. CASE ~HasTag(a)
  BY <1>2, SplitGrowsByData DEF WithIntegral, TakenWith
<1> QED BY <1>1, <1>2

----------------------------------------------------------------------------
\* The ends of sequences

LEMMA SameLength ==
  ASSUME NEW a \in Nat, NEW b \in Nat, 1..a = 1..b
  PROVE  a = b
<1>1. a <= b
  <2>1. CASE a = 0
    BY <2>1
  <2>2. CASE a # 0
    <3>1. a \in 1..a
      BY <2>2
    <3>2. a \in 1..b
      BY <3>1
    <3> QED BY <3>2
  <2> QED BY <2>1, <2>2
<1>2. b <= a
  <2>1. CASE b = 0
    BY <2>1
  <2>2. CASE b # 0
    <3>1. b \in 1..b
      BY <2>2
    <3>2. b \in 1..a
      BY <3>1
    <3> QED BY <3>2
  <2> QED BY <2>1, <2>2
<1> QED BY <1>1, <1>2

LEMMA ReverseIs ==
  ASSUME NEW s \in Seq(Bytes)
  PROVE  /\ Reverse(s) \in Seq(Bytes) /\ Len(Reverse(s)) = Len(s)
         /\ \A i \in 1..Len(s) : Reverse(s)[i] = s[(Len(s) - i) + 1]
<1>1. Len(s) \in Nat
  BY LenProperties
<1>2. \A i \in 1..Len(s) : (Len(s) - i) + 1 \in 1..Len(s)
  BY <1>1
<1>3. \A i \in 1..Len(s) : s[(Len(s) - i) + 1] \in Bytes
  BY <1>2, ElementOfSeq
<1>4. Reverse(s) = [i \in 1..Len(s) |-> s[(Len(s) - i) + 1]]
  BY DEF Reverse
<1>5. Reverse(s) \in [1..Len(s) -> Bytes]
  BY <1>3, <1>4
<1>6. Reverse(s) \in Seq(Bytes)
  BY <1>1, <1>5, SeqDef
<1>7. Len(Reverse(s)) \in Nat /\ DOMAIN Reverse(s) = 1..Len(Reverse(s))
  BY <1>6, LenProperties
<1>8. Len(Reverse(s)) = Len(s)
  <2>1. DOMAIN Reverse(s) = 1..Len(s)
    BY <1>5
  <2> QED BY <1>1, <1>7, <2>1, SameLength
<1> QED BY <1>4, <1>6, <1>8

LEMMA EndIsSuffix ==
  ASSUME NEW a \in Seq(Bytes), NEW b \in Seq(Bytes)
  PROVE  IsSuffix(b, a \o b)
<1> DEFINE u == a \o b
           x == Reverse(b)
           y == Reverse(u)
<1>1. Len(a) \in Nat /\ Len(b) \in Nat
  BY LenProperties
<1>2. /\ u \in Seq(Bytes) /\ Len(u) = Len(a) + Len(b)
      /\ \A k \in 1..(Len(a) + Len(b)) : u[k] = IF k <= Len(a) THEN a[k] ELSE b[k - Len(a)]
  BY ConcatProperties
<1> HIDE DEF u
<1>3. /\ x \in Seq(Bytes) /\ Len(x) = Len(b)
      /\ \A i \in 1..Len(b) : x[i] = b[(Len(b) - i) + 1]
  BY ReverseIs
<1>4. /\ y \in Seq(Bytes) /\ Len(y) = Len(u)
      /\ \A i \in 1..Len(u) : y[i] = u[(Len(u) - i) + 1]
  BY <1>2, ReverseIs
<1> HIDE DEF x, y
<1>5. Len(x) <= Len(y)
  BY <1>1, <1>2, <1>3, <1>4
<1> DEFINE v == SubSeq(y, 1, Len(b))
<1>6. /\ v \in Seq(Bytes) /\ Len(v) = IF 1 <= Len(b) THEN Len(b) - 1 + 1 ELSE 0
      /\ \A i \in 1..(Len(b) - 1 + 1) : v[i] = y[1 + i - 1]
  <2>1. 1 \in 1..(Len(y) + 1) /\ Len(b) \in 0..Len(y)
    BY <1>1, <1>2, <1>4
  <2> QED BY <1>4, <2>1, PieceOf
<1> HIDE DEF v
<1>7. Len(v) = Len(x)
  BY <1>1, <1>3, <1>6
<1>8. ASSUME NEW i \in 1..Len(v)  PROVE v[i] = x[i]
  <2>1. /\ i \in 1..(Len(b) - 1 + 1) /\ 1 + i - 1 = i /\ i \in 1..Len(b) /\ i \in 1..Len(u)
        /\ (Len(u) - i) + 1 \in 1..(Len(a) + Len(b)) /\ ~((Len(u) - i) + 1 <= Len(a))
        /\ ((Len(u) - i) + 1) - Len(a) = (Len(b) - i) + 1
    BY <1>1, <1>2, <1>3, <1>7
  <2> QED BY <2>1, <1>2, <1>3, <1>4, <1>6
<1>9. v = x
  BY <1>3, <1>6, <1>7, <1>8, SeqEqual
<1>10. SubSeq(x, 1, Len(x)) = x
  BY <1>3, SubSeqFull
<1> QED BY <1>3, <1>5, <1>9, <1>10 DEF IsSuffix, IsPrefix, u, v, x, y

LEMMA SuffixSplits ==
  ASSUME NEW s \in Seq(Bytes), NEW w \in Seq(Bytes), IsSuffix(w, s)
  PROVE  /\ FirstBytes(s, Len(s) - Len(w)) \in Seq(Bytes)
         /\ s = FirstBytes(s, Len(s) - Len(w)) \o w
<1> DEFINE n == Len(s) - Len(w)
           x == Reverse(w)
           y == Reverse(s)
           e == SubSeq(s, n + 1, Len(s))
<1>1. /\ Len(s) \in Nat /\ Len(w) \in Nat
      /\ x \in Seq(Bytes) /\ Len(x) = Len(w)
      /\ \A i \in 1..Len(w) : x[i] = w[(Len(w) - i) + 1]
      /\ y \in Seq(Bytes) /\ Len(y) = Len(s)
      /\ \A i \in 1..Len(s) : y[i] = s[(Len(s) - i) + 1]
  BY LenProperties, ReverseIs
<1>2. Len(x) <= Len(y) /\ SubSeq(x, 1, Len(x)) = SubSeq(y, 1, Len(x))
  BY DEF IsSuffix, IsPrefix
<1> HIDE DEF x, y
<1>3. n \in Nat /\ n <= Len(s)
  BY <1>1, <1>2
<1>4. ASSUME NEW i \in 1..Len(w)  PROVE x[i] = y[i]
  <2>1. SubSeq(x, 1, Len(x)) = x
    BY <1>1, SubSeqFull
  <2>2. 1 \in 1..(Len(y) + 1) /\ Len(x) \in 0..Len(y) /\ i \in 1..(Len(x) - 1 + 1) /\ 1 + i - 1 = i
    BY <1>1, <1>2
  <2>3. SubSeq(y, 1, Len(x))[i] = y[1 + i - 1]
    BY <1>1, <2>2, PieceOf
  <2> QED BY <1>2, <2>1, <2>2, <2>3
<1>5. /\ e \in Seq(Bytes) /\ Len(e) = IF n + 1 <= Len(s) THEN Len(s) - (n + 1) + 1 ELSE 0
      /\ \A i \in 1..(Len(s) - (n + 1) + 1) : e[i] = s[(n + 1) + i - 1]
  <2>1. n + 1 \in 1..(Len(s) + 1) /\ Len(s) \in 0..Len(s)
    BY <1>1, <1>3
  <2> HIDE DEF n
  <2> QED BY <2>1, PieceOf
<1> HIDE DEF e
<1>6. Len(e) = Len(w)
  BY <1>1, <1>3, <1>5
<1>7. ASSUME NEW i \in 1..Len(e)  PROVE e[i] = w[i]
  <2> DEFINE j == (Len(w) - i) + 1
  <2>1. /\ i \in 1..(Len(s) - (n + 1) + 1) /\ j \in 1..Len(w) /\ j \in 1..Len(s)
        /\ (n + 1) + i - 1 = (Len(s) - j) + 1 /\ (Len(w) - j) + 1 = i
    BY <1>1, <1>2, <1>3, <1>6
  <2>2. x[j] = y[j]
    BY <1>4, <2>1
  <2> HIDE DEF j
  <2>3. e[i] = s[(Len(s) - j) + 1] /\ x[j] = w[(Len(w) - j) + 1] /\ y[j] = s[(Len(s) - j) + 1]
    BY <1>1, <1>5, <2>1
  <2> QED BY <2>1, <2>2, <2>3
<1>8. e = w
  BY <1>5, <1>6, <1>7, SeqEqual
<1> HIDE DEF n
<1>9. SubSeq(s, 1, n) \in Seq(Bytes)
  <2>1. 1 \in 1..(Len(s) + 1) /\ n \in 0..Len(s)
    BY <1>1, <1>3
  <2> QED BY <2>1, PieceOf
<1>10. SubSeq(s, 1, n) \o e = s
  <2>1. 1 \in 1..(Len(s) + 1) /\ n \in (1 - 1)..Len(s) /\ Len(s) \in n..Len(s)
    BY <1>1, <1>3
  <2>2. SubSeq(s, 1, n) \o SubSeq(s, n + 1, Len(s)) = SubSeq(s, 1, Len(s))
    BY <2>1, ConcatAdjacentSubSeq
  <2> QED BY <2>2, SubSeqFull DEF e
<1> QED BY <1>8, <1>9, <1>10 DEF FirstBytes, n

LEMMA FrontOf ==
  ASSUME NEW a \in Seq(Bytes), NEW b \in Seq(Bytes)
  PROVE  FirstBytes(a \o b, Len(a \o b) - Len(b)) = a
<1>1. Len(a) \in Nat /\ Len(b) \in Nat /\ Len(a \o b) = Len(a) + Len(b)
  BY LenProperties, ConcatProperties
<1>2. Len(a \o b) - Len(b) = Len(a) /\ 1 \in 1..(Len(a) + 1) /\ Len(a) \in 0..Len(a)
  BY <1>1
<1>3. SubSeq(a \o b, 1, Len(a)) = SubSeq(a, 1, Len(a))
  BY <1>2, PieceOfLeft
<1> QED BY <1>2, <1>3, SubSeqFull DEF FirstBytes

----------------------------------------------------------------------------
\* What is saved and what is kept

LEMMA BoundaryMoves ==
  ASSUME NEW w \in Seq(Bytes), NEW c \in Seq(Bytes), Len(c) >= 1
  PROVE  /\ Whole(w, c) \in Seq(Bytes) /\ Rest(w, c) \in Seq(Bytes)
         /\ Whole(w, c) \o Rest(w, c) = w \o c
         /\ Len(Whole(w, c)) <= Len(w)
         /\ Len(Rest(w, c)) >= 1 /\ Len(Rest(w, c)) <= TagLen - 1 + Len(c)
         /\ TagIsCut(w, c) => /\ Len(Whole(w, c)) = TagIndex(w \o c)
                              /\ HasTag(Rest(w, c)) /\ Len(Rest(w, c)) >= TagLen
<1> DEFINE u == w \o c
           i == TagIndex(u)
<1>1. /\ Len(w) \in Nat /\ Len(c) \in Nat /\ TagLen \in Nat /\ TagLen >= 1
      /\ u \in Seq(Bytes) /\ Len(u) = Len(w) + Len(c)
  BY LenProperties, TagLenPositive, ConcatProperties
<1>2. CASE ~TagIsCut(w, c)
  <2>1. Whole(w, c) = w /\ Rest(w, c) = c
    BY <1>2 DEF Whole, Rest
  <2>2. Len(c) <= TagLen - 1 + Len(c)
    BY <1>1
  <2> QED BY <1>1, <1>2, <2>1, <2>2
<1>3. CASE TagIsCut(w, c)
  <2>1. ~HasTag(w) /\ ~HasTag(c) /\ HasTag(u)
    BY <1>3 DEF TagIsCut
  <2>2. Whole(w, c) = BeforeTag(u) /\ Rest(w, c) = Drop(u, i)
    BY <1>3 DEF Whole, Rest
  <2>3. i \in Nat /\ i + TagLen <= Len(u) /\ i + 1 \in TagsIn(u)
    BY <1>1, <2>1, TagIndexIs
  <2>4. i + 1 <= Len(w) /\ ~(i + TagLen <= Len(w))
    <3>1. TagsIn(w) = {} /\ TagsIn(c) = {}
      BY <2>1, HasTagIff
    <3>2. i + 1 \in Int /\ (i + 1) + TagLen - 1 = i + TagLen
      BY <1>1, <2>3
    <3> HIDE DEF i
    <3>3. ~((i + 1) + TagLen - 1 <= Len(w)) /\ ~(i + 1 > Len(w))
      BY <2>3, <3>1, <3>2, TagsOfConcat
    <3> QED BY <1>1, <3>2, <3>3
  <2>5. BeforeTag(u) \in Seq(Bytes) /\ Drop(u, i) \in Seq(Bytes) /\ BeforeTag(u) \o Drop(u, i) = u
    BY <1>1, <2>1, PartsOfTagged
  <2>6. Len(BeforeTag(u)) = i
    <3>1. 1 \in 1..(Len(u) + 1) /\ i \in 0..Len(u)
      BY <1>1, <2>3
    <3>2. BeforeTag(u) = SubSeq(u, 1, i)
      BY DEF BeforeTag
    <3> HIDE DEF u, i
    <3>3. Len(SubSeq(u, 1, i)) = IF 1 <= i THEN i - 1 + 1 ELSE 0
      BY <1>1, <3>1, PieceOf
    <3> QED BY <2>3, <3>2, <3>3
  <2> DEFINE b == BeforeTag(u)
             r == Drop(u, i)
  <2>7. b \in Seq(Bytes) /\ r \in Seq(Bytes) /\ b \o r = u /\ Len(b) = i
    BY <2>5, <2>6
  <2>8. /\ Whole(w, c) = b /\ Rest(w, c) = r
    BY <2>2
  <2> HIDE DEF b, r, u, i
  <2>9. Len(r) \in Nat /\ Len(u) = Len(b) + Len(r)
    BY <2>7, LenProperties, ConcatProperties
  <2>10. HasTag(r)
    <3>1. i + 1 \in Int /\ i + 1 > Len(b) /\ (i + 1) - Len(b) = 1
      BY <2>3, <2>7
    <3>2. 1 \in TagsIn(r)
      <4>1. i + 1 \in TagsIn(b \o r)
        BY <2>3, <2>7
      <4>2. (i + 1) - Len(b) \in TagsIn(r)
        BY <2>7, <3>1, <4>1, TagsOfConcat
      <4> QED BY <3>1, <4>2
    <3> QED BY <2>7, <3>2, HasTagIff
  <2>11. /\ Len(b) <= Len(w) /\ Len(r) >= TagLen /\ Len(r) >= 1
         /\ Len(r) <= TagLen - 1 + Len(c)
    BY <1>1, <2>3, <2>4, <2>7, <2>9
  <2> QED BY <2>7, <2>8, <2>10, <2>11 DEF u, i
<1> QED BY <1>2, <1>3

LEMMA TakenType ==
  ASSUME NEW h \in Seq(Bytes), NEW tk \in Seq(Nat), NEW a \in Seq(Bytes)
  PROVE  /\ TakenWith(h, tk, a) \in Seq(Nat)
         /\ Len(TakenWith(h, tk, a)) = IF HasTag(a) THEN Len(tk) + 1 ELSE Len(tk)
         /\ \A n \in 1..Len(tk) : TakenWith(h, tk, a)[n] = tk[n]
         /\ HasTag(a) => TakenWith(h, tk, a)[Len(tk) + 1] = Len(h) + (TagIndex(a) + 1)
<1>1. CASE ~HasTag(a)
  BY <1>1 DEF TakenWith
<1>2. CASE HasTag(a)
  <2> DEFINE p == Len(h) + TagIndex(a) + 1
  <2>1. p \in Nat /\ p = Len(h) + (TagIndex(a) + 1)
    BY <1>2, TagIndexIs, LenProperties
  <2>2. TakenWith(h, tk, a) = Append(tk, p)
    BY <1>2 DEF TakenWith
  <2> HIDE DEF p
  <2> QED BY <1>2, <2>1, <2>2, AppendProperties
<1> QED BY <1>1, <1>2

LEMMA NoneTaken ==
  ASSUME NEW tk \in Seq(Nat)
  PROVE  tk = <<>> <=> Len(tk) = 0
BY EmptySeq

\* What has been sent is what was saved and the window.
LEMMA SavedAndWindow ==
  ASSUME TypeInv, outcome = "open"
  PROVE  /\ Saved \in Seq(Bytes) /\ window \in Seq(Bytes) /\ sent = Saved \o window
         /\ Before = Len(Saved) /\ Len(sent) = Len(Saved) + Len(window)
<1>1. Saved \in Seq(Bytes) /\ window \in Seq(Bytes) /\ sent = Saved \o window
  BY SuffixSplits DEF TypeInv, FileTypeOK, Saved, Before
<1>2. Len(Saved) \in Nat /\ Len(window) \in Nat /\ Len(sent) = Len(Saved) + Len(window)
  BY <1>1, LenProperties, ConcatProperties
<1> QED BY <1>1, <1>2 DEF Before

LEMMA ChunkType ==
  ASSUME NEW chunk \in Chunks
  PROVE  chunk \in Seq(Bytes) /\ Len(chunk) \in Nat /\ Len(chunk) >= 1 /\ Len(chunk) <= MaxChunk
<1>1. PICK n \in 1..MaxChunk : chunk \in [1..n -> Bytes]
  BY DEF Chunks
<1>2. n \in Nat
  BY ChunkAssumption
<1>3. chunk \in Seq(Bytes)
  BY <1>1, <1>2, SeqDef
<1>4. Len(chunk) \in Nat /\ DOMAIN chunk = 1..Len(chunk)
  BY <1>3, LenProperties
<1>5. Len(chunk) = n
  <2>1. DOMAIN chunk = 1..n
    BY <1>1
  <2> QED BY <1>2, <1>4, <2>1, SameLength
<1> QED BY <1>1, <1>3, <1>4, <1>5, ChunkAssumption

\* SaveChunk while the window is too short, and otherwise
LEMMA ShortStep ==
  ASSUME TypeInv, NEW chunk \in Chunks, SaveChunk(chunk), WindowTooShort(window)
  PROVE  /\ outcome = "open" /\ outcome' = "open" /\ expect_start_tag' = expect_start_tag
         /\ sent' = Saved \o (window \o chunk) /\ window' = window \o chunk /\ Saved' = Saved
         /\ ends' = ends \union {Len(sent')}
         /\ UNCHANGED <<files, start_tag_found, taken>>
<1>1. /\ outcome = "open" /\ outcome' = "open" /\ expect_start_tag' = expect_start_tag
      /\ sent' = sent \o chunk /\ window' = window \o chunk /\ ends' = ends \union {Len(sent')}
      /\ UNCHANGED <<files, start_tag_found, taken>>
  BY DEF SaveChunk
<1> DEFINE h == Saved
           w == window
           c == chunk
<1>2. h \in Seq(Bytes) /\ w \in Seq(Bytes) /\ c \in Seq(Bytes) /\ sent = h \o w
  BY <1>1, SavedAndWindow, ChunkType
<1>3. Saved' = FirstBytes(sent', Len(sent') - Len(window'))
  BY <1>1 DEF Saved, Before
<1> HIDE DEF h, w, c
<1>4. w \o c \in Seq(Bytes) /\ (h \o w) \o c = h \o (w \o c)
  <2>1. h \in Seq(Bytes) /\ w \in Seq(Bytes) /\ c \in Seq(Bytes)
    BY <1>2
  <2>2. w \o c \in Seq(Bytes)
    BY <2>1, ConcatProperties
  <2> QED BY <2>1, <2>2, ConcatAssociative, SMTT(30)
<1>5. FirstBytes(h \o (w \o c), Len(h \o (w \o c)) - Len(w \o c)) = h
  BY <1>2, <1>4, FrontOf
<1>6. sent' = h \o (w \o c) /\ window' = w \o c
  BY <1>1, <1>2, <1>4 DEF w, c
<1>7. Saved' = h
  BY <1>3, <1>5, <1>6
<1> QED BY <1>1, <1>6, <1>7 DEF h, w, c

LEMMA LongStep ==
  ASSUME TypeInv, NEW chunk \in Chunks, SaveChunk(chunk), ~WindowTooShort(window),
         NEW a, a = Whole(window, chunk), NEW r, r = Rest(window, chunk)
  PROVE  /\ outcome = "open" /\ outcome' = "open" /\ expect_start_tag' = expect_start_tag
         /\ sent' = Saved \o (window \o chunk) /\ sent' = (Saved \o a) \o r
         /\ window' = r /\ Saved' = Saved \o a
         /\ ends' = ends \union {Len(sent')}
         /\ files' = WithIntegral(files, a) /\ taken' = TakenWith(Saved, taken, a)
         /\ start_tag_found' = (start_tag_found \/ HasTag(a))
<1>1. /\ outcome = "open" /\ outcome' = "open" /\ expect_start_tag' = expect_start_tag
      /\ sent' = sent \o chunk /\ ends' = ends \union {Len(sent')}
  BY DEF SaveChunk
<1>2. /\ window' = r /\ files' = WithIntegral(files, a)
      /\ start_tag_found' = (start_tag_found \/ HasTag(a))
      /\ taken' = IF HasTag(a) THEN Append(taken, Before + TagIndex(a) + 1) ELSE taken
  BY DEF SaveChunk, SaveIntegral, Whole, Rest
<1> DEFINE h == Saved
           w == window
           c == chunk
<1>3. /\ h \in Seq(Bytes) /\ w \in Seq(Bytes) /\ c \in Seq(Bytes) /\ Len(c) >= 1
      /\ sent = h \o w /\ Before = Len(h)
  BY <1>1, SavedAndWindow, ChunkType
<1>4. taken' = TakenWith(h, taken, a)
  BY <1>2, <1>3 DEF TakenWith
<1>5. Saved' = FirstBytes(sent', Len(sent') - Len(window'))
  BY <1>1 DEF Saved, Before
<1>6. a = Whole(w, c) /\ r = Rest(w, c)
  OBVIOUS
<1> HIDE DEF h, w, c
<1>7. a \in Seq(Bytes) /\ r \in Seq(Bytes) /\ a \o r = w \o c
  BY <1>3, <1>6, BoundaryMoves
<1>8. (h \o w) \o c = h \o (w \o c)
  <2>1. h \in Seq(Bytes) /\ w \in Seq(Bytes) /\ c \in Seq(Bytes)
    BY <1>3
  <2> QED BY <2>1, ConcatAssociative
<1>9. (h \o a) \o r = h \o (a \o r)
  <2>1. h \in Seq(Bytes) /\ a \in Seq(Bytes) /\ r \in Seq(Bytes)
    BY <1>3, <1>7
  <2> QED BY <2>1, ConcatAssociative
<1>10. h \o a \in Seq(Bytes)
  BY <1>3, <1>7, ConcatProperties
<1>11. FirstBytes((h \o a) \o r, Len((h \o a) \o r) - Len(r)) = h \o a
  BY <1>7, <1>10, FrontOf
<1>12. sent' = h \o (w \o c) /\ sent' = (h \o a) \o r
  BY <1>1, <1>3, <1>7, <1>8, <1>9 DEF c
<1>13. Saved' = h \o a
  BY <1>2, <1>5, <1>11, <1>12
<1> QED BY <1>1, <1>2, <1>4, <1>12, <1>13 DEF h, w, c

LEMMA CloseStep ==
  ASSUME TypeInv, Close
  PROVE  /\ outcome = "open" /\ outcome' \in {"ok", "ValueError"}
         /\ outcome' = "ValueError" <=> expect_start_tag' /\ ~start_tag_found'
         /\ UNCHANGED <<expect_start_tag, sent, ends, window>>
         /\ Saved' = sent /\ files' = WithIntegral(files, window)
         /\ taken' = TakenWith(Saved, taken, window)
         /\ start_tag_found' = (start_tag_found \/ HasTag(window))
<1>1. /\ outcome = "open" /\ UNCHANGED <<expect_start_tag, sent, ends, window>>
      /\ outcome' = IF expect_start_tag /\ ~start_tag_found' THEN "ValueError" ELSE "ok"
      /\ files' = WithIntegral(files, window)
      /\ start_tag_found' = (start_tag_found \/ HasTag(window))
      /\ taken' = IF HasTag(window) THEN Append(taken, Before + TagIndex(window) + 1) ELSE taken
  BY DEF Close, SaveIntegral
<1>2. outcome' # "open" /\ outcome' \in {"ok", "ValueError"}
  BY <1>1
<1>3. Saved' = sent
  BY <1>1, <1>2 DEF Saved
<1>4. taken' = TakenWith(Saved, taken, window)
  BY <1>1, SavedAndWindow DEF TakenWith
<1> QED BY <1>1, <1>2, <1>3, <1>4

----------------------------------------------------------------------------
\* Type correctness

LEMMA NumberOfFirst ==
  /\ NoFiles \in Seq(Seq(Bytes)) /\ Len(NoFiles) \in {0, 1}
<1>1. <<>> \in Seq(Bytes)
  BY EmptySeq
<1>2. <<>> \in Seq(Seq(Bytes)) /\ <<(<<>>)>> \in Seq(Seq(Bytes))
  BY <1>1, EmptySeq
<1>3. Len(<<>>) = 0 /\ Len(<<(<<>>)>>) = 1
  OBVIOUS
<1> QED BY <1>2, <1>3 DEF NoFiles

LEMMA TypeInit == FileInit => TypeInv
<1> SUFFICES ASSUME FileInit  PROVE TypeInv
  OBVIOUS
<1>1. /\ expect_start_tag \in BOOLEAN /\ sent = <<>> /\ ends = {} /\ window = <<>>
      /\ files = NoFiles /\ taken = <<>> /\ start_tag_found = FALSE /\ outcome = "open"
  BY DEF FileInit
<1>2. /\ <<>> \in Seq(Bytes) /\ <<>> \in Seq(Nat) /\ Len(<<>>) = 0 /\ <<>> \o <<>> = <<>>
  BY EmptySeq, ConcatEmptySeq
<1>3. IsSuffix(window, sent)
  BY <1>1, <1>2, EndIsSuffix
<1>4. files \in Seq(Seq(Bytes)) /\ Len(files) = Len(NoFiles) + Len(taken)
  BY <1>1, <1>2, NumberOfFirst
<1>5. Len(sent) <= MaxLen /\ ends \subseteq 1..Len(sent)
  BY <1>1, <1>2, ChunkAssumption
<1>6. start_tag_found <=> taken # <<>>
  BY <1>1
<1> QED BY <1>1, <1>2, <1>3, <1>4, <1>5, <1>6 DEF TypeInv, FileTypeOK

\* A file is begun for every tag taken.
LEMMA TypeOfFiles ==
  ASSUME TypeInv, NEW a \in Seq(Bytes), NEW h \in Seq(Bytes),
         files' = WithIntegral(files, a), taken' = TakenWith(h, taken, a),
         start_tag_found' = (start_tag_found \/ HasTag(a)),
         expect_start_tag' = expect_start_tag
  PROVE  /\ files' \in Seq(Seq(Bytes)) /\ taken' \in Seq(Nat)
         /\ Len(files') = Len(NoFiles') + Len(taken')
         /\ start_tag_found' \in BOOLEAN /\ (start_tag_found' <=> taken' # <<>>)
<1>1. /\ files \in Seq(Seq(Bytes)) /\ taken \in Seq(Nat) /\ Len(files) = Len(NoFiles) + Len(taken)
      /\ start_tag_found \in BOOLEAN /\ (start_tag_found <=> taken # <<>>)
  BY DEF TypeInv, FileTypeOK
<1>2. /\ files' \in Seq(Seq(Bytes))
      /\ Len(files') = IF HasTag(a) THEN Len(files) + 1 ELSE Len(files)
  BY <1>1, WithIntegralType
<1>3. /\ taken' \in Seq(Nat) /\ Len(taken') = IF HasTag(a) THEN Len(taken) + 1 ELSE Len(taken)
  BY <1>1, TakenType
<1>4. NoFiles' = NoFiles /\ Len(NoFiles) \in Nat /\ Len(taken) \in Nat
  BY <1>1, NumberOfFirst, LenProperties DEF NoFiles
<1>5. Len(files') = Len(NoFiles') + Len(taken')
  BY <1>1, <1>2, <1>3, <1>4
<1>6. taken # <<>> <=> Len(taken) # 0
  BY <1>1, NoneTaken
<1>7. taken' # <<>> <=> Len(taken') # 0
  BY <1>3, NoneTaken
<1>8. start_tag_found' <=> taken' # <<>>
  <2>1. CASE HasTag(a)
    <3>1. Len(taken') # 0
      BY <1>3, <1>4, <2>1
    <3> QED BY <1>7, <2>1, <3>1
  <2>2. CASE ~HasTag(a)
    BY <1>1, <1>3, <1>6, <1>7, <2>2
  <2> QED BY <2>1, <2>2
<1>9. start_tag_found' \in BOOLEAN
  BY <1>1
<1> QED BY <1>2, <1>3, <1>5, <1>8, <1>9

LEMMA EndsType ==
  ASSUME TypeInv, NEW c \in Seq(Bytes), Len(c) >= 1, sent' = sent \o c,
         ends' = ends \union {Len(sent')}
  PROVE  sent' \in Seq(Bytes) /\ ends' \subseteq 1..Len(sent') /\ Len(sent') = Len(sent) + Len(c)
<1>1. /\ sent \in Seq(Bytes) /\ Len(sent) \in Nat /\ Len(c) \in Nat /\ ends \subseteq 1..Len(sent)
  BY LenProperties DEF TypeInv, FileTypeOK
<1>2. sent' \in Seq(Bytes) /\ Len(sent') = Len(sent) + Len(c)
  BY <1>1, ConcatProperties
<1>3. 1..Len(sent) \subseteq 1..Len(sent') /\ Len(sent') \in 1..Len(sent')
  BY <1>1, <1>2
<1> QED BY <1>1, <1>2, <1>3

LEMMA TypeSave ==
  ASSUME TypeInv, NEW chunk \in Chunks, Len(sent) + Len(chunk) <= MaxLen, SaveChunk(chunk)
  PROVE  TypeInv'
<1>1. /\ sent' = sent \o chunk /\ ends' = ends \union {Len(sent')}
      /\ outcome = "open" /\ UNCHANGED <<expect_start_tag, outcome>>
      /\ expect_start_tag' \in BOOLEAN /\ outcome' \in {"open", "ok", "ValueError"}
  BY DEF SaveChunk, TypeInv, FileTypeOK
<1>2. /\ chunk \in Seq(Bytes) /\ window \in Seq(Bytes) /\ Saved \in Seq(Bytes) /\ Len(chunk) >= 1
  BY <1>1, ChunkType, SavedAndWindow
<1>3. sent' \in Seq(Bytes) /\ ends' \subseteq 1..Len(sent') /\ Len(sent') <= MaxLen
  BY <1>1, <1>2, EndsType
<1>4. CASE WindowTooShort(window)
  <2>1. /\ sent' = Saved \o (window \o chunk) /\ window' = window \o chunk
        /\ UNCHANGED <<files, start_tag_found, taken>>
    BY <1>4, ShortStep
  <2>2. window \o chunk \in Seq(Bytes)
    BY <1>2, ConcatProperties
  <2>3. IsSuffix(window', sent')
    BY <1>2, <2>1, <2>2, EndIsSuffix
  <2>4. NoFiles' = NoFiles
    BY <1>1 DEF NoFiles
  <2> QED BY <1>1, <1>3, <2>1, <2>2, <2>3, <2>4 DEF TypeInv, FileTypeOK
<1>5. CASE ~WindowTooShort(window)
  <2> DEFINE a == Whole(window, chunk)
             r == Rest(window, chunk)
  <2>1. a \in Seq(Bytes) /\ r \in Seq(Bytes)
    BY <1>2, BoundaryMoves
  <2>2. /\ sent' = (Saved \o a) \o r /\ window' = r
        /\ files' = WithIntegral(files, a) /\ taken' = TakenWith(Saved, taken, a)
        /\ start_tag_found' = (start_tag_found \/ HasTag(a))
    BY <1>5, LongStep
  <2> HIDE DEF a, r
  <2>3. IsSuffix(window', sent')
    <3>1. Saved \o a \in Seq(Bytes)
      BY <1>2, <2>1, ConcatProperties
    <3> QED BY <2>1, <2>2, <3>1, EndIsSuffix
  <2>4. /\ files' \in Seq(Seq(Bytes)) /\ taken' \in Seq(Nat)
        /\ Len(files') = Len(NoFiles') + Len(taken')
        /\ start_tag_found' \in BOOLEAN /\ (start_tag_found' <=> taken' # <<>>)
    BY <1>1, <1>2, <2>1, <2>2, TypeOfFiles
  <2> QED BY <1>1, <1>3, <2>1, <2>2, <2>3, <2>4 DEF TypeInv, FileTypeOK
<1> QED BY <1>4, <1>5

LEMMA TypeClose ==
  ASSUME TypeInv, Close
  PROVE  TypeInv'
<1>1. /\ outcome = "open" /\ outcome' \in {"open", "ok", "ValueError"}
      /\ UNCHANGED <<expect_start_tag, sent, ends, window>>
      /\ files' = WithIntegral(files, window) /\ taken' = TakenWith(Saved, taken, window)
      /\ start_tag_found' = (start_tag_found \/ HasTag(window))
  BY CloseStep
<1>2. window \in Seq(Bytes) /\ Saved \in Seq(Bytes)
  BY <1>1, SavedAndWindow
<1>3. /\ files' \in Seq(Seq(Bytes)) /\ taken' \in Seq(Nat)
      /\ Len(files') = Len(NoFiles') + Len(taken')
      /\ start_tag_found' \in BOOLEAN /\ (start_tag_found' <=> taken' # <<>>)
  BY <1>1, <1>2, TypeOfFiles
<1> QED BY <1>1, <1>3 DEF TypeInv, FileTypeOK

LEMMA TypeStep == TypeInv /\ [FileNext]_fileVars => TypeInv'
<1> SUFFICES ASSUME TypeInv, [FileNext]_fileVars  PROVE TypeInv'
  OBVIOUS
<1>1. CASE \E chunk \in Chunks : Len(sent) + Len(chunk) <= MaxLen /\ SaveChunk(chunk)
  BY <1>1, TypeSave
<1>2. CASE Close
  BY <1>2, TypeClose
<1>3. CASE UNCHANGED fileVars
  BY <1>3 DEF fileVars, TypeInv, FileTypeOK, NoFiles
<1> QED BY <1>1, <1>2, <1>3 DEF FileNext

\* Type correctness of CtfFileHandler (west-zpl.py:32-156): the window is always the end of what
\* was sent, a file is begun for every tag taken, and one is there from the start exactly if no
\* tag is expected.
THEOREM FileTypes == FileSpec => []FileTypeOK
<1>1. TypeInv => FileTypeOK
  BY DEF TypeInv
<1> QED BY TypeInit, TypeStep, <1>1, PTL DEF FileSpec

----------------------------------------------------------------------------
\* What the files hold

LEMMA SplitInit == FileInit => SplitInto(Saved, files, taken, Len(NoFiles))
<1> SUFFICES ASSUME FileInit  PROVE SplitInto(Saved, files, taken, Len(NoFiles))
  OBVIOUS
<1>1. /\ sent = <<>> /\ window = <<>> /\ files = NoFiles /\ taken = <<>> /\ outcome = "open"
  BY DEF FileInit
<1>2. <<>> \in Seq(Bytes) /\ Len(<<>>) = 0 /\ <<>> \o <<>> = <<>>
  BY EmptySeq, ConcatEmptySeq
<1>3. Saved = <<>>
  <2>1. FirstBytes(<<>> \o <<>>, Len(<<>> \o <<>>) - Len(<<>>)) = <<>>
    BY <1>2, FrontOf
  <2> QED BY <1>1, <1>2, <2>1 DEF Saved, Before
<1>4. ASSUME NEW n \in 1..Len(files)
      PROVE  files[n] = PieceAt(<<>>, <<>>, n - Len(NoFiles))
  <2>1. Len(NoFiles) = 1 /\ n = 1 /\ files = <<(<<>>)>>
    BY <1>1, <1>2 DEF NoFiles
  <2>2. PieceAt(<<>>, <<>>, 0) = SubSeq(<<>>, 1, 0)
    BY <1>2 DEF PieceAt
  <2>3. SubSeq(<<>>, 1, 0) = <<>>
    BY SubSeqEmpty
  <2>4. n - Len(NoFiles) = 0 /\ files[n] = <<>>
    BY <2>1
  <2> QED BY <2>2, <2>3, <2>4
<1>5. \A n \in 1..Len(taken) : FALSE
  BY <1>1, <1>2
<1> QED BY <1>1, <1>3, <1>4, <1>5 DEF SplitInto

LEMMA SplitStep ==
  ASSUME TypeInv, SplitInto(Saved, files, taken, Len(NoFiles)), [FileNext]_fileVars
  PROVE  SplitInto(Saved, files, taken, Len(NoFiles))'
<1>1. /\ files \in Seq(Seq(Bytes)) /\ taken \in Seq(Nat) /\ Len(NoFiles) \in {0, 1}
      /\ Len(files) = Len(NoFiles) + Len(taken)
  BY NumberOfFirst DEF TypeInv, FileTypeOK
<1>2. CASE \E chunk \in Chunks : Len(sent) + Len(chunk) <= MaxLen /\ SaveChunk(chunk)
  <2>1. PICK chunk \in Chunks : SaveChunk(chunk)
    BY <1>2
  <2>2. /\ chunk \in Seq(Bytes) /\ Len(chunk) >= 1
        /\ window \in Seq(Bytes) /\ Saved \in Seq(Bytes) /\ outcome = "open" /\ NoFiles' = NoFiles
    BY <2>1, ChunkType, SavedAndWindow DEF SaveChunk, NoFiles
  <2>3. CASE WindowTooShort(window)
    <3>1. UNCHANGED <<files, taken>> /\ Saved' = Saved
      BY <2>1, <2>3, ShortStep
    <3> QED BY <2>2, <3>1 DEF SplitInto, PieceAt
  <2>4. CASE ~WindowTooShort(window)
    <3> DEFINE a == Whole(window, chunk)
    <3>1. a \in Seq(Bytes)
      BY <2>2, BoundaryMoves
    <3>2. /\ Saved' = Saved \o a /\ files' = WithIntegral(files, a)
          /\ taken' = TakenWith(Saved, taken, a)
      BY <2>1, <2>4, LongStep
    <3> HIDE DEF a
    <3>3. SplitInto(Saved \o a, WithIntegral(files, a), TakenWith(Saved, taken, a), Len(NoFiles))
      BY <1>1, <2>2, <3>1, SplitGrows
    <3> QED BY <2>2, <3>2, <3>3 DEF SplitInto, PieceAt
  <2> QED BY <2>3, <2>4
<1>3. CASE Close
  <2>1. /\ outcome = "open" /\ NoFiles' = NoFiles /\ Saved' = sent
        /\ files' = WithIntegral(files, window) /\ taken' = TakenWith(Saved, taken, window)
    BY <1>3, CloseStep DEF NoFiles
  <2>2. window \in Seq(Bytes) /\ Saved \in Seq(Bytes) /\ sent = Saved \o window
    BY <2>1, SavedAndWindow
  <2>3. SplitInto(Saved \o window, WithIntegral(files, window),
                  TakenWith(Saved, taken, window), Len(NoFiles))
    BY <1>1, <2>2, SplitGrows
  <2> QED BY <2>1, <2>2, <2>3 DEF SplitInto, PieceAt
<1>4. CASE UNCHANGED fileVars
  BY <1>4 DEF fileVars, SplitInto, PieceAt, Saved, Before, NoFiles
<1> QED BY <1>2, <1>3, <1>4 DEF FileNext

\* west-zpl.py:65-156: whatever the tags and the chunks, and at any moment of a capture, the bytes
\* that have left the window are in the files, each one once, in order, in the file of the last
\* tag taken before it.
THEOREM EveryByteIsSaved == FileSpec => []EveryByteOnce
<1> DEFINE Split == SplitInto(Saved, files, taken, Len(NoFiles))
<1>1. FileInit => TypeInv /\ Split
  BY TypeInit, SplitInit
<1>2. TypeInv /\ Split /\ [FileNext]_fileVars => (TypeInv /\ Split)'
  BY TypeStep, SplitStep
<1>3. TypeInv /\ Split => EveryByteOnce
  <2> SUFFICES ASSUME Split  PROVE EveryByteOnce
    OBVIOUS
  <2>1. \A n : PieceAt(Saved, taken, n) = Piece(n)
    BY DEF PieceAt, Piece
  <2> QED BY <2>1 DEF EveryByteOnce, SplitInto
<1> HIDE DEF Split
<1> QED BY <1>1, <1>2, <1>3, PTL DEF FileSpec

----------------------------------------------------------------------------
\* Which tags are found

\* Two tags in one window are near each other.
LEMMA NearInWindow ==
  ASSUME NEW w \in Seq(Bytes), Len(w) <= TagLen - 1 + MaxChunk,
         NEW x \in TagsIn(w), NEW y \in TagsIn(w)
  PROVE  y - x \in -Reach..Reach
<1>1. /\ x \in Nat /\ x >= 1 /\ x + TagLen - 1 <= Len(w)
      /\ y \in Nat /\ y >= 1 /\ y + TagLen - 1 <= Len(w)
      /\ TagLen \in Nat /\ TagLen >= 1 /\ MaxChunk \in Nat /\ Len(w) \in Nat
  BY TagEnds, TagLenPositive, ChunkAssumption, LenProperties
<1> QED BY <1>1 DEF Reach

\* A tag across the boundary that is not put right has another one near.
LEMMA HiddenByAnother ==
  ASSUME NEW w \in Seq(Bytes), Len(w) <= TagLen - 1 + MaxChunk,
         NEW c \in Seq(Bytes), Len(c) <= MaxChunk, ~TagIsCut(w, c),
         NEW x \in TagsIn(w \o c), x <= Len(w), x + TagLen - 1 > Len(w)
  PROVE  \E y \in TagsIn(w \o c) : y # x /\ y - x \in -Reach..Reach
<1>1. /\ Len(w) \in Nat /\ Len(c) \in Nat /\ TagLen \in Nat /\ TagLen >= 1 /\ MaxChunk \in Nat
      /\ w \o c \in Seq(Bytes)
  BY LenProperties, TagLenPositive, ConcatProperties, ChunkAssumption
<1>2. x \in Nat /\ x >= 1
  BY <1>1, TagEnds
<1>3. HasTag(w \o c)
  BY <1>1, HasTagIff
<1>4. CASE HasTag(w)
  <2>1. PICK y \in TagsIn(w) : TRUE
    BY <1>4, HasTagIff
  <2>2. y \in Nat /\ y >= 1 /\ y + TagLen - 1 <= Len(w)
    BY TagEnds
  <2>3. y # x /\ y - x \in -Reach..Reach
    BY <1>1, <1>2, <2>2 DEF Reach
  <2>4. y \in TagsIn(w \o c)
    BY TagsStay
  <2> QED BY <2>3, <2>4
<1>5. CASE HasTag(c)
  <2>1. PICK y \in TagsIn(c) : TRUE
    BY <1>5, HasTagIff
  <2>2. y \in Nat /\ y >= 1 /\ y + TagLen - 1 <= Len(c)
    BY TagEnds
  <2>3. Len(w) + y # x /\ (Len(w) + y) - x \in -Reach..Reach
    BY <1>1, <1>2, <2>2 DEF Reach
  <2>4. Len(w) + y \in TagsIn(w \o c)
    BY TagsStay
  <2> QED BY <2>3, <2>4
<1> QED BY <1>3, <1>4, <1>5 DEF TagIsCut

\* The excuses of a tag stay, and a tag taken stays taken.
LEMMA StaysExcused ==
  ASSUME taken \in Seq(Nat), TagsIn(sent) \subseteq TagsIn(sent'), ends \subseteq ends',
         Len(taken') \in Nat, Len(taken') >= Len(taken),
         \A n \in 1..Len(taken) : taken'[n] = taken[n],
         NEW t \in Int
  PROVE  /\ Excused(t) => Excused(t)'
         /\ CutTwice(t) => CutTwice(t)'
<1>1. Taken(t) => Taken(t)'
  <2> SUFFICES ASSUME NEW n \in 1..Len(taken), taken[n] = t  PROVE Taken(t)'
    BY DEF Taken
  <2>1. n \in 1..Len(taken') /\ taken'[n] = t
    BY LenProperties
  <2> QED BY <2>1 DEF Taken
<1>2. CutTwice(t) => CutTwice(t)'
  BY DEF CutTwice
<1>3. Crowded(t) => Crowded(t)'
  BY DEF Crowded
<1> QED BY <1>1, <1>2, <1>3 DEF Excused

\* The tags of the window, when it is saved: the first one is taken, any other is crowded.
LEMMA WindowTags ==
  ASSUME NEW h \in Seq(Bytes), NEW w \in Seq(Bytes), NEW tk \in Seq(Nat),
         Len(w) <= TagLen - 1 + MaxChunk, taken' = TakenWith(h, tk, w),
         \A y \in TagsIn(w) : Len(h) + y \in TagsIn(sent'),
         NEW x \in TagsIn(w), NEW t \in Int, t = Len(h) + x
  PROVE  Excused(t)'
<1>1. HasTag(w)
  BY HasTagIff
<1>2. TagIndex(w) + 1 \in TagsIn(w) /\ TagIndex(w) \in Nat
  BY <1>1, TagIndexIs
<1>3. CASE x = TagIndex(w) + 1
  <2>1. Len(taken') = Len(tk) + 1 /\ taken'[Len(tk) + 1] = Len(h) + (TagIndex(w) + 1)
    BY <1>1, TakenType
  <2>2. Len(tk) + 1 \in 1..Len(taken')
    BY <2>1, LenProperties
  <2>3. Taken(t)'
    BY <1>3, <2>1, <2>2 DEF Taken
  <2> QED BY <2>3 DEF Excused
<1>4. CASE x # TagIndex(w) + 1
  <2> DEFINE y == TagIndex(w) + 1
  <2>1. y \in TagsIn(w) /\ y # x
    BY <1>2, <1>4
  <2> HIDE DEF y
  <2>2. y - x \in -Reach..Reach
    BY <2>1, NearInWindow
  <2>3. x \in Nat /\ y \in Nat /\ Len(h) \in Nat
    BY <2>1, TagEnds, LenProperties
  <2>4. Len(h) + y # t /\ (Len(h) + y) - t = y - x
    BY <2>1, <2>3
  <2>5. Len(h) + y \in TagsIn(sent')
    BY <2>1
  <2>6. Crowded(t)'
    BY <2>2, <2>4, <2>5 DEF Crowded, Reach
  <2> QED BY <2>6 DEF Excused
<1> QED BY <1>3, <1>4

\* Where the tags of a longer stream lie
LEMMA TagOfBoth ==
  ASSUME NEW s \in Seq(Bytes), NEW c \in Seq(Bytes), NEW t \in TagsIn(s \o c)
  PROVE  /\ t \in Nat /\ t >= 1
         /\ t + TagLen - 1 <= Len(s) => t \in TagsIn(s)
         /\ t > Len(s) => t - Len(s) \in TagsIn(c)
<1>1. s \o c \in Seq(Bytes)
  BY ConcatProperties
<1>2. t \in Nat /\ t >= 1
  BY <1>1, TagEnds
<1> QED BY <1>2, TagsOfConcat

LEMMA NothingTaken ==
  ASSUME NEW h \in Seq(Bytes), NEW tk \in Seq(Nat), NEW a \in Seq(Bytes),
         TakenWith(h, tk, a) = <<>>
  PROVE  tk = <<>> /\ ~HasTag(a)
<1>1. Len(tk) \in Nat /\ Len(<<>>) = 0
  BY LenProperties, EmptySeq
<1>2. Len(TakenWith(h, tk, a)) = IF HasTag(a) THEN Len(tk) + 1 ELSE Len(tk)
  BY TakenType
<1>3. ~HasTag(a) /\ Len(tk) = 0
  BY <1>1, <1>2
<1> QED BY <1>3, NoneTaken

LEMMA OpenInit == FileInit => WindowInv /\ TagsInv
<1> SUFFICES ASSUME FileInit  PROVE WindowInv /\ TagsInv
  OBVIOUS
<1>1. sent = <<>> /\ window = <<>> /\ outcome = "open" /\ TypeInv
  BY TypeInit DEF FileInit
<1>2. <<>> \in Seq(Bytes) /\ Len(<<>>) = 0
  BY EmptySeq
<1>3. Len(Saved) = 0
  BY <1>1, <1>2, SavedAndWindow, LenProperties
<1>4. WindowInv
  BY <1>1, <1>2, <1>3, TagLenPositive, ChunkAssumption DEF WindowInv
<1>5. TagsIn(sent) = {}
  <2>1. TagsIn(sent) \subseteq 1..Len(sent)
    BY <1>1, <1>2, TagsFinite
  <2>2. 1..0 = {}
    OBVIOUS
  <2> QED BY <1>1, <1>2, <2>1, <2>2
<1> QED BY <1>4, <1>5 DEF TagsInv

\* A chunk too short to save anything: a tag that began in what was saved and ends in the chunk
\* is cut before the window and behind it.
LEMMA ShortStepTags ==
  ASSUME TypeInv, outcome = "open", WindowInv, TagsInv, NEW chunk \in Chunks, SaveChunk(chunk),
         WindowTooShort(window)
  PROVE  WindowInv' /\ TagsInv'
<1> DEFINE h == Saved
           w == window
           c == chunk
<1>1. /\ h \in Seq(Bytes) /\ w \in Seq(Bytes) /\ sent = h \o w /\ Len(sent) = Len(h) + Len(w)
      /\ c \in Seq(Bytes) /\ Len(c) \in Nat /\ Len(c) >= 1 /\ Len(c) <= MaxChunk
  BY SavedAndWindow, ChunkType
<1>2. /\ sent' = h \o (w \o c) /\ window' = w \o c /\ Saved' = h
      /\ ends' = ends \union {Len(sent')} /\ taken' = taken
  BY ShortStep
<1>3. /\ Len(w) < TagLen - 1 /\ (Len(h) = 0 \/ Len(h) \in ends) /\ (Len(w) = 0 => Len(h) = 0)
      /\ (Len(sent) = 0 \/ Len(sent) \in ends)
  BY DEF WindowInv, WindowTooShort
<1>4. \A t \in TagsIn(sent) : t <= Len(h) => Excused(t)
  BY DEF TagsInv
<1>5. taken = <<>> => HasTag(w) \/ \A t \in TagsIn(sent) : t <= Len(h) => CutTwice(t)
  BY DEF TagsInv
<1>6. taken \in Seq(Nat)
  BY DEF TypeInv
<1>7. WindowTooShort(window)' => Len(w \o c) < TagLen - 1
  BY <1>2 DEF WindowTooShort
<1>8. sent' = sent \o c
  BY DEF SaveChunk
<1> HIDE DEF h, w, c
<1>9. /\ w \o c \in Seq(Bytes) /\ Len(w \o c) = Len(w) + Len(c)
      /\ Len(h) \in Nat /\ Len(w) \in Nat /\ TagLen \in Nat /\ TagLen >= 1 /\ MaxChunk \in Nat
      /\ sent \in Seq(Bytes) /\ sent' \in Seq(Bytes)
  BY <1>1, <1>2, LenProperties, ConcatProperties, TagLenPositive, ChunkAssumption
<1>10. TagsIn(sent) \subseteq TagsIn(sent')
  BY <1>1, <1>8, <1>9, TagsStay
<1>11. WindowInv'
  BY <1>1, <1>2, <1>3, <1>9 DEF WindowInv
<1>12. \A t \in Int : (Excused(t) => Excused(t)') /\ (CutTwice(t) => CutTwice(t)')
  BY <1>2, <1>6, <1>10, StaysExcused, LenProperties
<1>13. ASSUME NEW t \in TagsIn(sent'), t \notin TagsIn(sent), t <= Len(h)
       PROVE  CutTwice(t)'
  <2>1. t \in Nat /\ t >= 1
    BY <1>9, TagEnds
  <2>2. ~(t + TagLen - 1 <= Len(sent))
    <3>1. t \in TagsIn(sent \o c)
      BY <1>8
    <3> QED BY <1>1, <1>9, <1>13, <3>1, TagOfBoth
  <2>3. Len(h) # 0 /\ Len(w) # 0 /\ Len(h) \in ends /\ Len(sent) \in ends
    BY <1>1, <1>3, <1>9, <1>13, <2>1
  <2>4. t <= Len(h) /\ Len(h) < Len(sent) /\ Len(sent) < t + TagLen - 1
    BY <1>1, <1>9, <1>13, <2>1, <2>2, <2>3
  <2>5. Len(h) \in ends' /\ Len(sent) \in ends'
    BY <1>2, <2>3
  <2> DEFINE e == Len(h)
             f == Len(sent)
  <2>6. e \in ends' /\ f \in ends' /\ t <= e /\ e < f /\ f < t + TagLen - 1
    BY <2>4, <2>5
  <2> HIDE DEF e, f
  <2> QED BY <2>6 DEF CutTwice
<1>14. \A t \in TagsIn(sent) : t \in Int
  BY <1>9, TagsFinite
<1>15. \A t \in TagsIn(sent') : t <= Len(Saved') => Excused(t)'
  BY <1>2, <1>4, <1>12, <1>13, <1>14 DEF Excused
<1>16. taken' = <<>> =>
         HasTag(window') \/ \A t \in TagsIn(sent') : t <= Len(Saved') => CutTwice(t)'
  <2>1. HasTag(w) => HasTag(w \o c)
    BY <1>1, <1>9, HasTagIff, TagsStay
  <2> QED BY <1>2, <1>5, <1>12, <1>13, <1>14, <2>1
<1> QED BY <1>11, <1>15, <1>16 DEF TagsInv

\* Otherwise the window is saved, or what precedes the tag across the boundary.
LEMMA LongStepTags ==
  ASSUME TypeInv, outcome = "open", WindowInv, TagsInv, NEW chunk \in Chunks, SaveChunk(chunk),
         ~WindowTooShort(window)
  PROVE  WindowInv' /\ TagsInv'
<1> DEFINE h == Saved
           w == window
           c == chunk
           a == Whole(window, chunk)
           r == Rest(window, chunk)
<1>1. /\ h \in Seq(Bytes) /\ w \in Seq(Bytes) /\ sent = h \o w /\ Len(sent) = Len(h) + Len(w)
      /\ c \in Seq(Bytes) /\ Len(c) \in Nat /\ Len(c) >= 1 /\ Len(c) <= MaxChunk
  BY SavedAndWindow, ChunkType
<1>2. /\ sent' = h \o (w \o c) /\ sent' = (h \o a) \o r /\ window' = r /\ Saved' = h \o a
      /\ ends' = ends \union {Len(sent')} /\ taken' = TakenWith(h, taken, a)
  BY LongStep
<1>3. /\ Len(w) >= TagLen - 1 /\ Len(w) <= TagLen - 1 + MaxChunk
      /\ (Len(sent) = 0 \/ Len(sent) \in ends)
  BY <1>1, LenProperties, TagLenPositive DEF WindowInv, WindowTooShort
<1>4. \A t \in TagsIn(sent) : t <= Len(h) => Excused(t)
  BY DEF TagsInv
<1>5. taken = <<>> => HasTag(w) \/ \A t \in TagsIn(sent) : t <= Len(h) => CutTwice(t)
  BY DEF TagsInv
<1>6. taken \in Seq(Nat)
  BY DEF TypeInv
<1>7. WindowTooShort(window)' => Len(r) < TagLen - 1
  BY <1>2 DEF WindowTooShort
<1>8. sent' = sent \o c
  BY DEF SaveChunk
<1>9. a = Whole(w, c) /\ r = Rest(w, c)
  OBVIOUS
<1> HIDE DEF h, w, c, a, r
<1>10. /\ w \o c \in Seq(Bytes) /\ Len(w \o c) = Len(w) + Len(c)
       /\ Len(h) \in Nat /\ Len(w) \in Nat /\ TagLen \in Nat /\ TagLen >= 1 /\ MaxChunk \in Nat
       /\ sent \in Seq(Bytes) /\ sent' \in Seq(Bytes)
  <2>1. w \o c \in Seq(Bytes) /\ Len(w \o c) = Len(w) + Len(c)
    BY <1>1, ConcatProperties
  <2>2. sent \in Seq(Bytes) /\ h \o (w \o c) \in Seq(Bytes)
    BY <1>1, <2>1, ConcatProperties
  <2> QED BY <1>1, <1>2, <2>1, <2>2, LenProperties, TagLenPositive, ChunkAssumption
<1>11. /\ a \in Seq(Bytes) /\ r \in Seq(Bytes) /\ Len(a) <= Len(w) /\ Len(r) >= 1
       /\ Len(r) <= TagLen - 1 + Len(c)
       /\ TagIsCut(w, c) => Len(a) = TagIndex(w \o c) /\ HasTag(r) /\ Len(r) >= TagLen
       /\ ~TagIsCut(w, c) => a = w /\ r = c
  BY <1>1, <1>9, BoundaryMoves DEF Whole, Rest
<1>12. Len(a) \in Nat /\ Len(r) \in Nat /\ h \o a \in Seq(Bytes) /\ Len(h \o a) = Len(h) + Len(a)
  BY <1>1, <1>11, LenProperties, ConcatProperties
<1>13. TagsIn(sent) \subseteq TagsIn(sent') /\ \A t \in TagsIn(sent) : t \in Int
  BY <1>1, <1>8, <1>10, TagsStay, TagsFinite
<1>14. WindowInv'
  <2>1. ASSUME WindowTooShort(window)'  PROVE Len(Saved') = 0 \/ Len(Saved') \in ends'
    <3>1. ~TagIsCut(w, c)
      BY <1>7, <1>10, <1>11, <1>12, <2>1
    <3>2. Len(Saved') = Len(sent)
      BY <1>1, <1>2, <1>11, <1>12, <3>1
    <3> QED BY <1>2, <1>3, <3>2
  <2>2. Len(window') # 0 /\ Len(window') <= TagLen - 1 + MaxChunk
    BY <1>1, <1>2, <1>10, <1>11, <1>12
  <2>3. Len(sent') \in ends'
    BY <1>2
  <2> QED BY <2>1, <2>2, <2>3 DEF WindowInv
<1>15. Len(taken) \in Nat /\ Len(taken') \in Nat /\ Len(taken') >= Len(taken)
       /\ \A n \in 1..Len(taken) : taken'[n] = taken[n]
  <2>1. Len(taken) \in Nat
    BY <1>6, LenProperties
  <2>2. h \in Seq(Bytes) /\ a \in Seq(Bytes) /\ taken' = TakenWith(h, taken, a)
    BY <1>1, <1>2, <1>11
  <2>3. /\ Len(taken') = IF HasTag(a) THEN Len(taken) + 1 ELSE Len(taken)
        /\ \A n \in 1..Len(taken) : taken'[n] = taken[n]
    BY <1>6, <2>2, TakenType
  <2> QED BY <2>1, <2>3
<1>16. \A t \in Int : (Excused(t) => Excused(t)') /\ (CutTwice(t) => CutTwice(t)')
  BY <1>2, <1>6, <1>13, <1>15, StaysExcused
\* Where a tag of the longer stream may lie
<1>17. ASSUME NEW t \in TagsIn(sent'), t <= Len(h) + Len(a)
       PROVE  \/ t \in TagsIn(sent) /\ t <= Len(h)
              \/ t - Len(h) \in TagsIn(w) /\ HasTag(w) /\ a = w
              \/ /\ t - Len(h) \in TagsIn(w \o c) /\ ~TagIsCut(w, c)
                 /\ t - Len(h) <= Len(w) /\ (t - Len(h)) + TagLen - 1 > Len(w)
  <2>1. t \in Nat /\ t >= 1
    BY <1>10, TagEnds
  <2>2. t + TagLen - 1 <= Len(sent) => t \in TagsIn(sent)
    <3>1. t \in TagsIn(sent \o c)
      BY <1>8
    <3> QED BY <1>1, <1>10, <3>1, TagOfBoth
  <2>3. CASE t <= Len(h)
    <3>1. t + TagLen - 1 <= Len(sent)
      BY <1>1, <1>3, <1>10, <2>1, <2>3
    <3> QED BY <2>2, <2>3, <3>1
  <2>4. CASE t > Len(h)
    <3>1. t - Len(h) \in TagsIn(w \o c)
      <4>1. t \in TagsIn(h \o (w \o c)) /\ w \o c \in Seq(Bytes)
        BY <1>2, <1>10
      <4> QED BY <1>1, <2>4, <4>1, TagOfBoth
    <3>2. CASE t + TagLen - 1 <= Len(sent)
      <4>1. t - Len(h) \in TagsIn(w)
        <5>1. t \in TagsIn(h \o w)
          BY <1>1, <2>2, <3>2
        <5> QED BY <1>1, <2>4, <5>1, TagOfBoth
      <4>2. HasTag(w)
        BY <1>1, <4>1, HasTagIff
      <4>3. ~TagIsCut(w, c)
        BY <4>2 DEF TagIsCut
      <4> QED BY <1>11, <4>1, <4>2, <4>3
    <3>3. CASE ~(t + TagLen - 1 <= Len(sent))
      <4>1. t - Len(h) <= Len(w) /\ (t - Len(h)) + TagLen - 1 > Len(w)
        BY <1>1, <1>10, <1>11, <1>12, <1>17, <2>1, <3>3, SMTT(30)
      <4>2. ~TagIsCut(w, c)
        <5>1. SUFFICES ASSUME TagIsCut(w, c)  PROVE FALSE
          OBVIOUS
        <5>2. HasTag(w \o c) /\ Len(a) = TagIndex(w \o c)
          BY <1>11, <5>1 DEF TagIsCut
        <5>3. Len(a) + 1 <= t - Len(h)
          BY <1>10, <3>1, <5>2, TagIndexIs
        <5> QED BY <1>10, <1>12, <1>17, <2>1, <5>3
      <4> QED BY <3>1, <4>1, <4>2
    <3> QED BY <3>2, <3>3
  <2> QED BY <1>10, <2>1, <2>3, <2>4
<1>18. ASSUME NEW t \in TagsIn(sent'), t <= Len(h) + Len(a)  PROVE Excused(t)'
  <2>1. t \in Nat /\ Len(h) + (t - Len(h)) = t
    BY <1>10, TagEnds
  <2>2. \A y \in TagsIn(w \o c) : Len(h) + y \in TagsIn(sent')
    BY <1>1, <1>2, <1>10, TagsStay
  <2>3. CASE t \in TagsIn(sent) /\ t <= Len(h)
    BY <1>4, <1>13, <1>16, <2>3
  <2> DEFINE x == t - Len(h)
  <2>4. CASE x \in TagsIn(w) /\ a = w
    <3>1. \A y \in TagsIn(w) : Len(h) + y \in TagsIn(sent')
      BY <1>1, <2>2, TagsStay
    <3>2. x \in TagsIn(w) /\ taken' = TakenWith(h, taken, w) /\ t = Len(h) + x /\ t \in Int
      BY <1>2, <2>1, <2>4
    <3> HIDE DEF x
    <3> QED BY <1>1, <1>3, <1>6, <3>1, <3>2, WindowTags
  <2>5. CASE /\ x \in TagsIn(w \o c) /\ ~TagIsCut(w, c)
             /\ x <= Len(w) /\ x + TagLen - 1 > Len(w)
    <3>1. PICK y \in TagsIn(w \o c) : y # x /\ y - x \in -Reach..Reach
      BY <1>1, <1>3, <2>5, HiddenByAnother
    <3>2. y \in Nat
      BY <1>10, TagEnds
    <3>3. Len(h) + y # t /\ (Len(h) + y) - t = y - x
      BY <1>10, <2>1, <3>1, <3>2
    <3>4. Crowded(t)'
      BY <2>2, <3>1, <3>3 DEF Crowded, Reach
    <3> QED BY <3>4 DEF Excused
  <2> QED BY <1>17, <1>18, <2>3, <2>4, <2>5
<1>19. ASSUME taken' = <<>>, ~HasTag(r), NEW t \in TagsIn(sent'), t <= Len(h) + Len(a)
       PROVE  CutTwice(t)'
  <2>1. h \in Seq(Bytes) /\ a \in Seq(Bytes) /\ TakenWith(h, taken, a) = <<>>
    BY <1>1, <1>2, <1>11, <1>19
  <2>2. ~HasTag(a) /\ taken = <<>>
    BY <1>6, <2>1, NothingTaken
  <2>3. ~TagIsCut(w, c) /\ a = w /\ r = c
    BY <1>11, <1>19
  <2>4. ~HasTag(w) /\ ~HasTag(w \o c)
    BY <1>19, <2>2, <2>3 DEF TagIsCut
  <2>5. TagsIn(w \o c) = {}
    BY <1>10, <2>4, HasTagIff
  <2>6. t \in TagsIn(sent) /\ t <= Len(h)
    BY <1>17, <1>19, <2>4, <2>5
  <2> QED BY <1>5, <1>13, <1>16, <2>2, <2>4, <2>6
<1>20. TagsInv'
  BY <1>2, <1>12, <1>18, <1>19 DEF TagsInv
<1> QED BY <1>14, <1>20

\* At the end the window is saved as it is.
LEMMA CloseTags ==
  ASSUME TypeInv, WindowInv, TagsInv, Close
  PROVE  outcome' # "open" /\ ClosedInv'
<1> DEFINE h == Saved
           w == window
<1>1. /\ outcome = "open" /\ outcome' \in {"ok", "ValueError"}
      /\ outcome' = "ValueError" <=> expect_start_tag' /\ ~start_tag_found'
      /\ sent' = sent /\ ends' = ends /\ taken' = TakenWith(h, taken, w)
  BY CloseStep
<1>2. /\ h \in Seq(Bytes) /\ w \in Seq(Bytes) /\ sent = h \o w /\ Len(sent) = Len(h) + Len(w)
  BY <1>1, SavedAndWindow
<1>3. Len(w) <= TagLen - 1 + MaxChunk
  BY DEF WindowInv
<1>4. \A t \in TagsIn(sent) : t <= Len(h) => Excused(t)
  BY DEF TagsInv
<1>5. taken = <<>> => HasTag(w) \/ \A t \in TagsIn(sent) : t <= Len(h) => CutTwice(t)
  BY DEF TagsInv
<1>6. taken \in Seq(Nat) /\ start_tag_found' <=> taken' # <<>>
  BY TypeClose DEF TypeInv, FileTypeOK
<1> HIDE DEF h, w
<1>7. sent \in Seq(Bytes) /\ Len(h) \in Nat /\ \A t \in TagsIn(sent) : t \in Int
  BY <1>2, ConcatProperties, LenProperties, TagsFinite
<1>8. taken \in Seq(Nat) /\ Len(taken) \in Nat
  BY LenProperties DEF TypeInv
<1>9. Len(taken') \in Nat /\ Len(taken') >= Len(taken)
      /\ \A n \in 1..Len(taken) : taken'[n] = taken[n]
  <2>1. Len(taken') = IF HasTag(w) THEN Len(taken) + 1 ELSE Len(taken)
    BY <1>1, <1>2, <1>8, TakenType
  <2>2. \A n \in 1..Len(taken) : taken'[n] = taken[n]
    BY <1>1, <1>2, <1>8, TakenType
  <2> QED BY <1>8, <2>1, <2>2
<1>10. \A t \in Int : (Excused(t) => Excused(t)') /\ (CutTwice(t) => CutTwice(t)')
  BY <1>1, <1>8, <1>9, StaysExcused
<1>11. ASSUME NEW t \in TagsIn(sent), ~(t <= Len(h))  PROVE t - Len(h) \in TagsIn(w)
  <2>1. t \in Int /\ t > Len(h)
    BY <1>7, <1>11
  <2> QED BY <1>2, <2>1, TagsOfConcat
<1>12. ASSUME NEW t \in TagsIn(sent)  PROVE Excused(t)'
  <2>1. CASE t <= Len(h)
    BY <1>4, <1>7, <1>10, <2>1
  <2>2. CASE ~(t <= Len(h))
    <3> DEFINE x == t - Len(h)
    <3>1. x \in TagsIn(w) /\ t = Len(h) + x /\ t \in Int
      BY <1>7, <1>11, <2>2
    <3>2. \A y \in TagsIn(w) : Len(h) + y \in TagsIn(sent')
      BY <1>1, <1>2, TagsStay
    <3> HIDE DEF x
    <3> QED BY <1>1, <1>2, <1>3, <1>8, <3>1, <3>2, WindowTags
  <2> QED BY <2>1, <2>2
<1>13. ASSUME taken' = <<>>, NEW t \in TagsIn(sent)  PROVE CutTwice(t)'
  <2>1. TakenWith(h, taken, w) = <<>>
    BY <1>1, <1>13
  <2>2. ~HasTag(w) /\ taken = <<>>
    BY <1>2, <1>8, <2>1, NothingTaken
  <2>3. TagsIn(w) = {}
    BY <1>2, <2>2, HasTagIff
  <2>4. t <= Len(h)
    BY <1>11, <2>3
  <2> QED BY <1>5, <1>7, <1>10, <2>2, <2>4
<1>14. outcome' = "ValueError" <=> expect_start_tag' /\ taken' = <<>>
  <2>1. start_tag_found' <=> taken' # <<>>
    BY TypeClose DEF TypeInv, FileTypeOK
  <2> QED BY <1>1, <2>1
<1> QED BY <1>1, <1>12, <1>13, <1>14 DEF ClosedInv

LEMMA TagsStep == IInv /\ [FileNext]_fileVars => IInv'
<1> SUFFICES ASSUME IInv, [FileNext]_fileVars  PROVE IInv'
  OBVIOUS
<1>1. TypeInv /\ SplitInto(Saved, files, taken, Len(NoFiles))
  BY DEF IInv
<1>2. TypeInv' /\ SplitInto(Saved, files, taken, Len(NoFiles))'
  BY <1>1, TypeStep, SplitStep
<1>3. CASE \E chunk \in Chunks : Len(sent) + Len(chunk) <= MaxLen /\ SaveChunk(chunk)
  <2>1. PICK chunk \in Chunks : SaveChunk(chunk)
    BY <1>3
  <2>2. outcome = "open" /\ outcome' = "open"
    BY <2>1 DEF SaveChunk
  <2>3. WindowInv /\ TagsInv
    BY <2>2 DEF IInv
  <2>4. WindowInv' /\ TagsInv'
    <3>1. CASE WindowTooShort(window)
      BY <1>1, <2>1, <2>2, <2>3, <3>1, ShortStepTags
    <3>2. CASE ~WindowTooShort(window)
      BY <1>1, <2>1, <2>2, <2>3, <3>2, LongStepTags
    <3> QED BY <3>1, <3>2
  <2> QED BY <1>2, <2>2, <2>4 DEF IInv
<1>4. CASE Close
  <2>1. WindowInv /\ TagsInv
    BY <1>4 DEF IInv, Close
  <2>2. outcome' # "open" /\ ClosedInv'
    BY <1>1, <1>4, <2>1, CloseTags
  <2> QED BY <1>2, <2>2 DEF IInv
<1>5. CASE UNCHANGED fileVars
  <2>1. /\ WindowInv => WindowInv'
        /\ TagsInv => TagsInv'
        /\ ClosedInv => ClosedInv'
        /\ outcome' = outcome
    BY <1>5 DEF fileVars, WindowInv, TagsInv, ClosedInv, WindowTooShort, Saved, Before, Excused,
       Taken, CutTwice, Crowded
  <2> QED BY <1>2, <2>1 DEF IInv
<1> QED BY <1>3, <1>4, <1>5 DEF FileNext

LEMMA TagsAlways == FileSpec => []IInv
<1>1. FileInit => IInv
  BY TypeInit, SplitInit, OpenInit DEF IInv, FileInit
<1> QED BY <1>1, TagsStep, PTL DEF FileSpec

\* west-zpl.py:103-156: a finished capture has begun a file at every tag, but for those cut twice
\* and those so near another one that it hides them, for chunks of any length.
THEOREM BootsAreSeparated == FileSpec => []BootsSeparated
<1>1. IInv => BootsSeparated
  BY DEF IInv, ClosedInv, Excused, BootsSeparated
<1> QED BY TagsAlways, <1>1, PTL

\* west-zpl.py:142-156: if close() raises ValueError every tag of the stream was cut twice, and it
\* does raise it if a tag is expected and there was none.
THEOREM ErrorIsRight == FileSpec => []ErrorIffNoTag
<1>1. IInv => ErrorIffNoTag
  <2> SUFFICES ASSUME IInv, outcome # "open", expect_start_tag
               PROVE  /\ outcome = "ValueError" => \A t \in TagsIn(sent) : CutTwice(t)
                      /\ TagsIn(sent) = {} => outcome = "ValueError"
    BY DEF ErrorIffNoTag
  <2>1. ClosedInv
    BY DEF IInv
  <2>2. ASSUME TagsIn(sent) = {}  PROVE taken = <<>>
    <3>1. Saved = sent
      BY DEF Saved
    <3>2. \A n \in 1..Len(taken) : taken[n] \in TagsIn(sent)
      BY <3>1 DEF IInv, SplitInto
    <3>3. taken \in Seq(Nat) /\ Len(taken) \in Nat
      BY LenProperties DEF IInv, TypeInv
    <3>4. Len(taken) = 0
      <4>1. ~(1 \in 1..Len(taken))
        BY <2>2, <3>2
      <4> QED BY <3>3, <4>1
    <3> QED BY <3>3, <3>4, NoneTaken
  <2> QED BY <2>1, <2>2 DEF ClosedInv
<1> QED BY TagsAlways, <1>1, PTL
=============================================================================
