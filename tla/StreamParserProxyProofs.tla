--------------------- MODULE StreamParserProxyProofs ---------------------
(***************************************************************************)
(* Proofs about StreamParserProxy, for every tag that read as a header     *)
(* gives a size no smaller than itself, every set of packets, noise and    *)
(* corrupt headers, streams of any length and reads of any size.  The      *)
(* inductive invariant says where in the stream the buffer begins: behind  *)
(* a whole item while the parser is synced, and, if no header is corrupt,  *)
(* never inside a tag.                                                     *)
(***************************************************************************)
EXTENDS StreamParserProxy, FiniteSetTheorems, SequenceTheorems, TLAPS

Bytes == Seq(Nat)

\* What is sent up to item k, and where in the stream item k ends
Sent(is, k) == FlattenSeq(SubSeq(is, 1, k))
Off(is, k)  == Len(Sent(is, k))

\* Packets b were sent after tag t, up to item k.
IsBoot(is, b, t, k) ==
  /\ t \in TagItems(is) /\ k \in t..Len(is)
  /\ b = SubSeq(is, t + 1, k) /\ \A j \in (t + 1)..k : is[j] \in Packets \ {Tag}

\* the tags that end within the first n bytes, and how many there are up to tag t
TagsBy(is, n) == {u \in TagItems(is) : Off(is, u) <= n}
Rank(is, t)   == Cardinality({u \in TagItems(is) : u <= t})

\* The bytes after the first b ones, up to byte r, and where the buffer begins
Window(s, b, r) == SubSeq(s, b + 1, r)
Base  == read - Len(buffer)
Sound == \A n \in DOMAIN items : items[n] \notin Corrupt

\* The packets after reset n are those after tag t, up to item k.
BootAt(n, t, k) ==
  IsBoot(items, out[n], t, k) /\ Off(items, k) <= Base /\ (Sound => Rank(items, t) = n)

TypeInv ==
  /\ items \in Streams /\ WellTagged(items)
  /\ read \in 0..Len(FlattenSeq(items)) /\ buffer \in Seq(Nat) /\ Len(buffer) <= read
  /\ buffer = Window(FlattenSeq(items), Base, read)
  /\ expected_size \in Nat /\ is_synced \in BOOLEAN /\ parsing \in BOOLEAN
  /\ out \in Seq(Seq(Packets))

\* What was yielded, and where a synced parser is: behind the last packet it yielded
BootsInv ==
  /\ \A n \in DOMAIN out : \E t \in TagItems(items), k \in DOMAIN items : BootAt(n, t, k)
  /\ is_synced =>
       /\ out # <<>>
       /\ \E t \in TagItems(items), k \in DOMAIN items :
            BootAt(Len(out), t, k) /\ Off(items, k) = Base
  /\ expected_size # None =>
       is_synced /\ Len(buffer) >= HeaderLen /\ expected_size = SizeOf(buffer)

\* Without corrupt headers no tag was missed, and none is cut by the beginning of the buffer.
TagsInv ==
  Sound =>
    /\ Len(out) = Cardinality(TagsBy(items, Base))
    /\ is_synced \/ out = <<>>
    /\ \A t \in TagItems(items) : Off(items, t - 1) < Base => Off(items, t) <= Base

\* Between two reads there is nothing more to find in the buffer.
DoneInv ==
  ~parsing =>
    /\ ~HasTag(buffer)
    /\ is_synced /\ HeaderKnown => Size >= HeaderLen /\ Len(buffer) < Size

IInv == TypeInv /\ BootsInv /\ TagsInv /\ DoneInv

----------------------------------------------------------------------------
\* Numbers and sequences

LEMMA TagLenPositive == TagLen \in Nat \ {0}
BY TagAssumption, EmptySeq DEF TagLen

\* A piece of a sequence
LEMMA PieceOf ==
  ASSUME NEW S, NEW s \in Seq(S), NEW a \in 1..(Len(s) + 1), NEW b \in 0..Len(s)
  PROVE  /\ SubSeq(s, a, b) \in Seq(S)
         /\ Len(SubSeq(s, a, b)) = IF a <= b THEN b - a + 1 ELSE 0
         /\ \A i \in 1..(b - a + 1) : SubSeq(s, a, b)[i] = s[a + i - 1]
<1>1. Len(s) \in Nat
  BY LenProperties
<1>2. \A i \in a..b : s[i] \in S
  BY <1>1, ElementOfSeq
<1> QED BY <1>1, <1>2, SubSeqProperties

\* The first elements of a sequence
LEMMA FrontOf ==
  ASSUME NEW S, NEW s \in Seq(S), NEW n \in 0..Len(s)
  PROVE  /\ SubSeq(s, 1, n) \in Seq(S) /\ Len(SubSeq(s, 1, n)) = n
         /\ \A i \in 1..n : SubSeq(s, 1, n)[i] = s[i]
<1>1. Len(s) \in Nat
  BY LenProperties
<1>2. 1 \in 1..(Len(s) + 1)
  BY <1>1
<1>3. /\ SubSeq(s, 1, n) \in Seq(S)
      /\ Len(SubSeq(s, 1, n)) = IF 1 <= n THEN n - 1 + 1 ELSE 0
      /\ \A i \in 1..(n - 1 + 1) : SubSeq(s, 1, n)[i] = s[1 + i - 1]
  BY <1>2, PieceOf
<1>4. \A i \in 1..n : i \in 1..(n - 1 + 1) /\ 1 + i - 1 = i
  OBVIOUS
<1>5. (IF 1 <= n THEN n - 1 + 1 ELSE 0) = n
  OBVIOUS
<1> QED BY <1>3, <1>4, <1>5

\* Every set of numbers has a least one.
LEMMA LeastNat ==
  ASSUME NEW S \in SUBSET Nat, S # {}
  PROVE  \E m \in S : \A k \in S : m <= k
<1> DEFINE R == StrictSubsetOrdering(Nat)
           T == {0..k : k \in S}
<1>1. IsWellFoundedOn(R, FiniteSubsetsOf(Nat))
  BY FS_StrictSubsetOrderingWellFounded
<1>2. T \subseteq FiniteSubsetsOf(Nat)
  <2>1. \A k \in S : 0..k \in SUBSET Nat
    OBVIOUS
  <2>2. \A k \in S : IsFiniteSet(0..k)
    BY FS_Interval
  <2> QED BY <2>1, <2>2 DEF FiniteSubsetsOf
<1>3. T # {}
  OBVIOUS
<1>4. ASSUME NEW k \in S, NEW m \in S, k < m  PROVE <<0..k, 0..m>> \in R
  <2>1. 0..k \subseteq 0..m /\ 0..k # 0..m
    <3>1. m \in 0..m /\ m \notin 0..k
      BY <1>4
    <3>2. 0..k \subseteq 0..m
      BY <1>4
    <3> QED BY <3>1, <3>2
  <2>2. 0..k \in SUBSET Nat /\ 0..m \in SUBSET Nat
    OBVIOUS
  <2> QED BY <2>1, <2>2 DEF StrictSubsetOrdering
<1> HIDE DEF R
<1>5. \E x \in T : \A y \in T : ~(<<y, x>> \in R)
  <2> HIDE DEF T
  <2> QED BY <1>1, <1>2, <1>3, WFMin
<1>6. PICK m \in S : \A k \in S : ~(<<0..k, 0..m>> \in R)
  BY <1>5
<1>7. \A k \in S : ~(k < m)
  BY <1>4, <1>6
<1>8. \A k \in S : m <= k
  BY <1>7
<1> QED BY <1>8

\* Induction up to a number, for a set
LEMMA UpTo ==
  ASSUME NEW n \in Nat, NEW G, 0 \in G, \A k \in 0..n : (k < n /\ k \in G) => k + 1 \in G
  PROVE  \A k \in 0..n : k \in G
<1> DEFINE B == {k \in 0..n : k \notin G}
<1>1. SUFFICES ASSUME B # {}  PROVE FALSE
  OBVIOUS
<1>2. B \in SUBSET Nat
  OBVIOUS
<1>3. PICK m \in B : \A k \in B : m <= k
  <2> HIDE DEF B
  <2> QED BY <1>1, <1>2, LeastNat
<1>4. m # 0
  OBVIOUS
<1>5. m - 1 \in 0..n /\ m - 1 < n /\ ~(m <= m - 1) /\ (m - 1) + 1 = m
  BY <1>4
<1>6. m - 1 \in G
  BY <1>3, <1>5
<1>7. (m - 1) + 1 \in G
  BY <1>5, <1>6
<1> QED BY <1>5, <1>7

LEMMA SameLength ==
  ASSUME NEW a \in Nat, NEW b \in Nat, 1..a = 1..b
  PROVE  a = b
<1>1. a <= b
  <2>1. CASE a = 0
    BY <2>1
  <2>2. CASE a # 0
    <3>1. a \in 1..a
      BY <2>2
    <3>2. a \in 1..b
      BY <3>1
    <3> QED BY <3>2
  <2> QED BY <2>1, <2>2
<1>2. b <= a
  <2>1. CASE b = 0
    BY <2>1
  <2>2. CASE b # 0
    <3>1. b \in 1..b
      BY <2>2
    <3>2. b \in 1..a
      BY <3>1
    <3> QED BY <3>2
  <2> QED BY <2>1, <2>2
<1> QED BY <1>1, <1>2

----------------------------------------------------------------------------
\* Where the items lie in the stream

\* How FlattenSeq computes: f[i] is the first i parts of ss put together, up to all k of them.
Puts(f, ss, k) == f = [i \in 1..k |-> IF i = 1 THEN ss[i] ELSE f[i - 1] \o ss[i]]

LEMMA FlattenIs ==
  ASSUME NEW ss, Len(ss) # 0
  PROVE  FlattenSeq(ss) = (CHOOSE f : Puts(f, ss, Len(ss)))[Len(ss)]
BY DEF FlattenSeq, Puts

\* There is such a function, for every number of parts,
LEMMA PutsExists ==
  ASSUME NEW ss \in Seq(Bytes), NEW k \in 0..Len(ss)
  PROVE  \E f : Puts(f, ss, k)
<1> DEFINE G == {m \in Nat : \E f : Puts(f, ss, m)}
<1>1. Len(ss) \in Nat
  BY LenProperties
<1>2. 0 \in G
  <2> DEFINE f == [i \in 1..0 |-> <<>>]
  <2>1. 1..0 = {}
    OBVIOUS
  <2>2. Puts(f, ss, 0)
    BY <2>1 DEF Puts
  <2> QED BY <2>2
<1>3. ASSUME NEW m \in 0..Len(ss), m \in G  PROVE m + 1 \in G
  <2>1. PICK g : Puts(g, ss, m)
    BY <1>3
  <2> DEFINE f == [i \in 1..(m + 1) |-> IF i = 1 THEN ss[i] ELSE g[i - 1] \o ss[i]]
  <2>2. ASSUME NEW i \in 1..(m + 1), i # 1  PROVE f[i - 1] = g[i - 1]
    <3>1. i - 1 \in 1..m /\ i - 1 \in 1..(m + 1)
      BY <2>2
    <3>2. g[i - 1] = IF i - 1 = 1 THEN ss[i - 1] ELSE g[(i - 1) - 1] \o ss[i - 1]
      BY <2>1, <3>1 DEF Puts
    <3>3. f[i - 1] = IF i - 1 = 1 THEN ss[i - 1] ELSE g[(i - 1) - 1] \o ss[i - 1]
      BY <3>1
    <3> QED BY <3>2, <3>3
  <2>3. Puts(f, ss, m + 1)
    BY <2>2 DEF Puts
  <2>4. \E h : Puts(h, ss, m + 1)
    <3> HIDE DEF f
    <3> QED BY <2>3
  <2>5. m + 1 \in Nat
    OBVIOUS
  <2> QED BY <2>4, <2>5
<1>4. \A m \in 0..Len(ss) : m \in G
  <2> HIDE DEF G
  <2> QED BY <1>1, <1>2, <1>3, UpTo
<1> QED BY <1>4

\* and only one: with more parts it is the same on the first ones.
LEMMA PutsUnique ==
  ASSUME NEW ss, NEW k \in Nat, NEW m \in Nat, k <= m,
         NEW f, Puts(f, ss, k), NEW g, Puts(g, ss, m)
  PROVE  \A i \in 1..k : f[i] = g[i]
<1> DEFINE G == {i \in Nat : i = 0 \/ i > k \/ f[i] = g[i]}
<1>1. 0 \in G
  OBVIOUS
<1>2. ASSUME NEW i \in 0..k, i < k, i \in G  PROVE i + 1 \in G
  <2>1. i + 1 \in 1..k /\ i + 1 \in 1..m /\ (i + 1) - 1 = i
    BY <1>2
  <2>2. f[i + 1] = IF i + 1 = 1 THEN ss[i + 1] ELSE f[(i + 1) - 1] \o ss[i + 1]
    BY <2>1 DEF Puts
  <2>3. g[i + 1] = IF i + 1 = 1 THEN ss[i + 1] ELSE g[(i + 1) - 1] \o ss[i + 1]
    BY <2>1 DEF Puts
  <2>4. i + 1 # 1 => f[(i + 1) - 1] = g[(i + 1) - 1]
    BY <1>2, <2>1
  <2>5. f[i + 1] = g[i + 1]
    BY <2>2, <2>3, <2>4
  <2>6. i + 1 \in Nat
    OBVIOUS
  <2> QED BY <2>5, <2>6
<1>3. \A i \in 0..k : i \in G
  <2> HIDE DEF G
  <2> QED BY <1>1, <1>2, UpTo
<1>4. ASSUME NEW i \in 1..k  PROVE f[i] = g[i]
  <2>1. i \in G /\ i # 0 /\ ~(i > k)
    BY <1>3
  <2> QED BY <2>1
<1> QED BY <1>4

\* The first k parts, put together
LEMMA SentIs ==
  ASSUME NEW ss \in Seq(Bytes), NEW k \in 1..Len(ss), NEW f, Puts(f, ss, k)
  PROVE  Sent(ss, k) = f[k]
<1> DEFINE p == SubSeq(ss, 1, k)
           g == CHOOSE h : Puts(h, p, k)
<1>1. Len(ss) \in Nat
  BY LenProperties
<1>2. p \in Seq(Bytes) /\ Len(p) = k /\ \A i \in 1..k : p[i] = ss[i]
  <2>1. 1 \in 1..(Len(ss) + 1) /\ k \in 0..Len(ss)
    BY <1>1
  <2>2. /\ p \in Seq(Bytes) /\ Len(p) = IF 1 <= k THEN k - 1 + 1 ELSE 0
        /\ \A i \in 1..(k - 1 + 1) : p[i] = ss[1 + i - 1]
    BY <2>1, PieceOf
  <2> QED BY <2>2
<1> HIDE DEF p
<1>3. \A h : Puts(h, p, k) <=> Puts(h, ss, k)
  BY <1>2, ZenonT(30) DEF Puts
<1>4. Puts(g, ss, k)
  <2>1. Puts(f, p, k)
    BY <1>3
  <2>2. Puts(g, p, k)
    BY <2>1
  <2> QED BY <1>3, <2>2
<1>5. FlattenSeq(p) = g[k]
  BY <1>2, FlattenIs
<1> HIDE DEF g
<1>6. k \in Nat /\ k <= k /\ k \in 1..k
  BY <1>1
<1>7. \A i \in 1..k : f[i] = g[i]
  BY <1>4, <1>6, PutsUnique
<1> QED BY <1>5, <1>6, <1>7 DEF Sent, p

\* Nothing is sent before the first part, and each part follows the ones before it.
LEMMA SentGrows ==
  ASSUME NEW ss \in Seq(Bytes)
  PROVE  /\ Sent(ss, 0) = <<>>
         /\ \A k \in 1..Len(ss) : /\ Sent(ss, k - 1) \in Seq(Nat)
                                  /\ Sent(ss, k) = Sent(ss, k - 1) \o ss[k]
         /\ \A k \in 0..Len(ss) : Sent(ss, k) \in Seq(Nat)
<1>1. Len(ss) \in Nat
  BY LenProperties
<1>2. Sent(ss, 0) = <<>>
  <2>1. SubSeq(ss, 1, 0) = <<>>
    BY SubSeqEmpty
  <2>2. Len(<<>>) = 0
    BY EmptySeq
  <2> QED BY <2>1, <2>2 DEF Sent, FlattenSeq
<1>3. <<>> \in Seq(Nat)
  BY EmptySeq
<1>4. ASSUME NEW k \in 1..Len(ss), Sent(ss, k - 1) \in Seq(Nat)
      PROVE  Sent(ss, k) = Sent(ss, k - 1) \o ss[k] /\ Sent(ss, k) \in Seq(Nat)
  <2>1. ss[k] \in Seq(Nat)
    BY ElementOfSeq DEF Bytes
  <2>2. k \in 0..Len(ss)
    OBVIOUS
  <2>3. PICK f : Puts(f, ss, k)
    BY <2>2, PutsExists
  <2>4. Sent(ss, k) = f[k]
    BY <2>3, SentIs
  <2>5. f[k] = IF k = 1 THEN ss[k] ELSE f[k - 1] \o ss[k]
    <3>1. k \in 1..k
      BY <1>1
    <3> QED BY <2>3, <3>1 DEF Puts
  <2>6. Sent(ss, k) = Sent(ss, k - 1) \o ss[k]
    <3>1. CASE k = 1
      <4>1. <<>> \o ss[k] = ss[k]
        BY <2>1, ConcatEmptySeq
      <4>2. k - 1 = 0
        BY <3>1
      <4> QED BY <1>2, <2>4, <2>5, <3>1, <4>1, <4>2
    <3>2. CASE k # 1
      <4>1. k - 1 \in 1..Len(ss) /\ k - 1 \in 0..Len(ss) /\ k - 1 \in Nat /\ k \in Nat /\ k - 1 <= k
        BY <1>1, <3>2
      <4>2. PICK g : Puts(g, ss, k - 1)
        BY <4>1, PutsExists
      <4>3. Sent(ss, k - 1) = g[k - 1]
        BY <4>1, <4>2, SentIs
      <4>4. \A i \in 1..(k - 1) : g[i] = f[i]
        BY <4>1, <4>2, <2>3, PutsUnique
      <4>5. g[k - 1] = f[k - 1]
        BY <4>1, <4>4
      <4> QED BY <2>4, <2>5, <3>2, <4>3, <4>5
    <3> QED BY <3>1, <3>2
  <2>7. Sent(ss, k - 1) \o ss[k] \in Seq(Nat)
    BY <1>4, <2>1, ConcatProperties
  <2> QED BY <2>6, <2>7
<1> DEFINE G == {k \in Nat : Sent(ss, k) \in Seq(Nat)}
<1>5. 0 \in G
  BY <1>2, <1>3
<1>6. ASSUME NEW k \in 0..Len(ss), k < Len(ss), k \in G  PROVE k + 1 \in G
  <2>1. k + 1 \in 1..Len(ss) /\ (k + 1) - 1 = k
    BY <1>1, <1>6
  <2>2. Sent(ss, (k + 1) - 1) \in Seq(Nat)
    BY <1>6, <2>1
  <2>3. Sent(ss, k + 1) \in Seq(Nat)
    BY <1>4, <2>1, <2>2
  <2> QED BY <2>3
<1>7. \A k \in 0..Len(ss) : k \in G
  <2> HIDE DEF G
  <2> QED BY <1>1, <1>5, <1>6, UpTo
<1>8. \A k \in 0..Len(ss) : Sent(ss, k) \in Seq(Nat)
  BY <1>7
<1>9. \A k \in 1..Len(ss) : k - 1 \in 0..Len(ss)
  BY <1>1
<1> QED BY <1>2, <1>4, <1>8, <1>9

\* An item takes its length in the stream.
LEMMA OffType ==
  ASSUME NEW is \in Seq(Bytes)
  PROVE  /\ Len(is) \in Nat /\ Off(is, 0) = 0
         /\ \A k \in 0..Len(is) : Off(is, k) \in Nat
         /\ \A k \in 1..Len(is) : /\ k - 1 \in 0..Len(is) /\ k \in 0..Len(is)
                                  /\ is[k] \in Seq(Nat) /\ Len(is[k]) \in Nat
                                  /\ Off(is, k) = Off(is, k - 1) + Len(is[k])
         /\ FlattenSeq(is) \in Seq(Nat) /\ Len(FlattenSeq(is)) = Off(is, Len(is))
<1>1. Len(is) \in Nat
  BY LenProperties
<1>2. Off(is, 0) = 0
  BY SentGrows, EmptySeq DEF Off
<1>3. \A k \in 0..Len(is) : Off(is, k) \in Nat
  BY SentGrows, LenProperties DEF Off
<1>4. ASSUME NEW k \in 1..Len(is)
      PROVE  is[k] \in Seq(Nat) /\ Len(is[k]) \in Nat /\ Off(is, k) = Off(is, k - 1) + Len(is[k])
  <2>1. is[k] \in Seq(Nat)
    BY ElementOfSeq DEF Bytes
  <2>2. Sent(is, k - 1) \in Seq(Nat) /\ Sent(is, k) = Sent(is, k - 1) \o is[k]
    BY SentGrows
  <2>3. Len(Sent(is, k - 1) \o is[k]) = Len(Sent(is, k - 1)) + Len(is[k])
    BY <2>1, <2>2, ConcatProperties
  <2>4. Len(is[k]) \in Nat
    BY <2>1, LenProperties
  <2> QED BY <2>1, <2>2, <2>3, <2>4 DEF Off
<1>5. \A k \in 1..Len(is) : k - 1 \in 0..Len(is) /\ k \in 0..Len(is)
  BY <1>1
<1>6. Sent(is, Len(is)) = FlattenSeq(is)
  BY SubSeqFull DEF Sent
<1>7. FlattenSeq(is) \in Seq(Nat)
  <2>1. Len(is) \in 0..Len(is)
    BY <1>1
  <2> QED BY <1>6, <2>1, SentGrows
<1> QED BY <1>1, <1>2, <1>3, <1>4, <1>5, <1>6, <1>7 DEF Off

\* Later items lie further on.
LEMMA OffGrows ==
  ASSUME NEW is \in Seq(Bytes), NEW j \in 0..Len(is), NEW k \in 0..Len(is), j <= k
  PROVE  Off(is, j) <= Off(is, k)
<1> DEFINE G == {d \in Nat : j + d <= Len(is) => Off(is, j) <= Off(is, j + d)}
<1>1. Len(is) \in Nat /\ Off(is, j) \in Nat
  BY OffType
<1>2. 0 \in G
  <2>1. j + 0 = j
    OBVIOUS
  <2> QED BY <1>1, <2>1
<1>3. ASSUME NEW d \in 0..Len(is), d < Len(is), d \in G  PROVE d + 1 \in G
  <2>1. SUFFICES ASSUME j + (d + 1) <= Len(is)  PROVE Off(is, j) <= Off(is, j + (d + 1))
    OBVIOUS
  <2>2. j + (d + 1) \in 1..Len(is) /\ (j + (d + 1)) - 1 = j + d /\ j + d <= Len(is)
    BY <1>1, <2>1
  <2>3. /\ (j + (d + 1)) - 1 \in 0..Len(is) /\ Len(is[j + (d + 1)]) \in Nat
        /\ Off(is, j + (d + 1)) = Off(is, (j + (d + 1)) - 1) + Len(is[j + (d + 1)])
    BY <2>2, OffType
  <2>4. Off(is, (j + (d + 1)) - 1) \in Nat
    BY <2>3, OffType
  <2>5. Off(is, j + d) \in Nat /\ Off(is, j + (d + 1)) = Off(is, j + d) + Len(is[j + (d + 1)])
    BY <2>2, <2>3, <2>4
  <2>6. Off(is, j) <= Off(is, j + d)
    BY <1>3, <2>2
  <2> QED BY <1>1, <2>3, <2>5, <2>6
<1>4. \A d \in 0..Len(is) : d \in G
  <2> HIDE DEF G
  <2> QED BY <1>1, <1>2, <1>3, UpTo
<1>5. k - j \in 0..Len(is) /\ j + (k - j) = k /\ j + (k - j) <= Len(is)
  BY <1>1
<1>6. k - j \in G
  BY <1>4, <1>5
<1> QED BY <1>5, <1>6

\* What is sent first stays where it is.
LEMMA SentStays ==
  ASSUME NEW is \in Seq(Bytes), NEW j \in 0..Len(is), NEW k \in 0..Len(is), j <= k,
         NEW i \in 1..Off(is, j)
  PROVE  Sent(is, k)[i] = Sent(is, j)[i]
<1> DEFINE G == {d \in Nat : j + d <= Len(is) => Sent(is, j + d)[i] = Sent(is, j)[i]}
<1>1. Len(is) \in Nat /\ Off(is, j) \in Nat
  BY OffType
<1>2. 0 \in G
  <2>1. j + 0 = j
    OBVIOUS
  <2> QED BY <2>1
<1>3. ASSUME NEW d \in 0..Len(is), d < Len(is), d \in G  PROVE d + 1 \in G
  <2>1. SUFFICES ASSUME j + (d + 1) <= Len(is)  PROVE Sent(is, j + (d + 1))[i] = Sent(is, j)[i]
    OBVIOUS
  <2> DEFINE m == j + d
  <2>2. m + 1 \in 1..Len(is) /\ (m + 1) - 1 = m /\ m \in 0..Len(is) /\ j <= m /\ j + (d + 1) = m + 1
    BY <1>1, <2>1
  <2>3. Sent(is, m)[i] = Sent(is, j)[i]
    BY <1>3, <2>2
  <2> HIDE DEF m
  <2>4. Sent(is, (m + 1) - 1) \in Seq(Nat) /\ Sent(is, m + 1) = Sent(is, (m + 1) - 1) \o is[m + 1]
    BY <2>2, SentGrows
  <2>5. Sent(is, m) \in Seq(Nat) /\ Sent(is, m + 1) = Sent(is, m) \o is[m + 1]
    BY <2>2, <2>4
  <2>6. is[m + 1] \in Seq(Nat) /\ Len(is[m + 1]) \in Nat
    BY <2>2, OffType
  <2>7. \A h \in 1..(Len(Sent(is, m)) + Len(is[m + 1])) :
          (Sent(is, m) \o is[m + 1])[h] = IF h <= Len(Sent(is, m)) THEN Sent(is, m)[h]
                                          ELSE is[m + 1][h - Len(Sent(is, m))]
    BY <2>5, <2>6, ConcatProperties
  <2>8. Off(is, j) <= Off(is, m) /\ Off(is, m) \in Nat
    BY <2>2, OffGrows, OffType
  <2>9. i \in 1..(Len(Sent(is, m)) + Len(is[m + 1])) /\ i <= Len(Sent(is, m))
    BY <1>1, <2>6, <2>8 DEF Off
  <2>10. Sent(is, m + 1)[i] = Sent(is, m)[i]
    BY <2>5, <2>7, <2>9
  <2> QED BY <2>2, <2>3, <2>10
<1>4. \A d \in 0..Len(is) : d \in G
  <2> HIDE DEF G
  <2> QED BY <1>1, <1>2, <1>3, UpTo
<1>5. k - j \in 0..Len(is) /\ j + (k - j) = k /\ j + (k - j) <= Len(is)
  BY <1>1
<1>6. k - j \in G
  BY <1>4, <1>5
<1> QED BY <1>5, <1>6

\* The bytes of item k in the stream
LEMMA ItemBytes ==
  ASSUME NEW is \in Seq(Bytes), NEW k \in 1..Len(is), NEW i \in 1..Len(is[k])
  PROVE  /\ Off(is, k - 1) + i \in 1..Len(FlattenSeq(is))
         /\ FlattenSeq(is)[Off(is, k - 1) + i] = is[k][i]
<1>1. /\ Len(is) \in Nat /\ k - 1 \in 0..Len(is) /\ k \in 0..Len(is) /\ Len(is) \in 0..Len(is)
      /\ is[k] \in Seq(Nat) /\ Len(is[k]) \in Nat /\ Off(is, k) = Off(is, k - 1) + Len(is[k])
      /\ Len(FlattenSeq(is)) = Off(is, Len(is))
  BY OffType
<1>2. Off(is, k - 1) \in Nat /\ Off(is, k) \in Nat /\ Off(is, Len(is)) \in Nat
  BY <1>1, OffType
<1>3. Off(is, k) <= Off(is, Len(is))
  BY <1>1, OffGrows
<1>4. /\ Off(is, k - 1) + i \in 1..Off(is, k) /\ Off(is, k - 1) + i \in 1..Len(FlattenSeq(is))
      /\ Off(is, k - 1) + i \in 1..(Off(is, k - 1) + Len(is[k]))
      /\ ~(Off(is, k - 1) + i <= Off(is, k - 1))
      /\ (Off(is, k - 1) + i) - Off(is, k - 1) = i
  BY <1>1, <1>2, <1>3, SMTT(30)
<1>5. Sent(is, k - 1) \in Seq(Nat) /\ Sent(is, k) = Sent(is, k - 1) \o is[k]
  BY SentGrows
<1>6. \A h \in 1..(Off(is, k - 1) + Len(is[k])) :
        Sent(is, k)[h] = IF h <= Off(is, k - 1) THEN Sent(is, k - 1)[h]
                         ELSE is[k][h - Off(is, k - 1)]
  BY <1>1, <1>5, ConcatProperties DEF Off
<1>7. Sent(is, k)[Off(is, k - 1) + i] = is[k][i]
  BY <1>4, <1>6
<1>8. k <= Len(is)
  BY <1>1
<1>9. Sent(is, Len(is))[Off(is, k - 1) + i] = Sent(is, k)[Off(is, k - 1) + i]
  BY <1>1, <1>4, <1>8, SentStays
<1>10. Sent(is, Len(is)) = FlattenSeq(is)
  BY SubSeqFull DEF Sent
<1> QED BY <1>4, <1>7, <1>9, <1>10

----------------------------------------------------------------------------
\* Tags in the stream

\* A tag is there where its bytes are.
LEMMA TagChars ==
  ASSUME NEW s \in Seq(Nat), NEW i \in Int
  PROVE  i \in TagsIn(s) <=> /\ i >= 1 /\ i + TagLen - 1 <= Len(s)
                             /\ \A k \in 1..TagLen : s[i + k - 1] = Tag[k]
<1> DEFINE m == SubSeq(s, i, i + TagLen - 1)
<1>1. Len(s) \in Nat /\ TagLen \in Nat /\ TagLen >= 1
  BY LenProperties, TagLenPositive
<1>2. i \in TagsIn(s) <=> i >= 1 /\ i + TagLen - 1 <= Len(s) /\ m = Tag
  BY <1>1 DEF TagsIn
<1>3. SUFFICES ASSUME i >= 1, i + TagLen - 1 <= Len(s)
               PROVE  m = Tag <=> \A k \in 1..TagLen : s[i + k - 1] = Tag[k]
  BY <1>2
<1>4. i \in 1..(Len(s) + 1) /\ i + TagLen - 1 \in 0..Len(s)
  BY <1>1, <1>3
<1>5. /\ m \in Seq(Nat)
      /\ Len(m) = IF i <= i + TagLen - 1 THEN (i + TagLen - 1) - i + 1 ELSE 0
      /\ \A k \in 1..((i + TagLen - 1) - i + 1) : m[k] = s[i + k - 1]
  BY <1>4, PieceOf
<1>6. Len(m) = TagLen /\ \A k \in 1..TagLen : m[k] = s[i + k - 1]
  BY <1>1, <1>5
<1>7. ASSUME \A k \in 1..TagLen : s[i + k - 1] = Tag[k]  PROVE m = Tag
  <2>1. Len(m) = Len(Tag) /\ \A k \in 1..Len(m) : m[k] = Tag[k]
    BY <1>6, <1>7 DEF TagLen
  <2> QED BY <1>5, <2>1, TagAssumption, SeqEqual
<1> QED BY <1>6, <1>7

\* A tag ends inside the sequence, and there are finitely many.
LEMMA TagEnds ==
  ASSUME NEW s \in Seq(Nat)
  PROVE  /\ \A i \in TagsIn(s) : i \in Nat /\ i >= 1 /\ i + TagLen - 1 <= Len(s)
         /\ IsFiniteSet(TagsIn(s))
<1>1. Len(s) \in Nat /\ TagLen \in Nat /\ TagLen >= 1
  BY LenProperties, TagLenPositive
<1>2. TagsIn(s) \subseteq 1..Len(s)
  BY <1>1 DEF TagsIn
<1>3. IsFiniteSet(1..Len(s))
  BY <1>1, FS_Interval
<1>4. IsFiniteSet(TagsIn(s))
  BY <1>2, <1>3, FS_Subset
<1> QED BY <1>1, <1>4 DEF TagsIn

\* A window of the stream
LEMMA WindowType ==
  ASSUME NEW s \in Seq(Nat), NEW b \in Nat, NEW r \in Nat, b <= r, r <= Len(s),
         NEW w, w = Window(s, b, r)
  PROVE  w \in Seq(Nat) /\ Len(w) = r - b /\ \A i \in 1..(r - b) : w[i] = s[b + i]
<1>1. Len(s) \in Nat
  BY LenProperties
<1>2. b + 1 \in 1..(Len(s) + 1) /\ r \in 0..Len(s)
  BY <1>1
<1>3. /\ w \in Seq(Nat) /\ Len(w) = IF b + 1 <= r THEN r - (b + 1) + 1 ELSE 0
      /\ \A i \in 1..(r - (b + 1) + 1) : w[i] = s[(b + 1) + i - 1]
  BY <1>2, PieceOf DEF Window
<1> QED BY <1>1, <1>3

LEMMA WindowByte ==
  ASSUME NEW s \in Seq(Nat), NEW b \in Nat, NEW r \in Nat, b <= r, r <= Len(s),
         NEW w, w = Window(s, b, r), NEW i \in 1..(r - b)
  PROVE  w[i] = s[b + i]
BY WindowType, ZenonT(30)

\* Its tags are the tags of the stream in it.
LEMMA WindowTags ==
  ASSUME NEW s \in Seq(Nat), NEW b \in Nat, NEW r \in Nat, b <= r, r <= Len(s),
         NEW w, w = Window(s, b, r), NEW i \in 0..(Len(w) - TagLen)
  PROVE  SubSeq(w, i + 1, i + TagLen) = Tag <=> (b + i) + 1 \in TagsIn(s)
<1>1. Len(s) \in Nat /\ TagLen \in Nat /\ TagLen >= 1
  BY LenProperties, TagLenPositive
<1>2. w \in Seq(Nat) /\ Len(w) = r - b /\ \A k \in 1..(r - b) : w[k] = s[b + k]
  BY WindowType, ZenonT(30)
<1>3. SubSeq(w, i + 1, i + TagLen) = Tag <=> i + 1 \in TagsIn(w)
  <2>1. (i + 1) + TagLen - 1 = i + TagLen /\ i + 1 \in 1..(Len(w) - TagLen + 1)
    BY <1>1, <1>2
  <2> QED BY <2>1 DEF TagsIn
<1>4. i + 1 \in Int /\ (b + i) + 1 \in Int
  BY <1>1, <1>2
<1>5. i + 1 \in TagsIn(w) <=> /\ i + 1 >= 1 /\ (i + 1) + TagLen - 1 <= Len(w)
                              /\ \A k \in 1..TagLen : w[(i + 1) + k - 1] = Tag[k]
  BY <1>2, <1>4, TagChars
<1>6. (b + i) + 1 \in TagsIn(s) <=>
        /\ (b + i) + 1 >= 1 /\ ((b + i) + 1) + TagLen - 1 <= Len(s)
        /\ \A k \in 1..TagLen : s[((b + i) + 1) + k - 1] = Tag[k]
  BY <1>4, TagChars
<1>7. /\ i + 1 >= 1 /\ (i + 1) + TagLen - 1 <= Len(w)
      /\ (b + i) + 1 >= 1 /\ ((b + i) + 1) + TagLen - 1 <= Len(s)
  BY <1>1, <1>2
<1>8. ASSUME NEW k \in 1..TagLen  PROVE w[(i + 1) + k - 1] = s[((b + i) + 1) + k - 1]
  <2>1. (i + 1) + k - 1 \in 1..(r - b) /\ b + ((i + 1) + k - 1) = ((b + i) + 1) + k - 1
    BY <1>1, <1>2
  <2> QED BY <1>2, <2>1
<1> QED BY <1>3, <1>5, <1>6, <1>7, <1>8

\* A window without a tag holds no tag of the stream.
LEMMA NoTagInWindow ==
  ASSUME NEW s \in Seq(Nat), NEW b \in Nat, NEW r \in Nat, b <= r, r <= Len(s),
         NEW w, w = Window(s, b, r), ~HasTag(w),
         NEW j \in TagsIn(s), j > b
  PROVE  j + TagLen - 1 > r
<1>1. TagLen \in Nat /\ j \in Nat
  BY TagLenPositive, TagEnds
<1>2. w \in Seq(Nat) /\ Len(w) = r - b
  BY WindowType
<1>3. SUFFICES ASSUME j + TagLen - 1 <= r  PROVE FALSE
  BY <1>1
<1> DEFINE i == (j - b) - 1
<1>4. i \in 0..(Len(w) - TagLen) /\ (b + i) + 1 = j
  BY <1>1, <1>2, <1>3
<1> HIDE DEF i
<1>5. (b + i) + 1 \in TagsIn(s)
  BY <1>4
<1>6. SubSeq(w, i + 1, i + TagLen) = Tag
  BY <1>4, <1>5, WindowTags
<1> QED BY <1>4, <1>6 DEF HasTag

\* find() finds the first tag of the window.
LEMMA FirstTagInWindow ==
  ASSUME NEW s \in Seq(Nat), NEW b \in Nat, NEW r \in Nat, b <= r, r <= Len(s),
         NEW w, w = Window(s, b, r), HasTag(w)
  PROVE  /\ TagIndex(w) \in Nat /\ b + TagIndex(w) + TagLen <= r
         /\ b + TagIndex(w) + 1 \in TagsIn(s)
         /\ \A j \in TagsIn(s) : j > b => j >= b + TagIndex(w) + 1
<1>1. TagLen \in Nat /\ TagLen >= 1
  BY TagLenPositive
<1>2. w \in Seq(Nat) /\ Len(w) = r - b
  BY WindowType
<1> DEFINE S == {i \in 0..(Len(w) - TagLen) : SubSeq(w, i + 1, i + TagLen) = Tag}
           Is(i) == /\ SubSeq(w, i + 1, i + TagLen) = Tag
                    /\ \A h \in 0..(i - 1) : SubSeq(w, h + 1, h + TagLen) # Tag
<1>3. S \in SUBSET Nat /\ S # {}
  <2>1. PICK i \in 0..(Len(w) - TagLen) : SubSeq(w, i + 1, i + TagLen) = Tag
    BY DEF HasTag
  <2>2. i \in S
    BY <2>1
  <2>3. 0..(Len(w) - TagLen) \subseteq Nat
    BY <1>1, <1>2
  <2> QED BY <2>2, <2>3
<1>4. PICK m \in S : \A k \in S : m <= k
  <2> HIDE DEF S
  <2> QED BY <1>3, LeastNat
<1>5. m \in 0..(Len(w) - TagLen) /\ Is(m)
  <2>1. ASSUME NEW h \in 0..(m - 1), SubSeq(w, h + 1, h + TagLen) = Tag  PROVE FALSE
    <3>1. h \in 0..(Len(w) - TagLen) /\ ~(m <= h)
      BY <1>1, <1>2
    <3>2. h \in S
      BY <2>1, <3>1
    <3> QED BY <1>4, <3>1, <3>2
  <2> QED BY <2>1
<1>6. TagIndex(w) = CHOOSE i \in 0..(Len(w) - TagLen) : Is(i)
  BY DEF TagIndex
<1> HIDE DEF Is
<1> DEFINE x == TagIndex(w)
<1>7. x \in 0..(Len(w) - TagLen) /\ Is(x)
  BY <1>5, <1>6
<1> HIDE DEF x
<1>8. SubSeq(w, x + 1, x + TagLen) = Tag /\ \A h \in 0..(x - 1) : SubSeq(w, h + 1, h + TagLen) # Tag
  BY <1>7 DEF Is
<1>9. (b + x) + 1 \in TagsIn(s)
  BY <1>7, <1>8, WindowTags
<1>10. ASSUME NEW j \in TagsIn(s), j > b  PROVE j >= b + x + 1
  <2>1. SUFFICES ASSUME ~(j >= b + x + 1)  PROVE FALSE
    OBVIOUS
  <2>2. j \in Nat
    BY TagEnds
  <2> DEFINE h == (j - b) - 1
  <2>3. h \in 0..(x - 1) /\ h \in 0..(Len(w) - TagLen) /\ (b + h) + 1 = j
    BY <1>1, <1>2, <1>7, <1>10, <2>1, <2>2
  <2> HIDE DEF h
  <2>4. (b + h) + 1 \in TagsIn(s)
    BY <2>3
  <2>5. SubSeq(w, h + 1, h + TagLen) = Tag
    BY <2>3, <2>4, WindowTags
  <2> QED BY <1>8, <2>3, <2>5
<1>11. x \in Nat /\ b + x + TagLen <= r
  BY <1>1, <1>2, <1>7
<1>12. b + x + 1 \in TagsIn(s)
  <2>1. b + x + 1 = (b + x) + 1
    OBVIOUS
  <2> QED BY <1>9, <2>1
<1> QED BY <1>10, <1>11, <1>12 DEF x

\* The streams: the noise first, then tags, packets and corrupt headers
LEMMA StreamType ==
  ASSUME NEW is \in Streams
  PROVE  /\ is \in Seq(Bytes) /\ Len(is) >= 1
         /\ \A k \in 2..Len(is) : is[k] \in Items
<1>1. PICK noise \in [1..1 -> Noise], rest \in BoundedSeq(Items, MaxItems) : is = noise \o rest
  BY DEF Streams
<1>2. Noise \subseteq Bytes /\ MaxItems \in Nat
  BY StreamAssumption DEF Bytes
<1>3. Items \subseteq Bytes
  BY StreamAssumption, TagAssumption DEF Items, Bytes
<1>4. rest \in Seq(Items)
  BY <1>1, <1>2, SeqDef DEF BoundedSeq, SeqOf
<1>5. rest \in Seq(Bytes) /\ Len(rest) \in Nat
  BY <1>3, <1>4, SeqMonotonic, LenProperties
<1>6. noise \in Seq(Bytes) /\ Len(noise) = 1
  <2>1. noise \in [1..1 -> Bytes]
    BY <1>2
  <2>2. noise \in Seq(Bytes)
    <3>1. \A n \in Nat : [1..n -> Bytes] \subseteq Seq(Bytes)
      BY SeqDef
    <3>2. [1..1 -> Bytes] \subseteq Seq(Bytes)
      <4>1. 1 \in Nat
        OBVIOUS
      <4> QED BY <3>1, <4>1
    <3> QED BY <2>1, <3>2
  <2>3. Len(noise) \in Nat /\ 1..Len(noise) = 1..1
    <3>1. DOMAIN noise = 1..1
      BY <2>1
    <3> QED BY <2>2, <3>1, LenProperties
  <2> QED BY <2>2, <2>3, SameLength
<1>7. /\ is \in Seq(Bytes) /\ Len(is) = 1 + Len(rest)
      /\ \A k \in 1..(1 + Len(rest)) : is[k] = IF k <= 1 THEN noise[k] ELSE rest[k - 1]
  <2>1. /\ noise \o rest \in Seq(Bytes) /\ Len(noise \o rest) = Len(noise) + Len(rest)
        /\ \A k \in 1..(Len(noise) + Len(rest)) :
             (noise \o rest)[k] = IF k <= Len(noise) THEN noise[k] ELSE rest[k - Len(noise)]
    BY <1>5, <1>6, ConcatProperties
  <2> QED BY <1>1, <1>6, <2>1
<1>8. ASSUME NEW k \in 2..Len(is)  PROVE is[k] \in Items
  <2>1. k \in 1..(1 + Len(rest)) /\ ~(k <= 1) /\ k - 1 \in 1..Len(rest)
    BY <1>5, <1>7
  <2>2. is[k] = rest[k - 1]
    BY <1>7, <2>1
  <2>3. rest[k - 1] \in Items
    BY <1>4, <2>1, ElementOfSeq
  <2> QED BY <2>2, <2>3
<1> QED BY <1>5, <1>7, <1>8

\* Every item behind the noise is as long as a header or longer.
LEMMA ItemTypes ==
  ASSUME NEW i \in Items
  PROVE  /\ i \in Seq(Nat) /\ Len(i) >= HeaderLen
         /\ i \in Packets => SizeOf(i) = Len(i)
         /\ i \in Corrupt => SizeOf(i) < HeaderLen
         /\ i = Tag => Len(i) = TagLen /\ SizeOf(i) >= TagLen
<1>1. i \in Packets => i \in Seq(Nat) /\ Len(i) >= HeaderLen /\ SizeOf(i) = Len(i)
  BY StreamAssumption
<1>2. i \in Corrupt => i \in Seq(Nat) /\ Len(i) >= HeaderLen /\ SizeOf(i) < HeaderLen
  BY StreamAssumption
<1>3. i = Tag => i \in Seq(Nat) /\ Len(i) = TagLen /\ Len(i) >= HeaderLen /\ SizeOf(i) >= TagLen
  BY TagAssumption, TagAsHeader DEF TagLen
<1>4. i \in Packets \/ i \in Corrupt \/ i = Tag
  BY DEF Items
<1> QED BY <1>1, <1>2, <1>3, <1>4

LEMMA TagItemType ==
  ASSUME NEW is \in Seq(Bytes)
  PROVE  /\ TagItems(is) \subseteq 1..Len(is) /\ IsFiniteSet(TagItems(is))
         /\ \A n : IsFiniteSet(TagsBy(is, n)) /\ Cardinality(TagsBy(is, n)) \in Nat
         /\ \A t : IsFiniteSet({u \in TagItems(is) : u <= t}) /\ Rank(is, t) \in Nat
<1>1. Len(is) \in Nat /\ DOMAIN is = 1..Len(is)
  BY LenProperties
<1>2. TagItems(is) \subseteq 1..Len(is)
  BY <1>1 DEF TagItems
<1>3. IsFiniteSet(TagItems(is))
  <2>1. IsFiniteSet(1..Len(is))
    BY <1>1, FS_Interval
  <2> QED BY <1>2, <2>1, FS_Subset
<1>4. \A n : IsFiniteSet(TagsBy(is, n)) /\ Cardinality(TagsBy(is, n)) \in Nat
  <2> TAKE n
  <2>1. TagsBy(is, n) \subseteq TagItems(is)
    BY DEF TagsBy
  <2> QED BY <1>3, <2>1, FS_Subset, FS_CardinalityType
<1>5. \A t : IsFiniteSet({u \in TagItems(is) : u <= t}) /\ Rank(is, t) \in Nat
  <2> TAKE t
  <2>1. {u \in TagItems(is) : u <= t} \subseteq TagItems(is)
    OBVIOUS
  <2> QED BY <1>3, <2>1, FS_Subset, FS_CardinalityType DEF Rank
<1> QED BY <1>2, <1>3, <1>4, <1>5

\* A tag among the items takes its place in the stream.
LEMMA TagItemPlace ==
  ASSUME NEW is \in Seq(Bytes), NEW t \in TagItems(is)
  PROVE  /\ t \in 1..Len(is) /\ t - 1 \in 0..Len(is) /\ t \in 0..Len(is)
         /\ Off(is, t - 1) \in Nat /\ Off(is, t) \in Nat
         /\ Off(is, t) = Off(is, t - 1) + TagLen
         /\ Off(is, t - 1) + 1 \in TagsIn(FlattenSeq(is))
<1>1. Len(is) \in Nat /\ DOMAIN is = 1..Len(is) /\ TagLen \in Nat /\ TagLen >= 1
  BY LenProperties, TagLenPositive
<1>2. t \in 1..Len(is) /\ t - 1 \in 0..Len(is) /\ t \in 0..Len(is) /\ is[t] = Tag
  BY <1>1 DEF TagItems
<1>3. Off(is, t) = Off(is, t - 1) + TagLen
  BY <1>2, OffType DEF TagLen
<1>4. /\ Off(is, t - 1) \in Nat /\ Off(is, t) \in Nat /\ Off(is, Len(is)) \in Nat
      /\ FlattenSeq(is) \in Seq(Nat) /\ Len(FlattenSeq(is)) = Off(is, Len(is))
  <2>1. Len(is) \in 0..Len(is)
    BY <1>1
  <2> QED BY <1>2, <2>1, OffType
<1>5. Off(is, t) <= Off(is, Len(is))
  <2>1. Len(is) \in 0..Len(is) /\ t <= Len(is)
    BY <1>1, <1>2
  <2> QED BY <1>2, <2>1, OffGrows
<1>6. ASSUME NEW k \in 1..TagLen  PROVE FlattenSeq(is)[(Off(is, t - 1) + 1) + k - 1] = Tag[k]
  <2>1. k \in 1..Len(is[t])
    BY <1>2 DEF TagLen
  <2>2. FlattenSeq(is)[Off(is, t - 1) + k] = is[t][k]
    BY <1>2, <2>1, ItemBytes
  <2>3. (Off(is, t - 1) + 1) + k - 1 = Off(is, t - 1) + k
    BY <1>4
  <2> QED BY <1>2, <2>2, <2>3
<1>7. /\ Off(is, t - 1) + 1 \in Int /\ Off(is, t - 1) + 1 >= 1
      /\ (Off(is, t - 1) + 1) + TagLen - 1 <= Len(FlattenSeq(is))
  BY <1>1, <1>3, <1>4, <1>5
<1>8. Off(is, t - 1) + 1 \in TagsIn(FlattenSeq(is))
  BY <1>4, <1>6, <1>7, TagChars
<1> QED BY <1>2, <1>3, <1>4, <1>8

\* Tags in the order of the items
LEMMA TagOrder ==
  ASSUME NEW is \in Seq(Bytes), NEW t \in TagItems(is), NEW k \in 0..Len(is)
  PROVE  /\ k < t => Off(is, k) <= Off(is, t - 1) /\ Off(is, k) < Off(is, t)
         /\ t <= k => Off(is, t) <= Off(is, k)
         /\ Off(is, t) <= Off(is, k) <=> t <= k
<1>1. /\ t \in 1..Len(is) /\ t - 1 \in 0..Len(is) /\ t \in 0..Len(is)
      /\ Off(is, t - 1) \in Nat /\ Off(is, t) \in Nat /\ Off(is, t) = Off(is, t - 1) + TagLen
  BY TagItemPlace
<1>2. Off(is, k) \in Nat /\ TagLen \in Nat /\ TagLen >= 1
  BY OffType, TagLenPositive
<1>3. ASSUME k < t  PROVE Off(is, k) <= Off(is, t - 1) /\ Off(is, k) < Off(is, t)
  <2>1. k <= t - 1
    BY <1>1, <1>3
  <2>2. Off(is, k) <= Off(is, t - 1)
    BY <1>1, <2>1, OffGrows
  <2> QED BY <1>1, <1>2, <2>2
<1>4. t <= k => Off(is, t) <= Off(is, k)
  BY <1>1, OffGrows
<1>5. t <= k \/ k < t
  BY <1>1
<1>6. ~(Off(is, k) < Off(is, t) /\ Off(is, t) <= Off(is, k))
  BY <1>1, <1>2
<1>7. ~(k < t /\ t <= k)
  BY <1>1
<1> QED BY <1>3, <1>4, <1>5, <1>6, <1>7

\* No tag comes about by chance: every tag in the stream is one of the items.
LEMMA TagPlaces ==
  ASSUME NEW is \in Seq(Bytes), WellTagged(is), NEW i \in TagsIn(FlattenSeq(is))
  PROVE  \E t \in TagItems(is) : i = Off(is, t - 1) + 1
<1> DEFINE f == [t \in TagItems(is) |-> Off(is, t - 1) + 1]
           P == TagsIn(FlattenSeq(is))
<1>1. f \in [TagItems(is) -> P]
  BY TagItemPlace
<1>2. ASSUME NEW t \in TagItems(is), NEW u \in TagItems(is), t < u  PROVE f[t] # f[u]
  <2>1. /\ t \in 0..Len(is) /\ Off(is, t) \in Nat /\ Off(is, t - 1) \in Nat
        /\ Off(is, t) = Off(is, t - 1) + TagLen
    BY TagItemPlace
  <2>2. Off(is, u - 1) \in Nat
    BY TagItemPlace
  <2>3. Off(is, t) <= Off(is, u - 1)
    BY <1>2, <2>1, TagOrder
  <2>4. TagLen \in Nat /\ TagLen >= 1
    BY TagLenPositive
  <2> QED BY <2>1, <2>2, <2>3, <2>4
<1>3. f \in Injection(TagItems(is), P)
  <2>1. ASSUME NEW t \in TagItems(is), NEW u \in TagItems(is), f[t] = f[u]  PROVE t = u
    <3>1. t \in Nat /\ u \in Nat
      BY TagItemPlace
    <3>2. ~(t < u) /\ ~(u < t)
      <4> HIDE DEF f
      <4> QED BY <1>2, <2>1
    <3> QED BY <3>1, <3>2
  <2> HIDE DEF f, P
  <2> QED BY <1>1, <2>1 DEF Injection, IsInjective
<1>4. IsFiniteSet(P) /\ Cardinality(TagItems(is)) = Cardinality(P)
  <2>1. IsFiniteSet(P)
    BY OffType, TagEnds
  <2>2. Cardinality(P) = Cardinality({n \in DOMAIN is : is[n] = Tag})
    BY DEF WellTagged
  <2> QED BY <2>1, <2>2 DEF TagItems
<1>5. f \in Surjection(TagItems(is), P)
  <2> HIDE DEF f, P
  <2> QED BY <1>3, <1>4, FS_Injection
<1>6. \E t \in TagItems(is) : f[t] = i
  BY <1>5 DEF Surjection
<1> QED BY <1>6

----------------------------------------------------------------------------
\* What lies behind a whole item

\* The header there is that of the next item, if there is one.
LEMMA HeaderIs ==
  ASSUME NEW is \in Streams, NEW k \in 1..Len(is), NEW r \in Nat,
         Off(is, k) <= r, r <= Len(FlattenSeq(is)),
         NEW w, w = Window(FlattenSeq(is), Off(is, k), r), Len(w) >= 1
  PROVE  /\ k + 1 \in 1..Len(is) /\ is[k + 1] \in Items
         /\ Off(is, k + 1) = Off(is, k) + Len(is[k + 1])
         /\ Len(w) >= HeaderLen => SizeOf(w) = SizeOf(is[k + 1])
         /\ Len(w) >= Len(is[k + 1]) => FirstBytes(w, Len(is[k + 1])) = is[k + 1]
<1> DEFINE S == FlattenSeq(is)
           b == Off(is, k)
           i == is[k + 1]
<1>1. /\ is \in Seq(Bytes) /\ Len(is) \in Nat /\ S \in Seq(Nat) /\ Len(S) = Off(is, Len(is))
      /\ b \in Nat
  BY StreamType, OffType
<1>2. w \in Seq(Nat) /\ Len(w) = r - b /\ \A j \in 1..(r - b) : w[j] = S[b + j]
  <2>1. w = Window(S, b, r) /\ b <= r /\ r <= Len(S)
    OBVIOUS
  <2>2. S \in Seq(Nat) /\ b \in Nat /\ r \in Nat
    BY <1>1
  <2> HIDE DEF S, b
  <2>3. w \in Seq(Nat) /\ Len(w) = r - b
    BY <2>1, <2>2, WindowType
  <2>4. ASSUME NEW j \in 1..(r - b)  PROVE w[j] = S[b + j]
    BY <2>1, <2>2, WindowByte, SMTT(30)
  <2> QED BY <2>3, <2>4
<1>3. k # Len(is)
  BY <1>1, <1>2
<1>4. k + 1 \in 1..Len(is) /\ k + 1 \in 2..Len(is) /\ (k + 1) - 1 = k
  BY <1>1, <1>3
<1>5. i \in Items
  BY <1>4, StreamType
<1>6. i \in Seq(Nat) /\ Len(i) >= HeaderLen /\ Len(i) \in Nat
  BY <1>5, ItemTypes, LenProperties
<1>7. Off(is, k + 1) = Off(is, (k + 1) - 1) + Len(i)
  BY <1>1, <1>4, OffType
<1>8. ASSUME NEW j \in 1..Len(i)  PROVE S[b + j] = i[j]
  <2>1. S[Off(is, (k + 1) - 1) + j] = i[j]
    BY <1>1, <1>4, ItemBytes
  <2> QED BY <2>1, <1>4
<1> HIDE DEF i, b, S
<1>9. ASSUME Len(w) >= HeaderLen  PROVE SizeOf(w) = SizeOf(i)
  <2>1. 2 \in 1..(r - b) /\ 2 \in 1..Len(i)
    BY <1>1, <1>2, <1>6, <1>9 DEF HeaderLen
  <2>2. w[2] = i[2]
    BY <1>2, <1>8, <2>1
  <2> QED BY <2>2 DEF SizeOf
<1>10. ASSUME Len(w) >= Len(i)  PROVE FirstBytes(w, Len(i)) = i
  <2>1. Len(i) \in 0..Len(w)
    BY <1>1, <1>2, <1>6, <1>10
  <2> DEFINE f == SubSeq(w, 1, Len(i))
  <2>2. f \in Seq(Nat) /\ Len(f) = Len(i) /\ \A j \in 1..Len(i) : f[j] = w[j]
    BY <1>2, <2>1, FrontOf
  <2> HIDE DEF f
  <2>3. Len(f) = Len(i)
    BY <2>2
  <2>4. ASSUME NEW j \in 1..Len(f)  PROVE f[j] = i[j]
    <3>1. j \in 1..(r - b) /\ j \in 1..Len(i)
      BY <1>1, <1>2, <1>6, <1>10, <2>3
    <3> QED BY <1>2, <1>8, <2>2, <3>1
  <2>5. f = i
    BY <1>6, <2>2, <2>3, <2>4, SeqEqual
  <2> QED BY <2>5 DEF FirstBytes, f
<1> QED BY <1>4, <1>5, <1>7, <1>9, <1>10 DEF i, b

\* If there is no tag in the window, a size that is too small is that of a corrupt header,
\* and any other one that of a packet.
LEMMA NextItem ==
  ASSUME NEW is \in Streams, NEW k \in 1..Len(is), NEW r \in Nat,
         Off(is, k) <= r, r <= Len(FlattenSeq(is)),
         NEW w, w = Window(FlattenSeq(is), Off(is, k), r), Len(w) >= HeaderLen, ~HasTag(w)
  PROVE  /\ k + 1 \in 1..Len(is) /\ Len(is[k + 1]) \in Nat
         /\ Off(is, k + 1) = Off(is, k) + Len(is[k + 1])
         /\ SizeOf(w) \in Nat
         /\ SizeOf(w) < HeaderLen => is[k + 1] \in Corrupt
         /\ SizeOf(w) >= HeaderLen /\ Len(w) >= SizeOf(w) =>
              /\ is[k + 1] \in Packets \ {Tag}
              /\ SizeOf(w) = Len(is[k + 1]) /\ FirstBytes(w, SizeOf(w)) = is[k + 1]
<1> DEFINE i == is[k + 1]
<1>1. Len(w) \in Nat /\ Len(w) >= 1 /\ HeaderLen = 2 /\ TagLen \in Nat /\ TagLen >= HeaderLen
  <2>1. w \in Seq(Nat)
    BY StreamType, OffType, WindowType
  <2> QED BY <2>1, LenProperties, TagLenPositive, TagAsHeader DEF HeaderLen
<1>2. /\ k + 1 \in 1..Len(is) /\ i \in Items
      /\ Off(is, k + 1) = Off(is, k) + Len(i)
      /\ SizeOf(w) = SizeOf(i)
      /\ Len(w) >= Len(i) => FirstBytes(w, Len(i)) = i
  <2>1. k + 1 \in 1..Len(is) /\ i \in Items /\ Off(is, k + 1) = Off(is, k) + Len(i)
    BY <1>1, HeaderIs
  <2>2. SizeOf(w) = SizeOf(i)
    BY <1>1, HeaderIs, SMTT(30)
  <2>3. Len(w) >= Len(i) => FirstBytes(w, Len(i)) = i
    BY <1>1, HeaderIs
  <2> QED BY <2>1, <2>2, <2>3
<1> HIDE DEF i
<1>3. i \in Seq(Nat) /\ Len(i) \in Nat /\ Len(i) >= HeaderLen
  BY <1>2, ItemTypes, LenProperties
<1>4. SizeOf(i) \in Nat
  <2>1. 2 \in 1..Len(i)
    BY <1>1, <1>3
  <2>2. i[2] \in Nat
    BY <1>3, <2>1, ElementOfSeq
  <2>3. \A n \in Nat : n \div 8 \in Nat
    OBVIOUS
  <2> QED BY <2>2, <2>3 DEF SizeOf
<1>5. /\ i \in Packets => SizeOf(i) = Len(i)
      /\ i \in Corrupt => SizeOf(i) < HeaderLen
      /\ i = Tag => Len(i) = TagLen /\ SizeOf(i) >= TagLen
      /\ i \in Packets \/ i \in Corrupt \/ i = Tag
  BY <1>2, ItemTypes DEF Items
<1>6. SizeOf(i) < HeaderLen => i \in Corrupt
  BY <1>1, <1>3, <1>4, <1>5
<1>7. ASSUME SizeOf(i) >= HeaderLen, Len(w) >= SizeOf(i)
      PROVE  i \in Packets \ {Tag} /\ SizeOf(i) = Len(i) /\ FirstBytes(w, SizeOf(i)) = i
  <2>1. i # Tag
    <3>1. SUFFICES ASSUME i = Tag  PROVE FALSE
      OBVIOUS
    <3>2. Len(w) >= TagLen /\ Len(i) = TagLen
      <4>1. SizeOf(i) >= TagLen /\ Len(i) = TagLen
        BY <1>5, <3>1
      <4> QED BY <1>1, <1>4, <1>7, <4>1
    <3>3. SubSeq(w, 1, TagLen) = Tag
      <4>1. FirstBytes(w, Len(i)) = i
        BY <1>2, <3>2
      <4> QED BY <3>1, <3>2, <4>1 DEF FirstBytes
    <3>4. 0 \in 0..(Len(w) - TagLen) /\ 0 + 1 = 1 /\ 0 + TagLen = TagLen
      BY <1>1, <3>2
    <3>5. SubSeq(w, 0 + 1, 0 + TagLen) = Tag
      BY <3>3, <3>4
    <3> QED BY <3>4, <3>5 DEF HasTag
  <2>2. i \notin Corrupt
    BY <1>1, <1>4, <1>5, <1>7
  <2>3. i \in Packets /\ SizeOf(i) = Len(i)
    BY <1>5, <2>1, <2>2
  <2> QED BY <1>2, <1>7, <2>1, <2>3
<1> QED BY <1>2, <1>3, <1>4, <1>6, <1>7 DEF i

\* The packets of a boot, one by one
LEMMA BootStarts ==
  ASSUME NEW is \in Seq(Bytes), NEW t \in TagItems(is)
  PROVE  IsBoot(is, <<>>, t, t)
<1>1. t \in 1..Len(is) /\ Len(is) \in Nat
  BY TagItemType, LenProperties
<1>2. t \in t..Len(is) /\ t + 1 \in Int /\ t \in Int /\ t < t + 1
  BY <1>1
<1>3. SubSeq(is, t + 1, t) = <<>>
  BY <1>2, SubSeqEmpty
<1>4. (t + 1)..t = {}
  BY <1>2
<1> QED BY <1>2, <1>3, <1>4 DEF IsBoot

LEMMA BootGrows ==
  ASSUME NEW is \in Seq(Bytes), NEW t, NEW k \in 1..Len(is), k + 1 \in 1..Len(is),
         NEW b, IsBoot(is, b, t, k), is[k + 1] \in Packets \ {Tag}
  PROVE  IsBoot(is, Append(b, is[k + 1]), t, k + 1)
<1>1. /\ t \in 1..Len(is) /\ Len(is) \in Nat /\ t \in TagItems(is) /\ k \in t..Len(is)
      /\ b = SubSeq(is, t + 1, k) /\ \A j \in (t + 1)..k : is[j] \in Packets \ {Tag}
  BY TagItemType, LenProperties DEF IsBoot
<1>2. t + 1 \in 1..Len(is) /\ k + 1 \in (t + 1)..Len(is) /\ (k + 1) - 1 = k /\ k + 1 \in t..Len(is)
  BY <1>1
<1>3. SubSeq(is, t + 1, k + 1) = SubSeq(is, t + 1, (k + 1) - 1) \o <<is[k + 1]>>
  BY <1>2, SubSeqRecursiveSecond
<1>4. b \in Seq(Bytes) /\ is[k + 1] \in Bytes
  <2>1. t + 1 \in 1..(Len(is) + 1) /\ k \in 0..Len(is)
    BY <1>1
  <2> QED BY <1>1, <2>1, PieceOf, ElementOfSeq
<1>5. Append(b, is[k + 1]) = b \o <<is[k + 1]>>
  BY <1>4, AppendIsConcat
<1>6. Append(b, is[k + 1]) = SubSeq(is, t + 1, k + 1)
  BY <1>1, <1>2, <1>3, <1>5
<1>7. ASSUME NEW j \in (t + 1)..(k + 1)  PROVE is[j] \in Packets \ {Tag}
  <2>1. j \in (t + 1)..k \/ j = k + 1
    BY <1>1
  <2> QED BY <1>1, <2>1
<1> QED BY <1>1, <1>2, <1>6, <1>7 DEF IsBoot

----------------------------------------------------------------------------
\* Counting tags

\* A tag's number is how many tags end no later than it.
LEMMA RankIs ==
  ASSUME NEW is \in Seq(Bytes), NEW t \in TagItems(is)
  PROVE  Rank(is, t) = Cardinality(TagsBy(is, Off(is, t)))
<1>1. t \in 0..Len(is)
  BY TagItemPlace
<1>2. \A u \in TagItems(is) : Off(is, u) <= Off(is, t) <=> u <= t
  BY <1>1, TagOrder
<1>3. {u \in TagItems(is) : u <= t} = TagsBy(is, Off(is, t))
  BY <1>2 DEF TagsBy
<1> QED BY <1>3 DEF Rank

LEMMA OneMoreTag ==
  ASSUME NEW is \in Seq(Bytes), NEW t \in TagItems(is), NEW b \in Nat, b < Off(is, t),
         \A u \in TagItems(is) : u < t => Off(is, u) <= b
  PROVE  Cardinality(TagsBy(is, Off(is, t))) = Cardinality(TagsBy(is, b)) + 1
<1>1. t \in 0..Len(is) /\ Off(is, t) \in Nat
  BY TagItemPlace
<1>2. ASSUME NEW u \in TagItems(is)  PROVE Off(is, u) <= Off(is, t) <=> u = t \/ Off(is, u) <= b
  <2>1. u \in Nat /\ Off(is, u) \in Nat
    BY TagItemPlace
  <2>2. Off(is, u) <= Off(is, t) <=> u <= t
    BY <1>1, TagOrder
  <2>3. CASE u < t
    BY <2>1, <2>2, <2>3, <1>1
  <2>4. CASE u = t
    BY <2>1, <2>4
  <2>5. CASE u > t
    BY <1>1, <2>1, <2>2, <2>5
  <2> QED BY <1>1, <2>1, <2>3, <2>4, <2>5
<1>3. TagsBy(is, Off(is, t)) = TagsBy(is, b) \cup {t}
  BY <1>2 DEF TagsBy
<1>4. t \notin TagsBy(is, b)
  BY <1>1 DEF TagsBy
<1>5. IsFiniteSet(TagsBy(is, b))
  BY TagItemType
<1> QED BY <1>3, <1>4, <1>5, FS_AddElement

\* Up to a whole item that is of a boot there are as many tags as the boot's number.
LEMMA RankOfBoot ==
  ASSUME NEW is \in Seq(Bytes), NEW b, NEW t, NEW k, IsBoot(is, b, t, k)
  PROVE  TagsBy(is, Off(is, k)) = {u \in TagItems(is) : u <= t}
<1>1. /\ t \in TagItems(is) /\ t \in 1..Len(is) /\ Len(is) \in Nat /\ k \in t..Len(is)
      /\ \A j \in (t + 1)..k : is[j] # Tag
  BY TagItemType, LenProperties DEF IsBoot
<1>2. k \in 0..Len(is)
  BY <1>1
<1>3. ASSUME NEW u \in TagItems(is)  PROVE Off(is, u) <= Off(is, k) <=> u <= t
  <2>1. Off(is, u) <= Off(is, k) <=> u <= k
    BY <1>2, TagOrder
  <2>2. u \in Nat /\ is[u] = Tag
    BY TagItemPlace DEF TagItems
  <2>3. u <= k => u <= t
    <3>1. u <= k /\ ~(u <= t) => u \in (t + 1)..k
      BY <1>1, <2>2
    <3> QED BY <1>1, <2>2, <3>1
  <2>4. u <= t => u <= k
    BY <1>1, <2>2
  <2> QED BY <2>1, <2>3, <2>4
<1> QED BY <1>3 DEF TagsBy

----------------------------------------------------------------------------
\* Steps of the buffer

LEMMA DropWindow ==
  ASSUME NEW s \in Seq(Nat), NEW b \in Nat, NEW r \in Nat, b <= r, r <= Len(s),
         NEW w, w = Window(s, b, r), NEW n \in 0..(r - b)
  PROVE  SubSeq(w, n + 1, Len(w)) = Window(s, b + n, r)
<1> DEFINE u == SubSeq(w, n + 1, Len(w))
           v == Window(s, b + n, r)
<1>1. w \in Seq(Nat) /\ Len(w) = r - b
  BY WindowType
<1>2. n + 1 \in 1..(Len(w) + 1) /\ Len(w) \in 0..Len(w) /\ b + n \in Nat /\ b + n <= r
  BY <1>1
<1>3. /\ u \in Seq(Nat) /\ Len(u) = IF n + 1 <= Len(w) THEN Len(w) - (n + 1) + 1 ELSE 0
      /\ \A i \in 1..(Len(w) - (n + 1) + 1) : u[i] = w[(n + 1) + i - 1]
  BY <1>1, <1>2, PieceOf, SMTT(30)
<1> HIDE DEF u
<1>4. v \in Seq(Nat) /\ Len(v) = r - (b + n)
  BY <1>2, WindowType
<1>5. ASSUME NEW i \in 1..(r - (b + n))  PROVE v[i] = s[(b + n) + i]
  BY <1>2, <1>5, WindowByte
<1> HIDE DEF v
<1>6. Len(u) = Len(v)
  BY <1>1, <1>2, <1>3, <1>4, SMTT(30)
<1>7. ASSUME NEW i \in 1..Len(u)  PROVE u[i] = v[i]
  <2>1. /\ i \in 1..(Len(w) - (n + 1) + 1) /\ i \in 1..(r - (b + n))
        /\ (n + 1) + i - 1 \in 1..(r - b) /\ b + ((n + 1) + i - 1) = (b + n) + i
    BY <1>1, <1>2, <1>4, <1>6
  <2>2. u[i] = w[(n + 1) + i - 1]
    BY <1>3, <2>1
  <2>3. w[(n + 1) + i - 1] = s[b + ((n + 1) + i - 1)]
    BY <2>1, WindowByte
  <2> QED BY <1>5, <2>1, <2>2, <2>3
<1>8. u = v
  BY <1>3, <1>4, <1>6, <1>7, SeqEqual
<1> QED BY <1>8 DEF u, v

LEMMA GrowWindow ==
  ASSUME NEW s \in Seq(Nat), NEW b \in Nat, NEW r \in Nat, NEW n \in Nat, b <= r, r + n <= Len(s)
  PROVE  Window(s, b, r) \o SubSeq(s, r + 1, r + n) = Window(s, b, r + n)
<1>1. Len(s) \in Nat
  BY LenProperties
<1>2. b + 1 \in 1..(Len(s) + 1) /\ r \in ((b + 1) - 1)..Len(s) /\ r + n \in r..Len(s)
  BY <1>1
<1> QED BY <1>2, ConcatAdjacentSubSeq DEF Window

\* What is read later does not change the header.
LEMMA HeaderStays ==
  ASSUME NEW s \in Seq(Nat), NEW b \in Nat, NEW r \in Nat, NEW q \in Nat,
         b <= r, r <= q, q <= Len(s), HeaderLen <= r - b
  PROVE  SizeOf(Window(s, b, q)) = SizeOf(Window(s, b, r))
<1>1. 2 \in 1..(r - b) /\ 2 \in 1..(q - b) /\ Len(s) \in Nat /\ r <= Len(s) /\ b <= q
  BY LenProperties DEF HeaderLen
<1>2. Window(s, b, q)[2] = s[b + 2]
  BY <1>1, WindowByte
<1>3. Window(s, b, r)[2] = s[b + 2]
  BY <1>1, WindowByte
<1> QED BY <1>2, <1>3 DEF SizeOf

LEMMA StateFacts ==
  TypeInv =>
    /\ items \in Seq(Bytes) /\ Len(items) \in Nat /\ DOMAIN items = 1..Len(items)
    /\ FlattenSeq(items) \in Seq(Nat) /\ Len(FlattenSeq(items)) \in Nat
    /\ read \in Nat /\ read <= Len(FlattenSeq(items))
    /\ Len(buffer) \in Nat /\ Base \in Nat /\ Base <= read /\ Len(buffer) = read - Base
    /\ Len(out) \in Nat /\ DOMAIN out = 1..Len(out)
<1> SUFFICES ASSUME TypeInv  PROVE
    /\ items \in Seq(Bytes) /\ Len(items) \in Nat /\ DOMAIN items = 1..Len(items)
    /\ FlattenSeq(items) \in Seq(Nat) /\ Len(FlattenSeq(items)) \in Nat
    /\ read \in Nat /\ read <= Len(FlattenSeq(items))
    /\ Len(buffer) \in Nat /\ Base \in Nat /\ Base <= read /\ Len(buffer) = read - Base
    /\ Len(out) \in Nat /\ DOMAIN out = 1..Len(out)
  OBVIOUS
<1>1. items \in Seq(Bytes) /\ Len(items) \in Nat /\ DOMAIN items = 1..Len(items)
  BY StreamType, LenProperties DEF TypeInv
<1>2. FlattenSeq(items) \in Seq(Nat) /\ Len(FlattenSeq(items)) \in Nat
  BY <1>1, OffType, LenProperties
<1>3. /\ read \in 0..Len(FlattenSeq(items)) /\ buffer \in Seq(Nat) /\ Len(buffer) <= read
      /\ out \in Seq(Seq(Packets))
  BY DEF TypeInv
<1>4. Len(buffer) \in Nat /\ Len(out) \in Nat /\ DOMAIN out = 1..Len(out)
  BY <1>3, LenProperties
<1>5. read \in Nat /\ read <= Len(FlattenSeq(items))
  BY <1>2, <1>3
<1>6. Base \in Nat /\ Base <= read /\ Len(buffer) = read - Base
  BY <1>3, <1>4, <1>5 DEF Base
<1> QED BY <1>1, <1>2, <1>4, <1>5, <1>6

\* Bytes are dropped from the beginning of the buffer.
LEMMA Dropped ==
  ASSUME TypeInv, UNCHANGED <<items, read>>, NEW n \in 0..Len(buffer),
         buffer' = SubSeq(buffer, n + 1, Len(buffer))
  PROVE  /\ buffer' \in Seq(Nat) /\ Len(buffer') <= read'
         /\ buffer' = Window(FlattenSeq(items'), Base', read')
         /\ Base' \in Nat /\ Base' = Base + n /\ Base <= Base'
<1>1. /\ FlattenSeq(items) \in Seq(Nat) /\ read \in Nat /\ read <= Len(FlattenSeq(items))
      /\ Len(buffer) \in Nat /\ Base \in Nat /\ Base <= read /\ Len(buffer) = read - Base
  BY StateFacts
<1>2. buffer = Window(FlattenSeq(items), Base, read)
  BY DEF TypeInv
<1>3. n \in 0..(read - Base) /\ Base + n \in Nat /\ Base + n <= read
  BY <1>1
<1>4. buffer' = Window(FlattenSeq(items), Base + n, read)
  <2> DEFINE s == FlattenSeq(items)
             b == Base
             r == read
             w == buffer
  <2>1. s \in Seq(Nat) /\ b \in Nat /\ r \in Nat /\ b <= r /\ r <= Len(s) /\ n \in 0..(r - b)
    BY <1>1, <1>3
  <2>2. w = Window(s, b, r)
    BY <1>2
  <2>3. buffer' = SubSeq(w, n + 1, Len(w))
    OBVIOUS
  <2> HIDE DEF s, b, r, w
  <2>4. SubSeq(w, n + 1, Len(w)) = Window(s, b + n, r)
    BY <2>1, <2>2, DropWindow
  <2> QED BY <2>3, <2>4 DEF s, b, r
<1>5. buffer' \in Seq(Nat) /\ Len(buffer') = read - (Base + n)
  BY <1>1, <1>3, <1>4, WindowType, ZenonT(30)
<1>6. Base' = Base + n
  <2>1. Base' = read - Len(buffer')
    BY DEF Base
  <2> QED BY <1>1, <1>3, <1>5, <2>1
<1>7. Len(buffer') <= read'
  BY <1>1, <1>3, <1>5
<1>8. Base <= Base'
  BY <1>1, <1>3, <1>6
<1> QED BY <1>3, <1>4, <1>5, <1>6, <1>7, <1>8

\* The packets after a reset stay those of their boot as long as the buffer does not grow
\* backwards.
LEMMA BootStays ==
  ASSUME TypeInv, BootsInv, items' = items, Base' \in Nat, Base <= Base',
         NEW n \in DOMAIN out, out'[n] = out[n]
  PROVE  \E t \in TagItems(items'), k \in DOMAIN items' : BootAt(n, t, k)'
<1>1. PICK t \in TagItems(items), k \in DOMAIN items : BootAt(n, t, k)
  BY DEF BootsInv
<1>2. Off(items, k) \in Nat /\ Base \in Nat
  <2>1. k \in 0..Len(items) /\ items \in Seq(Bytes) /\ Base \in Nat
    BY StateFacts
  <2> QED BY <2>1, OffType
<1>3. Off(items, k) <= Base'
  BY <1>1, <1>2 DEF BootAt
<1>4. IsBoot(items', out'[n], t, k) /\ (Sound' => Rank(items', t) = n)
  BY <1>1 DEF BootAt, Sound
<1>5. BootAt(n, t, k)'
  BY <1>3, <1>4 DEF BootAt
<1> QED BY <1>1, <1>5

\* Where a synced parser is
LEMMA SyncedAt ==
  ASSUME TypeInv, BootsInv, is_synced
  PROVE  /\ Len(out) \in DOMAIN out
         /\ \E t \in TagItems(items), k \in 1..Len(items) :
              /\ BootAt(Len(out), t, k) /\ Off(items, k) = Base
              /\ Off(items, k) <= read /\ read <= Len(FlattenSeq(items)) /\ read \in Nat
              /\ buffer = Window(FlattenSeq(items), Off(items, k), read)
<1>1. /\ out # <<>>
      /\ \E t \in TagItems(items), k \in DOMAIN items :
           BootAt(Len(out), t, k) /\ Off(items, k) = Base
  BY DEF BootsInv
<1>2. /\ DOMAIN items = 1..Len(items) /\ read \in Nat /\ read <= Len(FlattenSeq(items))
      /\ Base <= read /\ Len(out) \in Nat /\ DOMAIN out = 1..Len(out)
  BY StateFacts
<1>3. Len(out) # 0
  BY <1>1, EmptySeq DEF TypeInv
<1>4. Len(out) \in DOMAIN out
  BY <1>2, <1>3
<1>5. buffer = Window(FlattenSeq(items), Base, read)
  BY DEF TypeInv
<1> QED BY <1>1, <1>2, <1>4, <1>5

\* No tag appears when bytes are dropped from the beginning.
LEMMA StillNoTag ==
  ASSUME TypeInv, UNCHANGED <<items, read>>, ~HasTag(buffer), NEW n \in 0..Len(buffer),
         buffer' = SubSeq(buffer, n + 1, Len(buffer))
  PROVE  ~HasTag(buffer')
<1>1. /\ FlattenSeq(items) \in Seq(Nat) /\ read \in Nat /\ read <= Len(FlattenSeq(items))
      /\ Len(buffer) \in Nat /\ Base \in Nat /\ Base <= read /\ Len(buffer) = read - Base
  BY StateFacts
<1>2. buffer = Window(FlattenSeq(items), Base, read)
  BY DEF TypeInv
<1>3. /\ buffer' = Window(FlattenSeq(items), Base + n, read)
      /\ Base + n \in Nat /\ Base + n <= read
  <2>1. Base + n \in Nat /\ Base + n <= read
    BY <1>1
  <2>2. buffer' = Window(FlattenSeq(items'), Base', read') /\ Base' = Base + n
    BY Dropped
  <2> QED BY <2>1, <2>2
<1>4. SUFFICES ASSUME HasTag(buffer')  PROVE FALSE
  OBVIOUS
<1> DEFINE x == TagIndex(buffer')
           j == Base + n + x + 1
<1>5. x \in Nat /\ Base + n + x + TagLen <= read /\ j \in TagsIn(FlattenSeq(items))
  BY <1>1, <1>3, <1>4, FirstTagInWindow
<1> HIDE DEF x
<1>6. TagLen \in Nat
  BY TagLenPositive
<1>7. j > Base /\ j + TagLen - 1 <= read
  BY <1>1, <1>5, <1>6
<1> HIDE DEF j
<1>8. j + TagLen - 1 > read
  BY <1>1, <1>2, <1>5, <1>7, NoTagInWindow
<1>9. j \in Nat
  BY <1>1, <1>5, TagEnds
<1> QED BY <1>1, <1>6, <1>7, <1>8, <1>9

\* The end of an item does not cut a tag.
LEMMA UncutAt ==
  ASSUME NEW is \in Seq(Bytes), NEW m \in 0..Len(is), NEW u \in TagItems(is),
         Off(is, u - 1) < Off(is, m)
  PROVE  Off(is, u) <= Off(is, m)
<1>1. u \in Nat /\ Off(is, u - 1) \in Nat /\ Off(is, m) \in Nat
  BY TagItemPlace, OffType
<1>2. m < u => Off(is, m) <= Off(is, u - 1)
  BY TagOrder
<1>3. ~(m < u)
  BY <1>1, <1>2
<1>4. u <= m
  BY <1>1, <1>3
<1> QED BY <1>4, TagOrder

----------------------------------------------------------------------------
\* The actions

LEMMA InitInv == Init => IInv
<1> SUFFICES ASSUME Init  PROVE IInv
  OBVIOUS
<1>1. /\ items \in Streams /\ WellTagged(items) /\ read = 0 /\ buffer = <<>>
      /\ expected_size = 0 /\ is_synced = FALSE /\ out = <<>> /\ parsing = FALSE
  BY DEF Init, None
<1>2. items \in Seq(Bytes) /\ FlattenSeq(items) \in Seq(Nat) /\ Len(FlattenSeq(items)) \in Nat
  BY <1>1, StreamType, OffType, LenProperties
<1>3. /\ <<>> \in Seq(Nat) /\ <<>> \in Seq(Seq(Packets)) /\ Len(buffer) = 0 /\ Len(out) = 0
      /\ DOMAIN out = {}
  BY <1>1, EmptySeq
<1>4. Base = 0
  <2>1. Base = read - Len(buffer)
    BY DEF Base
  <2>2. read = 0 /\ Len(buffer) = 0
    BY <1>1, <1>3
  <2> QED BY <2>1, <2>2
<1>5. buffer = Window(FlattenSeq(items), Base, read)
  <2>1. Base + 1 \in Int /\ read \in Int /\ read < Base + 1
    BY <1>1, <1>4
  <2> QED BY <1>1, <2>1, SubSeqEmpty DEF Window
<1>6. TypeInv
  <2>1. read \in 0..Len(FlattenSeq(items)) /\ Len(buffer) <= read
    <3>1. read = 0 /\ Len(buffer) = 0
      BY <1>1, <1>3
    <3> QED BY <1>2, <3>1
  <2>2. buffer \in Seq(Nat) /\ out \in Seq(Seq(Packets))
    BY <1>1, EmptySeq
  <2>3. expected_size \in Nat
    BY <1>1
  <2> QED BY <1>1, <1>5, <2>1, <2>2, <2>3 DEF TypeInv
<1>7. BootsInv
  BY <1>1, <1>3 DEF BootsInv, None
<1>8. ASSUME NEW t \in TagItems(items)
      PROVE  Off(items, t - 1) \in Nat /\ Off(items, t) \in Nat /\ ~(Off(items, t) <= 0)
  <2>1. /\ Off(items, t - 1) \in Nat /\ Off(items, t) \in Nat
        /\ Off(items, t) = Off(items, t - 1) + TagLen
    BY <1>2, TagItemPlace
  <2>2. TagLen \in Nat /\ TagLen >= 1
    BY TagLenPositive
  <2> QED BY <2>1, <2>2
<1>9. TagsBy(items, Base) = {}
  BY <1>4, <1>8 DEF TagsBy
<1>10. ASSUME NEW t \in TagItems(items)
       PROVE  Off(items, t - 1) < Base => Off(items, t) <= Base
  BY <1>4, <1>8
<1>11. TagsInv
  <2>1. Len(out) = Cardinality(TagsBy(items, Base))
    BY <1>3, <1>9, FS_EmptySet
  <2> QED BY <1>1, <1>10, <2>1 DEF TagsInv
<1>12. DoneInv
  <2>1. 0..(Len(buffer) - TagLen) = {}
    BY <1>3, TagLenPositive
  <2> QED BY <1>1, <2>1 DEF DoneInv, HasTag
<1> QED BY <1>6, <1>7, <1>11, <1>12 DEF IInv

\* A piece of the stream arrives: where the buffer begins stays the same.
LEMMA ReceiveInv ==
  ASSUME IInv, NEW n \in 1..MaxRead, Receive(n)
  PROVE  IInv'
<1>1. /\ read + n <= Len(FlattenSeq(items)) /\ read' = read + n /\ parsing' = TRUE
      /\ buffer' = buffer \o SubSeq(FlattenSeq(items), read + 1, read + n)
      /\ items' = items /\ expected_size' = expected_size /\ is_synced' = is_synced /\ out' = out
  BY DEF Receive
<1>2. /\ TypeInv /\ BootsInv /\ TagsInv
  BY DEF IInv
<1>3. /\ items \in Seq(Bytes) /\ FlattenSeq(items) \in Seq(Nat) /\ Len(FlattenSeq(items)) \in Nat
      /\ read \in Nat /\ Len(buffer) \in Nat /\ Base \in Nat /\ Base <= read
      /\ Len(buffer) = read - Base
  BY <1>2, StateFacts
<1>4. n \in Nat /\ read + n \in Nat /\ Base <= read + n
  BY <1>3, StreamAssumption
<1>5. buffer' = Window(FlattenSeq(items), Base, read + n)
  <2>1. buffer = Window(FlattenSeq(items), Base, read)
    BY <1>2 DEF TypeInv
  <2>2. Window(FlattenSeq(items), Base, read) \o SubSeq(FlattenSeq(items), read + 1, read + n)
          = Window(FlattenSeq(items), Base, read + n)
    <3> DEFINE s == FlattenSeq(items)
               b == Base
               r == read
    <3>1. s \in Seq(Nat) /\ b \in Nat /\ r \in Nat /\ b <= r /\ r + n <= Len(s)
      BY <1>1, <1>3
    <3> HIDE DEF s, b, r
    <3>2. Window(s, b, r) \o SubSeq(s, r + 1, r + n) = Window(s, b, r + n)
      BY <1>4, <3>1, GrowWindow
    <3> QED BY <3>2 DEF s, b, r
  <2> QED BY <1>1, <2>1, <2>2
<1>6. buffer' \in Seq(Nat) /\ Len(buffer') = (read + n) - Base
  BY <1>1, <1>3, <1>4, <1>5, WindowType
<1>7. Base' = Base
  <2>1. Base' = read' - Len(buffer')
    BY DEF Base
  <2> QED BY <1>1, <1>3, <1>4, <1>6, <2>1
<1>8. TypeInv'
  <2>1. read' \in 0..Len(FlattenSeq(items')) /\ Len(buffer') <= read'
    BY <1>1, <1>3, <1>4, <1>6
  <2> QED BY <1>1, <1>2, <1>5, <1>6, <1>7, <2>1 DEF TypeInv
<1>9. BootsInv'
  <2>1. \A m \in DOMAIN out' : \E t \in TagItems(items'), k \in DOMAIN items' : BootAt(m, t, k)'
    BY <1>1, <1>2, <1>3, <1>7, BootStays
  <2>2. ASSUME is_synced'
        PROVE  /\ out' # <<>>
               /\ \E t \in TagItems(items'), k \in DOMAIN items' :
                    BootAt(Len(out), t, k)' /\ Off(items', k) = Base'
    <3>1. PICK t \in TagItems(items), k \in DOMAIN items :
            BootAt(Len(out), t, k) /\ Off(items, k) = Base
      BY <1>1, <1>2, <2>2 DEF BootsInv
    <3>2. BootAt(Len(out), t, k)'
      BY <1>1, <1>7, <3>1 DEF BootAt, Sound
    <3>3. out' # <<>>
      BY <1>1, <1>2, <2>2 DEF BootsInv
    <3>4. Off(items', k) = Base'
      BY <1>1, <1>7, <3>1
    <3> QED BY <1>1, <3>1, <3>2, <3>3, <3>4
  <2>3. ASSUME expected_size' # None
        PROVE  is_synced' /\ Len(buffer') >= HeaderLen /\ expected_size' = SizeOf(buffer')
    <3>1. is_synced /\ Len(buffer) >= HeaderLen /\ expected_size = SizeOf(buffer)
      BY <1>1, <1>2, <2>3 DEF BootsInv
    <3>2. Len(buffer') >= HeaderLen
      BY <1>3, <1>4, <1>6, <3>1 DEF HeaderLen
    <3>3. SizeOf(buffer') = SizeOf(buffer)
      <4> DEFINE s == FlattenSeq(items)
                 b == Base
                 r == read
      <4>1. /\ s \in Seq(Nat) /\ b \in Nat /\ r \in Nat /\ r + n \in Nat
            /\ b <= r /\ r <= r + n /\ r + n <= Len(s) /\ HeaderLen <= r - b
        BY <1>1, <1>3, <1>4, <3>1
      <4>2. buffer = Window(s, b, r) /\ buffer' = Window(s, b, r + n)
        BY <1>2, <1>5 DEF TypeInv
      <4> HIDE DEF s, b, r
      <4>3. SizeOf(Window(s, b, r + n)) = SizeOf(Window(s, b, r))
        BY <4>1, HeaderStays
      <4>4. SizeOf(buffer') = SizeOf(Window(s, b, r + n))
        BY <4>2
      <4>5. SizeOf(buffer) = SizeOf(Window(s, b, r))
        BY <4>2
      <4> QED BY <4>3, <4>4, <4>5
    <3> QED BY <1>1, <3>1, <3>2, <3>3
  <2> QED BY <2>1, <2>2, <2>3 DEF BootsInv
<1>10. TagsInv'
  BY <1>1, <1>2, <1>7 DEF TagsInv, Sound
<1>11. DoneInv'
  BY <1>1 DEF DoneInv
<1> QED BY <1>8, <1>9, <1>10, <1>11 DEF IInv

\* The parser gives up what it has not yielded: the boots stay, and it is synced no more.
LEMMA UnsyncedBoots ==
  ASSUME TypeInv, BootsInv, items' = items, out' = out, Base' \in Nat, Base <= Base',
         is_synced' = FALSE, expected_size' = None
  PROVE  BootsInv'
<1>1. \A m \in DOMAIN out' : \E t \in TagItems(items'), k \in DOMAIN items' : BootAt(m, t, k)'
  BY BootStays
<1> QED BY <1>1 DEF BootsInv

\* What the parser keeps while it waits for a tag is the end of what it has read, no shorter
\* than a tag if there is that much.
LEMMA UnsyncedInv ==
  ASSUME IInv, Unsynced
  PROVE  IInv'
<1>1. /\ ~HasTag(buffer) /\ is_synced = FALSE /\ parsing' = FALSE
      /\ buffer' = IF Len(buffer) > TagLen THEN LastBytes(buffer, TagLen) ELSE buffer
      /\ items' = items /\ read' = read /\ expected_size' = expected_size
      /\ is_synced' = is_synced /\ out' = out
  BY DEF Unsynced, IInv, TypeInv
<1>2. /\ TypeInv /\ BootsInv /\ TagsInv
  BY DEF IInv
<1>3. /\ items \in Seq(Bytes) /\ FlattenSeq(items) \in Seq(Nat)
      /\ read \in Nat /\ read <= Len(FlattenSeq(items)) /\ buffer \in Seq(Nat)
      /\ Len(buffer) \in Nat /\ Base \in Nat /\ Base <= read /\ Len(buffer) = read - Base
  BY <1>2, StateFacts DEF TypeInv
<1>4. TagLen \in Nat /\ TagLen >= 1
  BY TagLenPositive
<1> DEFINE n == IF Len(buffer) > TagLen THEN Len(buffer) - TagLen ELSE 0
<1>5. n \in 0..Len(buffer) /\ (n # 0 => Base + n = read - TagLen)
  BY <1>3, <1>4
<1>6. buffer' = SubSeq(buffer, n + 1, Len(buffer))
  <2>1. CASE Len(buffer) > TagLen
    BY <1>1, <2>1 DEF LastBytes
  <2>2. CASE ~(Len(buffer) > TagLen)
    <3>1. n + 1 = 1
      BY <2>2
    <3> QED BY <1>1, <1>3, <2>2, <3>1, SubSeqFull
  <2> QED BY <2>1, <2>2
<1> HIDE DEF n
<1>7. /\ buffer' \in Seq(Nat) /\ Len(buffer') <= read'
      /\ buffer' = Window(FlattenSeq(items'), Base', read')
      /\ Base' \in Nat /\ Base' = Base + n /\ Base <= Base'
  BY <1>1, <1>2, <1>5, <1>6, Dropped
<1>8. TypeInv'
  BY <1>1, <1>2, <1>7 DEF TypeInv
<1>9. expected_size = None
  BY <1>1, <1>2 DEF BootsInv
<1>10. BootsInv'
  BY <1>1, <1>2, <1>7, <1>9, UnsyncedBoots
<1>11. ASSUME Sound', NEW u \in TagItems(items), Off(items, u - 1) < Base'
       PROVE  Off(items, u) <= Base
  <2>1. Off(items, u - 1) < Base => Off(items, u) <= Base
    BY <1>1, <1>2, <1>11 DEF TagsInv, Sound
  <2>2. /\ Off(items, u - 1) \in Nat /\ Off(items, u) \in Nat
        /\ Off(items, u - 1) + 1 \in TagsIn(FlattenSeq(items))
    BY <1>3, TagItemPlace
  <2>3. SUFFICES ASSUME Off(items, u - 1) >= Base  PROVE FALSE
    BY <1>3, <2>1, <2>2
  <2>4. n # 0 /\ Base' = read - TagLen
    BY <1>3, <1>5, <1>7, <1>11, <2>2, <2>3, SMTT(30)
  <2>5. Off(items, u - 1) + 1 > Base
    BY <1>3, <2>2, <2>3
  <2>6. buffer = Window(FlattenSeq(items), Base, read)
    BY <1>2 DEF TypeInv
  <2>7. (Off(items, u - 1) + 1) + TagLen - 1 > read
    BY <1>1, <1>3, <2>2, <2>5, <2>6, NoTagInWindow
  <2> QED BY <1>3, <1>4, <1>11, <2>2, <2>4, <2>7
<1>12. ASSUME Sound', NEW u \in TagItems(items)
       PROVE  Off(items, u) <= Base' <=> Off(items, u) <= Base
  <2>1. /\ Off(items, u - 1) \in Nat /\ Off(items, u) \in Nat
        /\ Off(items, u) = Off(items, u - 1) + TagLen
    BY <1>3, TagItemPlace
  <2>2. Off(items, u) <= Base' => Off(items, u - 1) < Base'
    BY <1>4, <1>7, <2>1
  <2> QED BY <1>3, <1>7, <1>11, <1>12, <2>1, <2>2
<1>13. TagsInv'
  <2> SUFFICES ASSUME Sound'
               PROVE  /\ Len(out') = Cardinality(TagsBy(items', Base'))
                      /\ is_synced' \/ out' = <<>>
                      /\ \A t \in TagItems(items') :
                           Off(items', t - 1) < Base' => Off(items', t) <= Base'
    BY DEF TagsInv
  <2>1. Len(out) = Cardinality(TagsBy(items, Base)) /\ (is_synced \/ out = <<>>)
    BY <1>1, <1>2 DEF TagsInv, Sound
  <2>2. TagsBy(items', Base') = TagsBy(items, Base)
    BY <1>1, <1>12 DEF TagsBy
  <2>3. ASSUME NEW t \in TagItems(items), Off(items, t - 1) < Base'
        PROVE  Off(items, t) <= Base'
    <3>1. Off(items, t) <= Base /\ Off(items, t) \in Nat
      BY <1>3, <1>11, <2>3, TagItemPlace
    <3> QED BY <1>3, <1>7, <3>1
  <2> QED BY <1>1, <2>1, <2>2, <2>3
<1>14. DoneInv'
  <2>1. ~HasTag(buffer')
    BY <1>1, <1>2, <1>5, <1>6, StillNoTag
  <2> QED BY <1>1, <2>1 DEF DoneInv
<1> QED BY <1>8, <1>10, <1>13, <1>14 DEF IInv

\* A new boot begins at the first tag in the buffer, the next one of the stream.
LEMMA FoundTagInv ==
  ASSUME IInv, FoundTag
  PROVE  IInv'
<1>1. /\ HasTag(buffer) /\ buffer' = AfterTag(buffer) /\ is_synced' = TRUE
      /\ expected_size' = None /\ out' = Append(out, <<>>) /\ parsing' = TRUE
      /\ items' = items /\ read' = read
  BY DEF FoundTag, IInv, TypeInv
<1>2. /\ TypeInv /\ BootsInv /\ TagsInv /\ WellTagged(items)
  BY DEF IInv, TypeInv
<1>3. /\ items \in Seq(Bytes) /\ Len(items) \in Nat /\ DOMAIN items = 1..Len(items)
      /\ FlattenSeq(items) \in Seq(Nat)
      /\ read \in Nat /\ read <= Len(FlattenSeq(items))
      /\ Len(buffer) \in Nat /\ Base \in Nat /\ Base <= read /\ Len(buffer) = read - Base
      /\ Len(out) \in Nat /\ DOMAIN out = 1..Len(out) /\ out \in Seq(Seq(Packets))
  BY <1>2, StateFacts DEF TypeInv
<1>4. TagLen \in Nat /\ TagLen >= 1
  BY TagLenPositive
<1> DEFINE x == TagIndex(buffer)
<1>5. /\ x \in Nat /\ Base + x + TagLen <= read
      /\ Base + x + 1 \in TagsIn(FlattenSeq(items))
      /\ \A j \in TagsIn(FlattenSeq(items)) : j > Base => j >= Base + x + 1
  <2>1. buffer = Window(FlattenSeq(items), Base, read)
    BY <1>2 DEF TypeInv
  <2> DEFINE s == FlattenSeq(items)
             b == Base
             r == read
             w == buffer
  <2>2. s \in Seq(Nat) /\ b \in Nat /\ r \in Nat /\ b <= r /\ r <= Len(s) /\ w = Window(s, b, r)
    BY <1>3, <2>1
  <2>3. HasTag(w)
    BY <1>1
  <2> HIDE DEF s, b, r, w
  <2>4. TagIndex(w) \in Nat /\ b + TagIndex(w) + TagLen <= r /\ b + TagIndex(w) + 1 \in TagsIn(s)
    BY <2>2, <2>3, FirstTagInWindow
  <2>5. \A j \in TagsIn(s) : j > b => j >= b + TagIndex(w) + 1
    BY <2>2, <2>3, FirstTagInWindow
  <2> QED BY <2>4, <2>5 DEF s, b, r, w
<1>6. buffer' = SubSeq(buffer, (x + TagLen) + 1, Len(buffer)) /\ x + TagLen \in 0..Len(buffer)
  <2>1. buffer' = SubSeq(buffer, (x + TagLen) + 1, Len(buffer))
    BY <1>1 DEF AfterTag
  <2> HIDE DEF x
  <2>2. x + TagLen \in 0..Len(buffer)
    BY <1>3, <1>4, <1>5
  <2> QED BY <2>1, <2>2
<1> HIDE DEF x
<1>7. /\ buffer' \in Seq(Nat) /\ Len(buffer') <= read'
      /\ buffer' = Window(FlattenSeq(items'), Base', read')
      /\ Base' \in Nat /\ Base' = Base + (x + TagLen) /\ Base <= Base'
  BY <1>1, <1>2, <1>6, Dropped
<1>8. PICK t \in TagItems(items) : Base + x + 1 = Off(items, t - 1) + 1
  BY <1>2, <1>3, <1>5, TagPlaces
<1>9. /\ t \in 1..Len(items) /\ t \in 0..Len(items) /\ t - 1 \in 0..Len(items)
      /\ Off(items, t - 1) \in Nat /\ Off(items, t) = Off(items, t - 1) + TagLen
      /\ Off(items, t) \in Nat
  <2>1. items \in Seq(Bytes)
    BY <1>3
  <2> QED BY <2>1, TagItemPlace
<1>10. Off(items, t) = Base' /\ Base < Off(items, t) /\ Off(items, t - 1) = Base + x
  <2>1. Base \in Nat /\ x \in Nat
    BY <1>3, <1>5
  <2>2. Off(items, t - 1) = Base + x
    <3>1. Base + x + 1 = Off(items, t - 1) + 1 /\ Off(items, t - 1) \in Nat
      BY <1>8, <1>9
    <3> QED BY <2>1, <3>1
  <2>3. Off(items, t) = (Base + x) + TagLen
    BY <1>9, <2>2
  <2>4. Base' = Base + (x + TagLen)
    BY <1>7
  <2> QED BY <1>4, <2>1, <2>2, <2>3, <2>4
<1>11. <<>> \in Seq(Packets)
  BY EmptySeq
<1>12. /\ out' \in Seq(Seq(Packets)) /\ Len(out') = Len(out) + 1
       /\ \A n \in 1..Len(out) : out'[n] = out[n]
       /\ out'[Len(out) + 1] = <<>> /\ out' # <<>>
  <2>1. ASSUME NEW e \in Seq(Packets)
        PROVE  /\ Append(out, e) \in Seq(Seq(Packets)) /\ Len(Append(out, e)) = Len(out) + 1
               /\ \A n \in 1..Len(out) : Append(out, e)[n] = out[n]
               /\ Append(out, e)[Len(out) + 1] = e /\ Append(out, e) # <<>>
    <3>1. out \in Seq(Seq(Packets))
      BY <1>3
    <3> QED BY <3>1, AppendProperties
  <2> QED BY <1>1, <1>11, <2>1
<1>0. PICK l \in Nat : l = Len(out) + 1
  BY <1>3
<1>13. TypeInv'
  <2>1. 0 \in Nat
    OBVIOUS
  <2> QED BY <1>1, <1>2, <1>7, <1>12, <2>1 DEF TypeInv, None
<1>14. ASSUME Sound, NEW u \in TagItems(items), u < t  PROVE Off(items, u) <= Base
  <2>1. Off(items, u - 1) < Base => Off(items, u) <= Base
    BY <1>2, <1>14 DEF TagsInv
  <2>2. /\ Off(items, u - 1) \in Nat /\ Off(items, u) \in Nat /\ u \in 0..Len(items)
        /\ Off(items, u) = Off(items, u - 1) + TagLen
        /\ Off(items, u - 1) + 1 \in TagsIn(FlattenSeq(items))
    BY <1>3, TagItemPlace
  <2>3. SUFFICES ASSUME Off(items, u - 1) >= Base  PROVE FALSE
    BY <1>3, <2>1, <2>2
  <2>4. Off(items, u - 1) + 1 > Base
    BY <1>3, <2>2, <2>3
  <2>5. Off(items, u - 1) + 1 >= Base + x + 1
    BY <1>5, <2>2, <2>4
  <2>6. Off(items, u) <= Off(items, t - 1)
    BY <1>3, <1>14, <2>2, TagOrder
  <2> QED BY <1>3, <1>4, <1>5, <1>10, <2>2, <2>5, <2>6, SMTT(30)
<1>15. ASSUME Sound  PROVE Cardinality(TagsBy(items, Base')) = Len(out) + 1
  <2>1. Cardinality(TagsBy(items, Off(items, t))) = Cardinality(TagsBy(items, Base)) + 1
    <3> DEFINE b == Base
    <3>1. b \in Nat /\ b < Off(items, t) /\ \A u \in TagItems(items) : u < t => Off(items, u) <= b
      BY <1>3, <1>10, <1>14, <1>15
    <3> HIDE DEF b
    <3>2. Cardinality(TagsBy(items, Off(items, t))) = Cardinality(TagsBy(items, b)) + 1
      BY <1>3, <3>1, OneMoreTag
    <3> QED BY <3>2 DEF b
  <2>2. Len(out) = Cardinality(TagsBy(items, Base))
    BY <1>2, <1>15 DEF TagsInv
  <2> QED BY <1>10, <2>1, <2>2
<1>16. BootAt(l, t, t)'
  <2>1. IsBoot(items, <<>>, t, t)
    BY <1>3, BootStarts
  <2>2. Sound => Rank(items, t) = l
    BY <1>0, <1>3, <1>10, <1>15, RankIs
  <2>3. Sound' <=> Sound
    BY <1>1 DEF Sound
  <2>4. Off(items', t) <= Base'
    BY <1>1, <1>9, <1>10
  <2>5. IsBoot(items', out'[l], t, t)
    BY <1>0, <1>1, <1>12, <2>1
  <2>6. Sound' => Rank(items', t) = l
    BY <1>1, <2>2, <2>3
  <2> QED BY <2>4, <2>5, <2>6 DEF BootAt
<1>17. BootsInv'
  <2>1. ASSUME NEW n \in DOMAIN out'
        PROVE  \E v \in TagItems(items'), k \in DOMAIN items' : BootAt(n, v, k)'
    <3>1. CASE n \in DOMAIN out
      BY <1>1, <1>2, <1>3, <1>7, <1>12, <3>1, BootStays
    <3>2. CASE n = l
      BY <1>1, <1>3, <1>9, <1>16, <3>2
    <3>3. DOMAIN out' = 1..(Len(out) + 1)
      BY <1>12, LenProperties
    <3> QED BY <1>0, <1>3, <3>1, <3>2, <3>3
  <2>2. \E v \in TagItems(items'), k \in DOMAIN items' :
          BootAt(l, v, k)' /\ Off(items', k) = Base'
    BY <1>1, <1>3, <1>9, <1>10, <1>16
  <2>3. (\E v \in TagItems(items), k \in DOMAIN items :
           BootAt(Len(out), v, k) /\ Off(items, k) = Base)'
    BY <1>0, <1>12, <2>2
  <2> QED BY <1>1, <1>12, <2>1, <2>3 DEF BootsInv
<1>18. TagsInv'
  <2> SUFFICES ASSUME Sound'
               PROVE  /\ Len(out') = Cardinality(TagsBy(items', Base'))
                      /\ is_synced' \/ out' = <<>>
                      /\ \A u \in TagItems(items') :
                           Off(items', u - 1) < Base' => Off(items', u) <= Base'
    BY DEF TagsInv
  <2>1. Sound
    BY <1>1 DEF Sound
  <2>2. Len(out') = Cardinality(TagsBy(items', Base'))
    BY <1>1, <1>12, <1>15, <2>1
  <2>3. ASSUME NEW u \in TagItems(items), Off(items, u - 1) < Off(items, t)
        PROVE  Off(items, u) <= Off(items, t)
    BY <1>3, <1>9, <2>3, UncutAt
  <2> QED BY <1>1, <1>10, <2>2, <2>3
<1>19. DoneInv'
  BY <1>1 DEF DoneInv
<1> QED BY <1>13, <1>17, <1>18, <1>19 DEF IInv

\* The size that is known is that of the header at the beginning of the buffer.
LEMMA SizeIs ==
  ASSUME BootsInv, HeaderKnown
  PROVE  Len(buffer) >= HeaderLen /\ Size = SizeOf(buffer)
BY DEF BootsInv, HeaderKnown, Size

\* The parser gives up only if there is a corrupt header.
LEMMA CorruptHeaderInv ==
  ASSUME IInv, CorruptHeader
  PROVE  IInv'
<1>1. /\ ~HasTag(buffer) /\ is_synced /\ HeaderKnown /\ Size < HeaderLen
      /\ buffer' = <<>> /\ expected_size' = None /\ is_synced' = FALSE /\ parsing' = FALSE
      /\ items' = items /\ read' = read /\ out' = out
  BY DEF CorruptHeader
<1>2. /\ TypeInv /\ BootsInv /\ TagsInv /\ items \in Streams
  BY DEF IInv, TypeInv
<1>3. /\ Len(buffer) \in Nat /\ DOMAIN items = 1..Len(items)
      /\ Len(buffer) >= HeaderLen /\ SizeOf(buffer) < HeaderLen
  BY <1>1, <1>2, StateFacts, SizeIs
<1>4. PICK t \in TagItems(items), k \in 1..Len(items) :
        /\ BootAt(Len(out), t, k) /\ Off(items, k) = Base
        /\ Off(items, k) <= read /\ read <= Len(FlattenSeq(items)) /\ read \in Nat
        /\ buffer = Window(FlattenSeq(items), Off(items, k), read)
  BY <1>1, <1>2, SyncedAt
<1>5. k + 1 \in 1..Len(items) /\ items[k + 1] \in Corrupt
  BY <1>1, <1>2, <1>3, <1>4, NextItem
<1>6. ~Sound /\ ~Sound'
  BY <1>1, <1>3, <1>5 DEF Sound
<1>7. buffer' = SubSeq(buffer, Len(buffer) + 1, Len(buffer)) /\ Len(buffer) \in 0..Len(buffer)
  <2>1. Len(buffer) + 1 \in Int /\ Len(buffer) \in Int /\ Len(buffer) < Len(buffer) + 1
    BY <1>3
  <2> QED BY <1>1, <1>3, <2>1, SubSeqEmpty
<1>8. /\ buffer' \in Seq(Nat) /\ Len(buffer') <= read'
      /\ buffer' = Window(FlattenSeq(items'), Base', read')
      /\ Base' \in Nat /\ Base <= Base'
  BY <1>1, <1>2, <1>7, Dropped
<1>9. TypeInv'
  <2>1. 0 \in Nat
    OBVIOUS
  <2> QED BY <1>1, <1>2, <1>8, <2>1 DEF TypeInv, None
<1>10. BootsInv'
  BY <1>1, <1>2, <1>8, UnsyncedBoots
<1>11. TagsInv'
  BY <1>6 DEF TagsInv
<1>12. DoneInv'
  <2>1. ~HasTag(buffer')
    BY <1>1, <1>2, <1>7, StillNoTag
  <2> QED BY <1>1, <2>1 DEF DoneInv
<1> QED BY <1>9, <1>10, <1>11, <1>12 DEF IInv

\* What is yielded is the next item, a packet.
LEMMA PacketInv ==
  ASSUME IInv, Packet
  PROVE  IInv'
<1>1. /\ ~HasTag(buffer) /\ is_synced /\ HeaderKnown /\ Size >= HeaderLen /\ Len(buffer) >= Size
      /\ out' = [out EXCEPT ![Len(out)] = Append(@, FirstBytes(buffer, Size))]
      /\ buffer' = Drop(buffer, Size) /\ expected_size' = None /\ parsing' = TRUE
      /\ items' = items /\ read' = read /\ is_synced' = is_synced
  BY DEF Packet, IInv, TypeInv
<1>2. /\ TypeInv /\ BootsInv /\ TagsInv /\ items \in Streams
  BY DEF IInv, TypeInv
<1>3. /\ items \in Seq(Bytes) /\ Len(items) \in Nat /\ DOMAIN items = 1..Len(items)
      /\ Len(buffer) \in Nat /\ Base \in Nat /\ Base <= read /\ Len(buffer) = read - Base
      /\ Len(out) \in Nat /\ DOMAIN out = 1..Len(out) /\ out \in Seq(Seq(Packets))
  BY <1>2, StateFacts DEF TypeInv
<1>4. Len(buffer) >= HeaderLen /\ Size = SizeOf(buffer)
  BY <1>1, <1>2, SizeIs
<1>5. PICK t \in TagItems(items), k \in 1..Len(items) :
        /\ BootAt(Len(out), t, k) /\ Off(items, k) = Base
        /\ Off(items, k) <= read /\ read <= Len(FlattenSeq(items)) /\ read \in Nat
        /\ buffer = Window(FlattenSeq(items), Off(items, k), read)
  BY <1>1, <1>2, SyncedAt
<1> DEFINE i == items[k + 1]
<1>6. /\ k + 1 \in 1..Len(items) /\ Len(i) \in Nat /\ Off(items, k + 1) = Off(items, k) + Len(i)
      /\ i \in Packets \ {Tag} /\ Size = Len(i) /\ FirstBytes(buffer, Size) = i
  <2>1. SizeOf(buffer) >= HeaderLen /\ Len(buffer) >= SizeOf(buffer)
    BY <1>1, <1>4
  <2>2. k + 1 \in 1..Len(items) /\ Len(i) \in Nat /\ Off(items, k + 1) = Off(items, k) + Len(i)
    BY <1>1, <1>2, <1>4, <1>5, NextItem
  <2>3. i \in Packets \ {Tag} /\ SizeOf(buffer) = Len(i) /\ FirstBytes(buffer, SizeOf(buffer)) = i
    BY <1>1, <1>2, <1>4, <1>5, <2>1, NextItem
  <2> QED BY <1>4, <2>2, <2>3
<1> HIDE DEF i
<1>7. buffer' = SubSeq(buffer, Len(i) + 1, Len(buffer)) /\ Len(i) \in 0..Len(buffer)
  BY <1>1, <1>3, <1>6 DEF Drop
<1>8. /\ buffer' \in Seq(Nat) /\ Len(buffer') <= read'
      /\ buffer' = Window(FlattenSeq(items'), Base', read')
      /\ Base' \in Nat /\ Base' = Base + Len(i) /\ Base <= Base'
  BY <1>1, <1>2, <1>7, Dropped
<1>9. Base' = Off(items, k + 1)
  BY <1>5, <1>6, <1>8
<1>0. PICK l \in Nat : l = Len(out)
  BY <1>3
<1>10. l \in 1..Len(out)
  BY <1>0, <1>1, <1>2, <1>3, SyncedAt
<1>11. out[l] \in Seq(Packets) /\ Append(out[l], i) \in Seq(Packets)
  <2>1. out[l] \in Seq(Packets)
    BY <1>3, <1>10, ElementOfSeq
  <2> QED BY <1>6, <2>1, AppendProperties
<1>12. out' = [out EXCEPT ![l] = Append(out[l], i)]
  BY <1>0, <1>1, <1>6
<1>13. /\ out' \in Seq(Seq(Packets)) /\ Len(out') = l
       /\ \A n \in 1..Len(out) : out'[n] = IF n = l THEN Append(out[l], i) ELSE out[n]
  BY <1>0, <1>3, <1>10, <1>11, <1>12, ExceptSeq
<1>14. DOMAIN out' = 1..Len(out)
  BY <1>0, <1>13, LenProperties
<1>15. TypeInv'
  <2>1. 0 \in Nat
    OBVIOUS
  <2> QED BY <1>1, <1>2, <1>8, <1>13, <2>1 DEF TypeInv, None
<1>16. IsBoot(items, out[l], t, k) /\ IsBoot(items, Append(out[l], i), t, k + 1)
  <2>1. IsBoot(items, out[l], t, k)
    BY <1>0, <1>5 DEF BootAt
  <2>2. IsBoot(items, Append(out[l], items[k + 1]), t, k + 1)
    BY <1>3, <1>6, <2>1, BootGrows DEF i
  <2> QED BY <2>1, <2>2 DEF i
<1>17. BootAt(l, t, k + 1)'
  <2>1. Sound => Rank(items, t) = l
    BY <1>0, <1>5 DEF BootAt
  <2>2. Sound' => Rank(items', t) = l
    BY <1>1, <2>1 DEF Sound
  <2>3. IsBoot(items', out'[l], t, k + 1)
    BY <1>1, <1>10, <1>13, <1>16
  <2>4. Off(items', k + 1) <= Base'
    BY <1>1, <1>8, <1>9
  <2> QED BY <2>2, <2>3, <2>4 DEF BootAt
<1>18. BootsInv'
  <2>1. ASSUME NEW n \in DOMAIN out'
        PROVE  \E v \in TagItems(items'), m \in DOMAIN items' : BootAt(n, v, m)'
    <3>1. CASE n = l
      BY <1>1, <1>3, <1>6, <1>17, <3>1
    <3>2. CASE n # l
      BY <1>1, <1>2, <1>3, <1>8, <1>13, <1>14, <3>2, BootStays
    <3> QED BY <3>1, <3>2
  <2>2. \E v \in TagItems(items'), m \in DOMAIN items' :
          BootAt(l, v, m)' /\ Off(items', m) = Base'
    BY <1>1, <1>3, <1>6, <1>9, <1>17
  <2>3. (\E v \in TagItems(items), m \in DOMAIN items :
           BootAt(Len(out), v, m) /\ Off(items, m) = Base)'
    BY <1>0, <1>13, <2>2
  <2>4. out' # <<>>
    BY <1>10, <1>13, EmptySeq
  <2> QED BY <1>1, <2>1, <2>3, <2>4 DEF BootsInv
<1>19. TagsInv'
  <2> SUFFICES ASSUME Sound'
               PROVE  /\ Len(out') = Cardinality(TagsBy(items', Base'))
                      /\ is_synced' \/ out' = <<>>
                      /\ \A u \in TagItems(items') :
                           Off(items', u - 1) < Base' => Off(items', u) <= Base'
    BY DEF TagsInv
  <2>1. Sound
    BY <1>1 DEF Sound
  <2>2. TagsBy(items, Off(items, k + 1)) = TagsBy(items, Off(items, k))
    BY <1>3, <1>16, RankOfBoot
  <2>3. Len(out) = Cardinality(TagsBy(items, Base))
    BY <1>2, <2>1 DEF TagsInv
  <2>4. Len(out') = Cardinality(TagsBy(items', Base'))
    BY <1>0, <1>1, <1>5, <1>9, <1>13, <2>2, <2>3
  <2>5. k + 1 \in 0..Len(items)
    BY <1>6
  <2>6. ASSUME NEW u \in TagItems(items), Off(items, u - 1) < Off(items, k + 1)
        PROVE  Off(items, u) <= Off(items, k + 1)
    BY <1>3, <2>5, <2>6, UncutAt
  <2> QED BY <1>1, <1>9, <2>4, <2>6
<1>20. DoneInv'
  BY <1>1 DEF DoneInv
<1> QED BY <1>15, <1>18, <1>19, <1>20 DEF IInv

\* The rest of a packet has not arrived yet: its size is kept, if it is known.
LEMMA IncompleteInv ==
  ASSUME IInv, Incomplete
  PROVE  IInv'
<1>1. /\ ~HasTag(buffer) /\ is_synced /\ (HeaderKnown => Size >= HeaderLen /\ Len(buffer) < Size)
      /\ expected_size' = IF HeaderKnown THEN Size ELSE None
      /\ parsing' = FALSE /\ items' = items /\ read' = read /\ buffer' = buffer
      /\ is_synced' = is_synced /\ out' = out
  BY DEF Incomplete
<1>2. /\ TypeInv /\ BootsInv /\ TagsInv
  BY DEF IInv
<1>3. Base' = Base /\ (Sound' <=> Sound) /\ Len(buffer) \in Nat
  BY <1>1, <1>2, StateFacts DEF Base, Sound
<1>4. HeaderKnown => Len(buffer) >= HeaderLen /\ Size = SizeOf(buffer)
  BY <1>2, SizeIs
<1>5. HeaderLen = 2
  BY DEF HeaderLen
<1>6. HeaderKnown => Size \in Nat
  <2> SUFFICES ASSUME HeaderKnown  PROVE Size \in Nat
    OBVIOUS
  <2>1. buffer \in Seq(Nat) /\ 2 \in 1..Len(buffer)
    BY <1>2, <1>3, <1>4, <1>5 DEF TypeInv
  <2>2. buffer[2] \in Nat
    BY <2>1, ElementOfSeq
  <2>3. \A n \in Nat : n \div 8 \in Nat
    OBVIOUS
  <2> QED BY <1>4, <2>2, <2>3 DEF SizeOf
<1>7. TypeInv'
  <2>1. expected_size' \in Nat
    BY <1>1, <1>6 DEF None
  <2> QED BY <1>1, <1>2, <1>3, <2>1 DEF TypeInv
<1>8. BootsInv'
  <2>1. \A n, t, k : BootAt(n, t, k) <=> BootAt(n, t, k)'
    BY <1>1, <1>3 DEF BootAt
  <2>2. expected_size' # None =>
          is_synced' /\ Len(buffer') >= HeaderLen /\ expected_size' = SizeOf(buffer')
    BY <1>1, <1>4
  <2>3. \A n \in DOMAIN out' : \E t \in TagItems(items'), k \in DOMAIN items' : BootAt(n, t, k)'
    BY <1>1, <1>2, <2>1 DEF BootsInv
  <2>4. /\ out' # <<>>
        /\ \E t \in TagItems(items), k \in DOMAIN items :
             BootAt(Len(out), t, k)' /\ Off(items, k) = Base
    BY <1>1, <1>2, <2>1 DEF BootsInv
  <2>5. (\E t \in TagItems(items), k \in DOMAIN items :
           BootAt(Len(out), t, k) /\ Off(items, k) = Base)'
    BY <1>1, <1>3, <2>4
  <2> QED BY <2>2, <2>3, <2>4, <2>5 DEF BootsInv
<1>9. TagsInv'
  BY <1>1, <1>2, <1>3 DEF TagsInv
<1>10. DoneInv'
  <2>1. ASSUME HeaderKnown'
        PROVE  Size' >= HeaderLen /\ Len(buffer') < Size'
    <3>1. HeaderKnown
      BY <1>1, <2>1 DEF HeaderKnown
    <3>2. expected_size' = Size /\ Size # None
      BY <1>1, <1>5, <1>6, <3>1 DEF None
    <3>3. Size' = Size
      BY <3>2 DEF Size
    <3> QED BY <1>1, <3>1, <3>3
  <2>2. ~HasTag(buffer')
    BY <1>1
  <2> QED BY <2>1, <2>2 DEF DoneInv
<1> QED BY <1>7, <1>8, <1>9, <1>10 DEF IInv

LEMMA InvStep == IInv /\ [Next]_vars => IInv'
<1> SUFFICES ASSUME IInv, [Next]_vars  PROVE IInv'
  OBVIOUS
<1>1. ASSUME NEW n \in 1..MaxRead, Receive(n)  PROVE IInv'
  BY <1>1, ReceiveInv
<1>2. CASE FoundTag
  BY <1>2, FoundTagInv
<1>3. CASE Unsynced
  BY <1>3, UnsyncedInv
<1>4. CASE CorruptHeader
  BY <1>4, CorruptHeaderInv
<1>5. CASE Packet
  BY <1>5, PacketInv
<1>6. CASE Incomplete
  BY <1>6, IncompleteInv
<1>7. CASE UNCHANGED vars
  BY <1>7 DEF vars, IInv, TypeInv, BootsInv, TagsInv, DoneInv, BootAt, Sound, Base, HeaderKnown,
     Size
<1> QED BY <1>1, <1>2, <1>3, <1>4, <1>5, <1>6, <1>7 DEF Next

LEMMA InvAlways == Spec => []IInv
BY InitInv, InvStep, PTL DEF Spec

----------------------------------------------------------------------------
\* The reference

\* A set of successive numbers
LEMMA RunOf ==
  ASSUME NEW t \in Nat, NEW n \in Nat, t <= n, NEW A, A \subseteq (t + 1)..n,
         \A a \in A : \A b \in (t + 1)..a : b \in A
  PROVE  /\ Cardinality(A) \in Nat /\ t + Cardinality(A) <= n
         /\ A = (t + 1)..(t + Cardinality(A))
<1> DEFINE G == {m \in Nat : t <= m /\ m <= n /\ m + 1 \notin A}
<1>1. n \in G
  OBVIOUS
<1>2. PICK m \in G : \A k \in G : m <= k
  <2>1. G \in SUBSET Nat
    OBVIOUS
  <2> HIDE DEF G
  <2> QED BY <1>1, <2>1, LeastNat
<1>3. m \in Nat /\ t <= m /\ m <= n /\ m + 1 \notin A
  OBVIOUS
<1>4. ASSUME NEW b \in (t + 1)..m  PROVE b \in A
  <2>1. b - 1 \in Nat /\ t <= b - 1 /\ b - 1 <= n /\ ~(m <= b - 1) /\ (b - 1) + 1 = b
    BY <1>3
  <2>2. b - 1 \notin G
    <3> HIDE DEF G
    <3> QED BY <1>2, <2>1
  <2> QED BY <2>1, <2>2
<1>5. ASSUME NEW a \in A  PROVE a \in (t + 1)..m
  <2>1. a \in (t + 1)..n
    OBVIOUS
  <2>2. a > m => m + 1 \in (t + 1)..a
    BY <1>3, <2>1
  <2> QED BY <1>3, <2>1, <2>2
<1>6. A = (t + 1)..m
  BY <1>4, <1>5
<1>7. Cardinality((t + 1)..m) = m - t
  <2>1. Cardinality((t + 1)..m) = IF t + 1 > m THEN 0 ELSE m - (t + 1) + 1
    BY <1>3, FS_Interval
  <2> QED BY <1>3, <2>1
<1>8. Cardinality(A) = m - t
  BY <1>6, <1>7
<1>9. t + Cardinality(A) = m
  BY <1>3, <1>8
<1> QED BY <1>3, <1>6, <1>8, <1>9

\* What has been read completely is a first part of the items.
LEMMA WholeIs ==
  TypeInv => \E m \in 0..Len(items) :
               /\ WholeItems = SubSeq(items, 1, m)
               /\ \A n \in 1..Len(items) : Off(items, n) <= read <=> n <= m
<1> SUFFICES ASSUME TypeInv
             PROVE  \E m \in 0..Len(items) :
                      /\ WholeItems = SubSeq(items, 1, m)
                      /\ \A n \in 1..Len(items) : Off(items, n) <= read <=> n <= m
  OBVIOUS
<1>1. items \in Seq(Bytes) /\ Len(items) \in Nat /\ DOMAIN items = 1..Len(items) /\ read \in Nat
  BY StateFacts
<1> DEFINE A == {n \in DOMAIN items : Off(items, n) <= read}
           m == Cardinality(A)
<1>2. WholeItems = SubSeq(items, 1, m)
  BY DEF WholeItems, Off, Sent
<1>3. 0 \in Nat /\ 0 <= Len(items) /\ A \subseteq (0 + 1)..Len(items)
  BY <1>1
<1>4. ASSUME NEW a \in A, NEW b \in (0 + 1)..a  PROVE b \in A
  <2>1. a \in 0..Len(items) /\ b \in 0..Len(items) /\ b <= a /\ b \in DOMAIN items
    BY <1>1
  <2>2. Off(items, b) <= Off(items, a)
    BY <1>1, <2>1, OffGrows
  <2>3. Off(items, a) \in Nat /\ Off(items, b) \in Nat /\ Off(items, a) <= read
    BY <1>1, <2>1, OffType
  <2>4. Off(items, b) <= read
    BY <1>1, <2>2, <2>3
  <2> QED BY <2>1, <2>4
<1>5. m \in Nat /\ 0 + m <= Len(items) /\ A = (0 + 1)..(0 + m)
  <2> HIDE DEF A
  <2> QED BY <1>1, <1>3, <1>4, RunOf
<1>6. ASSUME NEW n \in 1..Len(items)  PROVE Off(items, n) <= read <=> n <= m
  <2>1. Off(items, n) <= read <=> n \in A
    BY <1>1
  <2> HIDE DEF A
  <2>2. n \in A <=> n <= m
    BY <1>5
  <2> QED BY <2>1, <2>2
<1> HIDE DEF m
<1>7. m \in 0..Len(items)
  BY <1>1, <1>5
<1> QED BY <1>2, <1>6, <1>7

LEMMA BootsOfType ==
  ASSUME NEW is \in Seq(Bytes)
  PROVE  /\ Len(BootsOf(is)) = Cardinality(TagItems(is))
         /\ DOMAIN BootsOf(is) = 1..Cardinality(TagItems(is))
         /\ \A n \in 1..Cardinality(TagItems(is)) :
              BootsOf(is)[n] = PacketsOfBoot(is, TagItem(is, n))
<1> DEFINE c == Cardinality(TagItems(is))
           f == [n \in 1..c |-> PacketsOfBoot(is, TagItem(is, n))]
           R == {f[n] : n \in 1..c}
<1>1. c \in Nat
  BY TagItemType, FS_CardinalityType
<1>2. BootsOf(is) = f
  BY DEF BootsOf
<1>3. f \in [1..c -> R]
  OBVIOUS
<1>4. DOMAIN f = 1..c /\ \A n \in 1..c : f[n] = PacketsOfBoot(is, TagItem(is, n))
  OBVIOUS
<1> HIDE DEF f, R, c
<1>5. f \in Seq(R)
  BY <1>1, <1>3, SeqDef
<1>6. Len(f) \in Nat /\ DOMAIN f = 1..Len(f)
  BY <1>5, LenProperties
<1>7. Len(f) = c
  BY <1>1, <1>4, <1>6, SameLength
<1> QED BY <1>2, <1>4, <1>7 DEF c

\* The number of a tag tells which one it is.
LEMMA TagItemIs ==
  ASSUME NEW is \in Seq(Bytes), NEW t \in TagItems(is)
  PROVE  Rank(is, t) \in 1..Cardinality(TagItems(is)) /\ TagItem(is, Rank(is, t)) = t
<1> DEFINE U(v) == {u \in TagItems(is) : u <= v}
<1>1. TagItems(is) \subseteq 1..Len(is) /\ IsFiniteSet(TagItems(is)) /\ Len(is) \in Nat
  BY TagItemType, LenProperties
<1>2. \A v : IsFiniteSet(U(v)) /\ Cardinality(U(v)) \in Nat /\ Rank(is, v) = Cardinality(U(v))
  BY TagItemType DEF Rank
<1>3. t \in U(t)
  BY <1>1
<1>4. Cardinality(U(t)) # 0
  <2> HIDE DEF U
  <2> QED BY <1>2, <1>3, FS_EmptySet
<1>5. U(t) \subseteq TagItems(is)
  OBVIOUS
<1>6. Cardinality(U(t)) <= Cardinality(TagItems(is)) /\ Cardinality(TagItems(is)) \in Nat
  <2> HIDE DEF U
  <2> QED BY <1>1, <1>5, FS_Subset, FS_CardinalityType
<1>7. ASSUME NEW v \in TagItems(is), NEW w \in TagItems(is), v < w
      PROVE  Cardinality(U(v)) # Cardinality(U(w))
  <2>1. v \in Nat /\ w \in Nat
    BY <1>1
  <2>2. U(v) \subseteq U(w)
    BY <1>1, <1>7, <2>1
  <2>3. w \in U(w) /\ w \notin U(v)
    BY <1>7, <2>1
  <2> HIDE DEF U
  <2>4. Cardinality(U(w)) = Cardinality(U(v)) => U(w) = U(v)
    BY <1>2, <2>2, FS_Subset
  <2> QED BY <2>3, <2>4
<1>8. ASSUME NEW v \in TagItems(is), Cardinality(U(v)) = Cardinality(U(t))  PROVE v = t
  <2>1. v \in Nat /\ t \in Nat
    BY <1>1
  <2>2. ~(v < t) /\ ~(t < v)
    <3> HIDE DEF U
    <3> QED BY <1>7, <1>8
  <2> QED BY <2>1, <2>2
<1>9. TagItem(is, Rank(is, t)) = CHOOSE v \in TagItems(is) : Cardinality(U(v)) = Cardinality(U(t))
  BY DEF TagItem, Rank
<1>10. TagItem(is, Rank(is, t)) = t
  <2> HIDE DEF U
  <2> QED BY <1>8, <1>9
<1>11. Rank(is, t) \in 1..Cardinality(TagItems(is))
  <2> HIDE DEF U
  <2> QED BY <1>2, <1>4, <1>6
<1> QED BY <1>10, <1>11

\* The tags among the first items
IsFront(w, is, m) == w = SubSeq(is, 1, m)

LEMMA TagsOfFront ==
  ASSUME NEW is \in Seq(Bytes), NEW m \in 0..Len(is), NEW w, IsFront(w, is, m)
  PROVE  /\ w \in Seq(Bytes) /\ Len(w) = m /\ DOMAIN w = 1..m
         /\ \A j \in 1..m : w[j] = is[j]
         /\ TagItems(w) = {u \in TagItems(is) : u <= m}
<1>1. w \in Seq(Bytes) /\ Len(w) = m /\ \A j \in 1..m : w[j] = is[j]
  BY FrontOf DEF IsFront
<1>2. DOMAIN w = 1..m
  BY <1>1, LenProperties
<1>3. Len(is) \in Nat /\ DOMAIN is = 1..Len(is)
  BY LenProperties
<1>4. \A u : u \in 1..m <=> u \in 1..Len(is) /\ u <= m
  BY <1>3
<1>5. TagItems(w) = {u \in TagItems(is) : u <= m}
  BY <1>1, <1>2, <1>3, <1>4 DEF TagItems
<1> QED BY <1>1, <1>2, <1>5

\* The packets of a boot up to item k are the first ones of the boot in the reference, and
\* all of them if nothing more has been read.
LEMMA BootFound ==
  ASSUME NEW is \in Seq(Bytes), NEW m \in 0..Len(is), NEW w, IsFront(w, is, m),
         NEW b, NEW t, NEW k, IsBoot(is, b, t, k), k <= m
  PROVE  /\ Rank(is, t) \in DOMAIN BootsOf(w)
         /\ IsPrefix(b, BootsOf(w)[Rank(is, t)])
         /\ k = m => b = BootsOf(w)[Rank(is, t)]
<1>1. /\ w \in Seq(Bytes) /\ Len(w) = m /\ DOMAIN w = 1..m /\ m \in Nat
      /\ \A j \in 1..m : w[j] = is[j]
      /\ TagItems(w) = {u \in TagItems(is) : u <= m}
  <2>1. /\ w \in Seq(Bytes) /\ Len(w) = m /\ DOMAIN w = 1..m
        /\ \A j \in 1..m : w[j] = is[j]
        /\ TagItems(w) = {u \in TagItems(is) : u <= m}
    BY TagsOfFront
  <2> QED BY <2>1
<1>2. /\ t \in TagItems(is) /\ t \in 1..Len(is) /\ k \in t..Len(is) /\ Len(is) \in Nat
      /\ b = SubSeq(is, t + 1, k) /\ \A j \in (t + 1)..k : is[j] \in Packets \ {Tag}
  BY TagItemType, LenProperties DEF IsBoot
<1>3. t \in TagItems(w) /\ t \in Nat /\ t >= 1 /\ k \in Nat /\ t <= k /\ t <= m
  BY <1>1, <1>2
<1>4. Rank(w, t) = Rank(is, t)
  <2>1. \A u \in TagItems(is) : u \in Nat
    BY TagItemPlace
  <2>2. \A u \in TagItems(is) : u <= t => u <= m
    BY <1>1, <1>3, <2>1
  <2>3. \A u : u \in TagItems(w) <=> u \in TagItems(is) /\ u <= m
    BY <1>1
  <2>4. {u \in TagItems(w) : u <= t} = {u \in TagItems(is) : u <= t}
    BY <2>2, <2>3
  <2> QED BY <2>4 DEF Rank
<1>5. /\ Rank(is, t) \in 1..Cardinality(TagItems(w))
      /\ TagItem(w, Rank(is, t)) = t
  BY <1>1, <1>3, <1>4, TagItemIs
<1>6. Rank(is, t) \in DOMAIN BootsOf(w) /\ BootsOf(w)[Rank(is, t)] = PacketsOfBoot(w, t)
  BY <1>1, <1>5, BootsOfType
<1> DEFINE A == BootItems(w, t)
           c == Cardinality(A)
           p == PacketsOfBoot(w, t)
<1>7. A \subseteq (t + 1)..m
  BY <1>1, <1>3 DEF BootItems
<1>8. ASSUME NEW a \in A, NEW e \in (t + 1)..a  PROVE e \in A
  <2>1. a \in 1..m /\ \A j \in (t + 1)..a : w[j] \in Packets \ {Tag}
    BY <1>1 DEF BootItems
  <2>2. e \in 1..m /\ e > t
    BY <1>3, <2>1
  <2>3. \A j \in (t + 1)..e : j \in (t + 1)..a
    BY <1>3, <2>1
  <2> QED BY <1>1, <2>1, <2>2, <2>3 DEF BootItems
<1>9. c \in Nat /\ t + c <= m /\ A = (t + 1)..(t + c)
  <2> HIDE DEF A
  <2> QED BY <1>1, <1>3, <1>7, <1>8, RunOf
<1>10. k <= t + c
  <2>1. CASE k = t
    BY <1>3, <1>9, <2>1
  <2>2. CASE k # t
    <3>1. k \in 1..m /\ k > t
      BY <1>1, <1>3, <2>2
    <3>2. \A j \in (t + 1)..k : j \in 1..m
      BY <1>1, <1>3
    <3>3. \A j \in (t + 1)..k : w[j] \in Packets \ {Tag}
      BY <1>1, <1>2, <3>2
    <3>4. k \in A
      BY <1>1, <3>1, <3>3 DEF BootItems
    <3> HIDE DEF A, c
    <3>5. k \in (t + 1)..(t + c)
      BY <1>9, <3>4
    <3> QED BY <1>3, <1>9, <3>5
  <2> QED BY <2>1, <2>2
<1> HIDE DEF A
<1>11. /\ p \in Seq(Bytes) /\ Len(p) = c
       /\ \A i \in 1..c : p[i] = w[t + i]
  <2>1. t + 1 \in 1..(Len(w) + 1) /\ t + c \in 0..Len(w)
    BY <1>1, <1>3, <1>9
  <2> DEFINE q == SubSeq(w, t + 1, t + c)
  <2>2. /\ q \in Seq(Bytes)
        /\ Len(q) = IF t + 1 <= t + c THEN (t + c) - (t + 1) + 1 ELSE 0
        /\ \A i \in 1..((t + c) - (t + 1) + 1) : q[i] = w[(t + 1) + i - 1]
    <3> HIDE DEF c
    <3> QED BY <1>1, <2>1, PieceOf, SMTT(30)
  <2>3. p = q
    BY DEF PacketsOfBoot, A
  <2> HIDE DEF p, q, c
  <2>4. Len(q) = c
    BY <1>3, <1>9, <2>2
  <2>5. \A i \in 1..c : i \in 1..((t + c) - (t + 1) + 1) /\ (t + 1) + i - 1 = t + i
    BY <1>3, <1>9
  <2> QED BY <2>2, <2>3, <2>4, <2>5
<1> HIDE DEF c, p
<1>12. /\ b \in Seq(Bytes) /\ Len(b) = k - t
       /\ \A i \in 1..(k - t) : b[i] = is[t + i]
  <2>1. t + 1 \in 1..(Len(is) + 1) /\ k \in 0..Len(is)
    BY <1>2, <1>3
  <2>2. /\ b \in Seq(Bytes) /\ Len(b) = IF t + 1 <= k THEN k - (t + 1) + 1 ELSE 0
        /\ \A i \in 1..(k - (t + 1) + 1) : b[i] = is[(t + 1) + i - 1]
    BY <1>2, <2>1, PieceOf
  <2>3. Len(b) = k - t
    BY <1>3, <2>2
  <2>4. \A i \in 1..(k - t) : i \in 1..(k - (t + 1) + 1) /\ (t + 1) + i - 1 = t + i
    BY <1>3
  <2> QED BY <2>2, <2>3, <2>4
<1>13. ASSUME NEW i \in 1..Len(b)  PROVE i \in 1..c /\ b[i] = p[i]
  <2>1. i \in 1..(k - t) /\ i \in 1..c /\ t + i \in 1..m
    BY <1>1, <1>3, <1>9, <1>10, <1>12
  <2> QED BY <1>1, <1>11, <1>12, <2>1
<1>14. Len(b) <= Len(p) /\ Len(b) \in Nat /\ Len(p) \in Nat
  BY <1>3, <1>9, <1>10, <1>11, <1>12
<1>15. SubSeq(b, 1, Len(b)) = SubSeq(p, 1, Len(b))
  <2>1. SubSeq(b, 1, Len(b)) = b
    BY <1>12, SubSeqFull
  <2>2. /\ SubSeq(p, 1, Len(b)) \in Seq(Bytes) /\ Len(SubSeq(p, 1, Len(b))) = Len(b)
        /\ \A i \in 1..Len(b) : SubSeq(p, 1, Len(b))[i] = p[i]
    <3>1. Len(b) \in 0..Len(p)
      BY <1>14
    <3> QED BY <1>11, <3>1, FrontOf
  <2> DEFINE q == SubSeq(p, 1, Len(b))
  <2>3. q \in Seq(Bytes) /\ Len(b) = Len(q) /\ \A i \in 1..Len(b) : b[i] = q[i]
    BY <1>13, <2>2
  <2> HIDE DEF q
  <2>4. b = q
    BY <1>12, <2>3, SeqEqual
  <2> QED BY <2>1, <2>4 DEF q
<1>16. IsPrefix(b, p)
  BY <1>14, <1>15 DEF IsPrefix
<1>17. ASSUME k = m  PROVE b = p
  <2>1. Len(b) = Len(p)
    BY <1>1, <1>3, <1>9, <1>10, <1>11, <1>12, <1>17
  <2> QED BY <1>11, <1>12, <1>13, <2>1, SeqEqual
<1> QED BY <1>6, <1>16, <1>17 DEF p

----------------------------------------------------------------------------
\* The theorems

LEMMA ReverseIs ==
  ASSUME NEW s \in Seq(Nat)
  PROVE  /\ Reverse(s) \in Seq(Nat) /\ Len(Reverse(s)) = Len(s)
         /\ \A i \in 1..Len(s) : Reverse(s)[i] = s[(Len(s) - i) + 1]
<1>1. Len(s) \in Nat
  BY LenProperties
<1>2. \A i \in 1..Len(s) : (Len(s) - i) + 1 \in 1..Len(s)
  BY <1>1
<1>3. \A i \in 1..Len(s) : s[(Len(s) - i) + 1] \in Nat
  BY <1>2, ElementOfSeq
<1>4. Reverse(s) = [i \in 1..Len(s) |-> s[(Len(s) - i) + 1]]
  BY DEF Reverse
<1>5. Reverse(s) \in [1..Len(s) -> Nat]
  BY <1>3, <1>4
<1>6. Reverse(s) \in Seq(Nat)
  BY <1>1, <1>5, SeqDef
<1>7. Len(Reverse(s)) \in Nat /\ DOMAIN Reverse(s) = 1..Len(Reverse(s))
  BY <1>6, LenProperties
<1>8. Len(Reverse(s)) = Len(s)
  <2>1. DOMAIN Reverse(s) = 1..Len(s)
    BY <1>5
  <2> QED BY <1>1, <1>7, <2>1, SameLength
<1> QED BY <1>4, <1>6, <1>8

LEMMA EndIsSuffix ==
  ASSUME NEW a \in Seq(Nat), NEW b \in Seq(Nat)
  PROVE  IsSuffix(b, a \o b)
<1> DEFINE u == a \o b
           x == Reverse(b)
           y == Reverse(u)
<1>1. Len(a) \in Nat /\ Len(b) \in Nat
  BY LenProperties
<1>2. /\ u \in Seq(Nat) /\ Len(u) = Len(a) + Len(b)
      /\ \A k \in 1..(Len(a) + Len(b)) : u[k] = IF k <= Len(a) THEN a[k] ELSE b[k - Len(a)]
  BY ConcatProperties
<1> HIDE DEF u
<1>3. /\ x \in Seq(Nat) /\ Len(x) = Len(b)
      /\ \A i \in 1..Len(b) : x[i] = b[(Len(b) - i) + 1]
  BY ReverseIs
<1>4. /\ y \in Seq(Nat) /\ Len(y) = Len(u)
      /\ \A i \in 1..Len(u) : y[i] = u[(Len(u) - i) + 1]
  BY <1>2, ReverseIs
<1> HIDE DEF x, y
<1>5. Len(x) <= Len(y)
  BY <1>1, <1>2, <1>3, <1>4
<1> DEFINE v == SubSeq(y, 1, Len(b))
<1>6. v \in Seq(Nat) /\ Len(v) = Len(b) /\ \A i \in 1..Len(b) : v[i] = y[i]
  <2>1. Len(b) \in 0..Len(y)
    BY <1>1, <1>2, <1>4
  <2> QED BY <1>4, <2>1, FrontOf
<1> HIDE DEF v
<1>7. Len(v) = Len(x)
  BY <1>3, <1>6
<1>8. ASSUME NEW i \in 1..Len(v)  PROVE v[i] = x[i]
  <2>1. /\ i \in 1..Len(b) /\ i \in 1..Len(u)
        /\ (Len(u) - i) + 1 \in 1..(Len(a) + Len(b)) /\ ~((Len(u) - i) + 1 <= Len(a))
        /\ ((Len(u) - i) + 1) - Len(a) = (Len(b) - i) + 1
    <3>1. Len(v) = Len(b) /\ Len(u) = Len(a) + Len(b)
      BY <1>2, <1>3, <1>7
    <3>2. i \in Nat /\ 1 <= i /\ i <= Len(b)
      BY <1>1, <3>1
    <3>3. /\ i \in 1..Len(b)
          /\ i \in 1..Len(u)
      BY <1>1, <3>1, <3>2
    <3>4. (Len(u) - i) + 1 \in 1..(Len(a) + Len(b))
      BY <1>1, <3>1, <3>2
    <3>5. ~((Len(u) - i) + 1 <= Len(a))
      BY <1>1, <3>1, <3>2
    <3>6. ((Len(u) - i) + 1) - Len(a) = (Len(b) - i) + 1
      BY <1>1, <3>1, <3>2
    <3> QED BY <3>3, <3>4, <3>5, <3>6
  <2> QED BY <2>1, <1>2, <1>3, <1>4, <1>6
<1>9. v = x
  BY <1>3, <1>6, <1>7, <1>8, SeqEqual
<1>10. SubSeq(x, 1, Len(x)) = x
  BY <1>3, SubSeqFull
<1> QED BY <1>3, <1>5, <1>9, <1>10 DEF IsSuffix, IsPrefix, u, v, x, y

LEMMA TypesFollow == TypeInv => TypeOK
<1> SUFFICES ASSUME TypeInv  PROVE TypeOK
  OBVIOUS
<1> DEFINE s == FlattenSeq(items)
<1>1. /\ s \in Seq(Nat) /\ Len(s) \in Nat
      /\ read \in Nat /\ read <= Len(s) /\ Base \in Nat /\ Base <= read
  BY StateFacts
<1>2. /\ read \in 0..Len(s) /\ buffer \in Seq(Nat) /\ buffer = Window(s, Base, read)
      /\ expected_size \in Nat /\ is_synced \in BOOLEAN /\ parsing \in BOOLEAN
      /\ out \in Seq(Seq(Packets))
  BY DEF TypeInv
<1> HIDE DEF s
<1>3. out \in Seq(Seq(Packets \cup Corrupt))
  <2>1. ASSUME NEW b \in Seq(Packets)  PROVE b \in Seq(Packets \cup Corrupt)
    BY SeqMonotonic
  <2>2. Seq(Packets) \subseteq Seq(Packets \cup Corrupt)
    BY <2>1
  <2> QED BY <1>2, <2>2, SeqMonotonic
<1>4. IsSuffix(buffer, FirstBytes(s, read))
  <2> DEFINE b == Base
             r == read
  <2>1. /\ b \in Nat /\ r \in Nat /\ r <= Len(s) /\ b <= r
        /\ 1 \in 1..(Len(s) + 1) /\ b \in (1 - 1)..Len(s) /\ r \in b..Len(s) /\ b \in 0..Len(s)
    BY <1>1
  <2> HIDE DEF b, r
  <2>2. SubSeq(s, 1, b) \o SubSeq(s, b + 1, r) = SubSeq(s, 1, r)
    BY <1>1, <2>1, ConcatAdjacentSubSeq
  <2>3. SubSeq(s, 1, b) \in Seq(Nat)
    BY <1>1, <2>1, FrontOf
  <2>4. Window(s, b, r) \in Seq(Nat)
    BY <1>1, <2>1, WindowType
  <2>5. IsSuffix(Window(s, b, r), SubSeq(s, 1, b) \o Window(s, b, r))
    BY <2>3, <2>4, EndIsSuffix
  <2>6. IsSuffix(Window(s, b, r), FirstBytes(s, r))
    BY <2>2, <2>5 DEF Window, FirstBytes
  <2> QED BY <1>2, <2>6 DEF b, r
<1> QED BY <1>2, <1>3, <1>4 DEF TypeOK, s

\* TypeOK of StreamParserProxy: what self.buffer holds is always the end of what process_data
\* was given (trace_handler.py:74-123).
THEOREM ProxyTypes == Spec => []TypeOK
<1>1. IInv => TypeOK
  BY TypesFollow DEF IInv
<1> QED BY <1>1, InvAlways, PTL

LEMMA RealFollows == IInv => OnlyRealPackets
<1> SUFFICES ASSUME IInv, NEW n \in DOMAIN out
             PROVE  \E m \in DOMAIN Wanted : IsPrefix(out[n], Wanted[m])
  BY DEF OnlyRealPackets
<1>1. TypeInv /\ BootsInv
  BY DEF IInv
<1>2. /\ items \in Seq(Bytes) /\ Len(items) \in Nat /\ DOMAIN items = 1..Len(items)
      /\ Base \in Nat /\ read \in Nat /\ Base <= read
  BY <1>1, StateFacts
<1>3. PICK t \in TagItems(items), k \in DOMAIN items : BootAt(n, t, k)
  BY <1>1 DEF BootsInv
<1>4. IsBoot(items, out[n], t, k) /\ Off(items, k) <= Base
  BY <1>3 DEF BootAt
<1>5. PICK m \in 0..Len(items) :
        /\ WholeItems = SubSeq(items, 1, m)
        /\ \A i \in 1..Len(items) : Off(items, i) <= read <=> i <= m
  BY <1>1, WholeIs
<1>6. Off(items, k) \in Nat
  <2>1. k \in 0..Len(items)
    BY <1>2
  <2> QED BY <1>2, <2>1, OffType
<1>7. k <= m
  BY <1>2, <1>4, <1>5, <1>6
<1>8. IsFront(WholeItems, items, m)
  BY <1>5 DEF IsFront
<1>9. /\ Rank(items, t) \in DOMAIN BootsOf(WholeItems)
      /\ IsPrefix(out[n], BootsOf(WholeItems)[Rank(items, t)])
  BY <1>2, <1>4, <1>7, <1>8, BootFound
<1> QED BY <1>9 DEF Wanted

\* babeltrace2 is given nothing but packets the board sent, in the order of one boot, whatever
\* is corrupt in between: what process_data yields after a RESET is the beginning of a boot
\* (trace_handler.py:80-85, 96-121).
THEOREM PacketsAreReal == Spec => []OnlyRealPackets
BY RealFollows, InvAlways, PTL

\* Between two reads no tag ends in the buffer, unless headers are corrupt.
LEMMA NoTagLeft ==
  ASSUME IInv, ~parsing, Sound, NEW u \in TagItems(items)
  PROVE  Off(items, u) <= read <=> Off(items, u) <= Base
<1>1. TypeInv /\ TagsInv /\ ~HasTag(buffer)
  BY DEF IInv, DoneInv
<1>2. /\ items \in Seq(Bytes) /\ FlattenSeq(items) \in Seq(Nat) /\ read \in Nat
      /\ read <= Len(FlattenSeq(items)) /\ Base \in Nat /\ Base <= read
  BY <1>1, StateFacts
<1>3. /\ Off(items, u - 1) \in Nat /\ Off(items, u) \in Nat
      /\ Off(items, u) = Off(items, u - 1) + TagLen
      /\ Off(items, u - 1) + 1 \in TagsIn(FlattenSeq(items))
  BY <1>2, TagItemPlace
<1>4. TagLen \in Nat
  BY TagLenPositive
<1>5. Off(items, u) <= Base => Off(items, u) <= read
  BY <1>2, <1>3
<1>6. ASSUME Off(items, u) <= read, ~(Off(items, u) <= Base)  PROVE FALSE
  <2>1. ~(Off(items, u - 1) < Base)
    BY <1>1, <1>6 DEF TagsInv
  <2>2. Off(items, u - 1) + 1 > Base
    BY <1>2, <1>3, <2>1
  <2>3. buffer = Window(FlattenSeq(items), Base, read)
    BY <1>1 DEF TypeInv
  <2>4. (Off(items, u - 1) + 1) + TagLen - 1 > read
    BY <1>1, <1>2, <1>3, <2>2, <2>3, NoTagInWindow
  <2> QED BY <1>2, <1>3, <1>4, <1>6, <2>4
<1> QED BY <1>5, <1>6

LEMMA FramedFollows == IInv => FramedRight
<1> SUFFICES ASSUME IInv, ~parsing, Sound
             PROVE  /\ Len(out) = Len(Wanted)
                    /\ \A n \in DOMAIN out : IsPrefix(out[n], Wanted[n])
                    /\ out # <<>> => Last(out) = Last(Wanted)
  BY DEF FramedRight, Sound
<1>1. TypeInv /\ BootsInv /\ TagsInv /\ DoneInv /\ items \in Streams
  BY DEF IInv, TypeInv
<1>2. /\ items \in Seq(Bytes) /\ Len(items) \in Nat /\ DOMAIN items = 1..Len(items)
      /\ Base \in Nat /\ read \in Nat /\ Base <= read /\ Len(buffer) \in Nat
      /\ Len(buffer) = read - Base /\ Len(out) \in Nat
  BY <1>1, StateFacts
<1>3. PICK m \in 0..Len(items) :
        /\ WholeItems = SubSeq(items, 1, m)
        /\ \A i \in 1..Len(items) : Off(items, i) <= read <=> i <= m
  BY <1>1, WholeIs
<1>4. IsFront(WholeItems, items, m)
  BY <1>3 DEF IsFront
<1>5. WholeItems \in Seq(Bytes) /\ TagItems(WholeItems) = {u \in TagItems(items) : u <= m}
  BY <1>2, <1>4, TagsOfFront
<1>6. Len(Wanted) = Len(out)
  <2>1. ASSUME NEW u \in TagItems(items)  PROVE u <= m <=> Off(items, u) <= Base
    <3>1. u \in 1..Len(items)
      BY <1>2, TagItemPlace
    <3> QED BY <1>3, <3>1, NoTagLeft
  <2>2. TagItems(WholeItems) = TagsBy(items, Base)
    BY <1>5, <2>1 DEF TagsBy
  <2>3. Len(BootsOf(WholeItems)) = Cardinality(TagItems(WholeItems))
    BY <1>5, BootsOfType
  <2> QED BY <1>1, <2>2, <2>3 DEF TagsInv, Wanted
<1>7. ASSUME NEW n, NEW t, NEW k \in DOMAIN items, BootAt(n, t, k)
      PROVE  /\ k <= m /\ IsPrefix(out[n], Wanted[n])
             /\ k = m => out[n] = Wanted[n]
  <2>1. IsBoot(items, out[n], t, k) /\ Off(items, k) <= Base /\ Rank(items, t) = n
    BY <1>7 DEF BootAt
  <2>2. Off(items, k) \in Nat
    <3>1. k \in 0..Len(items)
      BY <1>2
    <3> QED BY <1>2, <3>1, OffType
  <2>3. k <= m
    BY <1>2, <1>3, <2>1, <2>2
  <2>4. IsPrefix(out[n], BootsOf(WholeItems)[Rank(items, t)])
    BY <1>2, <1>4, <2>1, <2>3, BootFound
  <2>5. k = m => out[n] = BootsOf(WholeItems)[Rank(items, t)]
    BY <1>2, <1>4, <2>1, <2>3, BootFound
  <2> QED BY <2>1, <2>3, <2>4, <2>5 DEF Wanted
<1>8. ASSUME NEW n \in DOMAIN out  PROVE IsPrefix(out[n], Wanted[n])
  <2>1. PICK t \in TagItems(items), k \in DOMAIN items : BootAt(n, t, k)
    BY <1>1 DEF BootsInv
  <2> QED BY <1>7, <2>1
<1>9. ASSUME out # <<>>  PROVE Last(out) = Last(Wanted)
  <2>1. is_synced
    BY <1>1, <1>9 DEF TagsInv
  <2>2. PICK t \in TagItems(items), k \in 1..Len(items) :
          /\ BootAt(Len(out), t, k) /\ Off(items, k) = Base
          /\ Off(items, k) <= read /\ read <= Len(FlattenSeq(items)) /\ read \in Nat
          /\ buffer = Window(FlattenSeq(items), Off(items, k), read)
    BY <1>1, <2>1, SyncedAt
  <2>3. k <= m
    BY <1>2, <1>7, <2>2
  <2>4. ASSUME k # m  PROVE FALSE
    <3> DEFINE i == items[k + 1]
    <3>1. k + 1 \in 1..Len(items) /\ k + 1 \in 2..Len(items) /\ k + 1 <= m /\ (k + 1) - 1 = k
      BY <1>2, <2>3, <2>4
    <3>2. Off(items, k + 1) <= read
      BY <1>3, <3>1
    <3>3. i \in Items /\ i \notin Corrupt
      BY <1>1, <1>2, <3>1, StreamType DEF Sound
    <3>4. i # Tag
      <4>1. SUFFICES ASSUME i = Tag  PROVE FALSE
        OBVIOUS
      <4>2. k + 1 \in TagItems(items)
        BY <1>2, <3>1, <4>1 DEF TagItems
      <4>3. Off(items, k + 1) <= Base
        BY <3>2, <4>2, NoTagLeft
      <4>4. /\ Off(items, (k + 1) - 1) \in Nat
            /\ Off(items, k + 1) = Off(items, (k + 1) - 1) + TagLen
        BY <1>2, <4>2, TagItemPlace
      <4>5. TagLen \in Nat /\ TagLen >= 1
        BY TagLenPositive
      <4>6. Off(items, k + 1) = Base + TagLen
        BY <2>2, <3>1, <4>4
      <4> QED BY <1>2, <4>3, <4>5, <4>6
    <3> HIDE DEF i
    <3>5. i \in Packets /\ SizeOf(i) = Len(i) /\ Len(i) \in Nat /\ Len(i) >= 2
      <4>1. i \in Packets
        BY <3>3, <3>4 DEF Items
      <4> QED BY <3>3, <4>1, ItemTypes, LenProperties DEF HeaderLen
    <3>6. Off(items, k + 1) = Base + Len(i)
      <4>1. Off(items, k + 1) = Off(items, (k + 1) - 1) + Len(i)
        BY <1>2, <3>1, OffType DEF i
      <4> QED BY <2>2, <3>1, <4>1
    <3>7. Len(buffer) >= Len(i)
      BY <1>2, <3>2, <3>5, <3>6
    <3>8. Len(buffer) >= 1 /\ Len(buffer) >= HeaderLen
      BY <1>2, <3>5, <3>7 DEF HeaderLen
    <3>9. SizeOf(buffer) = SizeOf(i)
      BY <1>1, <2>2, <3>8, HeaderIs DEF i
    <3>10. HeaderKnown
      BY <3>8 DEF HeaderKnown
    <3>11. Len(buffer) < Size /\ Size = SizeOf(buffer)
      BY <1>1, <2>1, <3>10, SizeIs DEF DoneInv
    <3> QED BY <1>2, <3>5, <3>7, <3>9, <3>11
  <2>5. out[Len(out)] = Wanted[Len(out)]
    BY <1>2, <1>7, <2>2, <2>4
  <2> QED BY <1>6, <2>5 DEF Last
<1> QED BY <1>6, <1>8, <1>9

\* Without corrupt headers, whenever process_data returns: every tag that has arrived was
\* answered with a RESET, every packet that arrived after the last one was yielded, and of an
\* earlier boot the packets yielded are the first ones, in order (trace_handler.py:77-123).
THEOREM FramesRight == Spec => []FramedRight
BY FramedFollows, InvAlways, PTL
=============================================================================
