--------------------------- MODULE PlaybackProofs ---------------------------
(***************************************************************************)
(* Proofs about Playback: for every set of files, whatever their start      *)
(* codes and segments, whatever the owner asks for, the reader and the      *)
(* controller find the same key frame, the last one at or before a time,    *)
(* and what is queued is in order and keeps every key frame.                *)
(*                                                                         *)
(* The model is built from loops: the scan, the frame dropping, the binary  *)
(* search, and the folds that list a set in an order.  Each is a recursive  *)
(* function, a CHOOSE over the functions that satisfy its equation: so each *)
(* has a lemma that such a function exists (...Exists), one that the        *)
(* operator is that CHOOSE (...Folds), and one that says what a function    *)
(* that satisfies the equation gives, by induction.  Induction takes the    *)
(* least number that a set of numbers leaves out.                           *)
(***************************************************************************)
EXTENDS Playback, WellFoundedInduction, FiniteSetTheorems, SequenceTheorems, TLAPS

(***************************************************************************)
(* Induction, over the set of the numbers that a fact holds for.            *)
(***************************************************************************)

\* A set of numbers that is not empty has a least one.
LEMMA Least ==
    ASSUME NEW T \in SUBSET Nat, T # {}
    PROVE  \E m \in T : \A k \in Nat : k < m => k \notin T
<1>1. PICK R : R = OpToRel(<, Nat)
  OBVIOUS
<1>2. IsWellFoundedOn(R, Nat)
  BY <1>1, NatLessThanWellFounded
<1>3. PICK m \in T : \A y \in T : ~ (<<y, m>> \in R)
  BY <1>2, WFMin
<1>4. \A a, b \in Nat : a < b => <<a, b>> \in R
  BY <1>1 DEF OpToRel
<1> QED
  BY <1>3, <1>4

\* What holds for 0, and for n + 1 whenever for n, holds for every number.
LEMMA Induction ==
    ASSUME NEW P \in SUBSET Nat, 0 \in P, \A n \in P : n + 1 \in P
    PROVE  \A n \in Nat : n \in P
<1> SUFFICES ASSUME Nat \ P # {} PROVE FALSE
  OBVIOUS
<1>1. PICK m \in Nat \ P : \A k \in Nat : k < m => k \notin Nat \ P
  BY Least
<1>2. m # 0 /\ m - 1 \in Nat /\ m - 1 < m /\ (m - 1) + 1 = m
  BY <1>1
<1>3. m - 1 \in P
  BY <1>1, <1>2
<1> QED
  BY <1>1, <1>2, <1>3

\* A finite set of numbers has a greatest one.
LEMMA MaxExists ==
    ASSUME NEW S \in SUBSET Nat, IsFiniteSet(S), S # {}
    PROVE  \E m \in S : \A x \in S : x <= m
<1> DEFINE P == {n \in Nat : \A T \in SUBSET Nat : IsFiniteSet(T) /\ T # {} /\ Cardinality(T) = n =>
                                \E m \in T : \A x \in T : x <= m}
<1>1. 0 \in P
  BY FS_EmptySet
<1>2. ASSUME NEW n \in P PROVE n + 1 \in P
  <2>1. n \in Nat /\ \A T \in SUBSET Nat : IsFiniteSet(T) /\ T # {} /\ Cardinality(T) = n =>
                        \E m \in T : \A x \in T : x <= m
    BY <1>2
  <2>2. ASSUME NEW T \in SUBSET Nat, IsFiniteSet(T), T # {}, Cardinality(T) = n + 1
        PROVE  \E m \in T : \A x \in T : x <= m
    <3>1. PICK y \in T : TRUE
      BY <2>2
    <3>2. PICK U : U = T \ {y}
      OBVIOUS
    <3>3. IsFiniteSet(U) /\ Cardinality(U) = n /\ U \in SUBSET Nat
      <4>1. IsFiniteSet(U) /\ Cardinality(U) = Cardinality(T) - 1
        BY <2>2, <3>1, <3>2, FS_RemoveElement
      <4> QED
        BY <2>1, <2>2, <3>2, <4>1
    <3>4. CASE U = {}
      <4>1. \A x \in T : x = y
        BY <3>2, <3>4
      <4> QED
        BY <3>1, <4>1
    <3>5. CASE U # {}
      <4>1. PICK m \in U : \A x \in U : x <= m
        BY <2>1, <3>3, <3>5
      <4>2. m \in T /\ m \in Nat /\ y \in Nat
        BY <3>1, <3>2, <4>1
      <4>3. CASE y <= m
        BY <3>2, <4>1, <4>2, <4>3
      <4>4. CASE m <= y
        BY <3>1, <3>2, <3>3, <4>1, <4>2, <4>4
      <4> QED
        BY <4>2, <4>3, <4>4
    <3> QED
      BY <3>4, <3>5
  <2> QED
    BY <2>1, <2>2
<1>3. \A n \in Nat : n \in P
  <2>1. P \in SUBSET Nat
    OBVIOUS
  <2> HIDE DEF P
  <2> QED
    BY <1>1, <1>2, <2>1, Induction
<1> QED
  BY <1>3, FS_CardinalityType

(***************************************************************************)
(* A set listed in an order: the fold that takes the last element of what   *)
(* is left.                                                                 *)
(***************************************************************************)

Less(T, x) == T \ {x}

\* c chooses an element of every set, one that comes last by R.
IsLast(c, D, R) == \A T \in SUBSET D : T # {} => c[T] \in T /\ \A x \in T : <<x, c[T]>> \in R

OrderBody(c, D, g) == [T \in SUBSET D |-> IF T = {} THEN <<>> ELSE Append(g[Less(T, c[T])], c[T])]

\* s lists T, every element once, in the order of R.
Lists(s, T, R) ==
    /\ s \in Seq(T) /\ Len(s) = Cardinality(T)
    /\ \A x \in T : \E i \in 1 .. Len(s) : s[i] = x
    /\ \A i, j \in 1 .. Len(s) : i < j => s[i] # s[j] /\ <<s[i], s[j]>> \in R

\* A smaller set of a finite one.
LEMMA Smaller ==
    ASSUME NEW D, IsFiniteSet(D), NEW T \in SUBSET D, NEW x \in T
    PROVE  /\ IsFiniteSet(T) /\ Cardinality(T) \in Nat /\ Cardinality(T) # 0
           /\ Cardinality(Less(T, x)) = Cardinality(T) - 1
<1>1. IsFiniteSet(T)
  BY FS_Subset
<1>2. Cardinality(T) \in Nat /\ Cardinality(Less(T, x)) = Cardinality(T) - 1
  BY <1>1, FS_CardinalityType, FS_RemoveElement DEF Less
<1>3. Cardinality(T) # 0
  BY <1>1, FS_EmptySet
<1> QED
  BY <1>1, <1>2, <1>3

\* Only the empty set has no elements.
LEMMA EmptyOfSize ==
    ASSUME NEW D, IsFiniteSet(D), NEW T \in SUBSET D
    PROVE  Cardinality(T) \in Nat /\ (Cardinality(T) = 0 <=> T = {})
<1>1. IsFiniteSet(T)
  BY FS_Subset
<1> QED
  BY <1>1, FS_CardinalityType, FS_EmptySet

\* A function exists that lists every subset, the last element at the end.
LEMMA OrderExists ==
    ASSUME NEW D, IsFiniteSet(D), NEW c, NEW R, IsLast(c, D, R)
    PROVE  \E g : g = OrderBody(c, D, g)
<1> DEFINE Upto(n, f) == \A T \in SUBSET D : Cardinality(T) <= n =>
                             f[T] = IF T = {} THEN <<>> ELSE Append(f[Less(T, c[T])], c[T])
           P == {n \in Nat : \E f : /\ DOMAIN f = SUBSET D /\ f = [T \in SUBSET D |-> f[T]]
                                  /\ Upto(n, f)}
<1>1. 0 \in P
  <2>1. PICK f : f = [T \in SUBSET D |-> <<>>]
    OBVIOUS
  <2>2. ASSUME NEW T \in SUBSET D, Cardinality(T) <= 0 PROVE T = {}
    <3>1. Cardinality(T) \in Nat /\ (Cardinality(T) = 0 <=> T = {})
      BY EmptyOfSize
    <3> QED
      BY <2>2, <3>1
  <2>3. Upto(0, f) /\ DOMAIN f = SUBSET D /\ f = [T \in SUBSET D |-> f[T]]
    BY <2>1, <2>2
  <2> QED
    BY <2>3
<1>2. ASSUME NEW n \in P PROVE n + 1 \in P
  <2>1. n \in Nat /\ \E f : DOMAIN f = SUBSET D /\ f = [T \in SUBSET D |-> f[T]] /\ Upto(n, f)
    BY <1>2
  <2>2. PICK f : Upto(n, f)
    BY <2>1
  <2>3. PICK g : g = [T \in SUBSET D |-> IF Cardinality(T) = n + 1 /\ T # {}
                                         THEN Append(f[Less(T, c[T])], c[T]) ELSE f[T]]
    OBVIOUS
  <2>4. \A T \in SUBSET D : T # {} =>
            /\ c[T] \in T /\ c[T] \in D /\ Less(T, c[T]) \in SUBSET D
            /\ Cardinality(T) \in Nat /\ Cardinality(Less(T, c[T])) = Cardinality(T) - 1
    <3>1. \A T \in SUBSET D : T # {} => c[T] \in T
      BY DEF IsLast
    <3> QED
      BY <3>1, Smaller DEF Less
  <2>5. Cardinality({}) = 0
    BY FS_EmptySet
  <2>6. Upto(n + 1, g)
    <3> SUFFICES ASSUME NEW T \in SUBSET D, Cardinality(T) <= n + 1
                 PROVE  g[T] = IF T = {} THEN <<>> ELSE Append(g[Less(T, c[T])], c[T])
      OBVIOUS
    <3>1. CASE T = {}
      <4>1. g[T] = f[T] /\ Cardinality(T) <= n
        BY <2>1, <2>3, <2>5, <3>1
      <4> QED
        BY <2>2, <3>1, <4>1
    <3>2. CASE T # {}
      <4>1. PICK U \in SUBSET D : U = Less(T, c[T])
        BY <2>4, <3>2
      <4>2. Cardinality(U) = Cardinality(T) - 1 /\ Cardinality(T) \in Nat
        BY <2>4, <3>2, <4>1
      <4>3. g[U] = f[U]
        BY <2>1, <2>3, <4>2
      <4>4. g[T] = Append(f[U], c[T])
        <5>1. CASE Cardinality(T) = n + 1
          BY <2>3, <3>2, <4>1, <5>1
        <5>2. CASE Cardinality(T) # n + 1
          <6>1. Cardinality(T) <= n /\ g[T] = f[T]
            BY <2>1, <2>3, <4>2, <5>2
          <6> QED
            BY <2>2, <3>2, <4>1, <6>1
        <5> QED
          BY <5>1, <5>2
      <4> QED
        BY <3>2, <4>1, <4>3, <4>4
    <3> QED
      BY <3>1, <3>2
  <2>7. \E h : DOMAIN h = SUBSET D /\ h = [T \in SUBSET D |-> h[T]] /\ Upto(n + 1, h)
    <3>1. DOMAIN g = SUBSET D /\ g = [T \in SUBSET D |-> g[T]]
      BY <2>3
    <3> HIDE DEF Upto
    <3> QED
      BY <2>6, <3>1
  <2>8. n + 1 \in Nat
    BY <2>1
  <2> HIDE DEF Upto
  <2> QED
    BY <2>7, <2>8
<1>3. \A n \in Nat : n \in P
  <2>1. P \in SUBSET Nat
    OBVIOUS
  <2> HIDE DEF P
  <2> QED
    BY <1>1, <1>2, <2>1, Induction
<1>4. Cardinality(D) \in Nat
  BY FS_CardinalityType
<1>5. PICK f : f = [T \in SUBSET D |-> f[T]] /\ Upto(Cardinality(D), f)
  BY <1>3, <1>4
<1>6. \A T \in SUBSET D : Cardinality(T) <= Cardinality(D)
  BY FS_Subset
<1>7. f = OrderBody(c, D, f)
  BY <1>5, <1>6 DEF OrderBody
<1> QED
  BY <1>7

\* A list of the rest and the last element list the set.
LEMMA ListsOneMore ==
    ASSUME NEW D, IsFiniteSet(D), NEW T \in SUBSET D, NEW R, NEW x \in T,
           \A y \in T : <<y, x>> \in R, NEW s, Lists(s, Less(T, x), R)
    PROVE  Lists(Append(s, x), T, R)
<1>1. PICK U : U = Less(T, x)
  OBVIOUS
<1>2. /\ s \in Seq(U) /\ Len(s) = Cardinality(U)
      /\ \A y \in U : \E i \in 1 .. Len(s) : s[i] = y
      /\ \A i, j \in 1 .. Len(s) : i < j => s[i] # s[j] /\ <<s[i], s[j]>> \in R
  BY <1>1 DEF Lists
<1>3. U \subseteq T /\ x \notin U /\ \A y \in T : y = x \/ y \in U
  BY <1>1 DEF Less
<1>4. s \in Seq(T)
  BY <1>2, <1>3
<1>5. PICK n : n = Len(s)
  OBVIOUS
<1>6. PICK t : t = Append(s, x)
  OBVIOUS
<1>7. /\ n \in Nat /\ t \in Seq(T) /\ Len(t) = n + 1
      /\ t[n + 1] = x /\ \A i \in 1 .. n : t[i] = s[i] /\ s[i] \in U
  BY <1>2, <1>4, <1>5, <1>6
<1>8. Len(t) = Cardinality(T)
  <2>1. Cardinality(T) \in Nat /\ Cardinality(U) = Cardinality(T) - 1
    BY <1>1, Smaller
  <2> QED
    BY <1>2, <1>5, <1>7, <2>1
<1>9. \A y \in T : \E i \in 1 .. Len(t) : t[i] = y
  <2>1. ASSUME NEW y \in U PROVE \E i \in 1 .. Len(t) : t[i] = y
    <3>1. PICK i \in 1 .. n : s[i] = y
      BY <1>2, <1>5
    <3>2. i \in 1 .. Len(t) /\ t[i] = y
      BY <1>7, <3>1
    <3> QED
      BY <3>2
  <2>2. n + 1 \in 1 .. Len(t)
    BY <1>7
  <2> QED
    BY <1>3, <1>7, <2>1, <2>2
<1>10. ASSUME NEW i \in 1 .. Len(t), NEW j \in 1 .. Len(t), i < j
       PROVE  t[i] # t[j] /\ <<t[i], t[j]>> \in R
  <2>1. i \in 1 .. n /\ t[i] = s[i] /\ s[i] \in U
    BY <1>7, <1>10
  <2>2. CASE j = n + 1
    BY <1>3, <1>7, <2>1, <2>2
  <2>3. CASE j # n + 1
    <3>1. j \in 1 .. n /\ t[j] = s[j]
      BY <1>7, <2>3
    <3> QED
      BY <1>2, <1>5, <1>10, <2>1, <3>1
  <2> QED
    BY <2>2, <2>3
<1>11. Lists(t, T, R)
  BY <1>7, <1>8, <1>9, <1>10 DEF Lists
<1> QED
  BY <1>6, <1>11

\* What such a function gives for a set lists it.
LEMMA OrderLists ==
    ASSUME NEW D, IsFiniteSet(D), NEW c, NEW R, IsLast(c, D, R), NEW g, g = OrderBody(c, D, g)
    PROVE  Lists(g[D], D, R)
<1> DEFINE P == {n \in Nat : \A T \in SUBSET D : Cardinality(T) = n => Lists(g[T], T, R)}
<1>0. \A T \in SUBSET D : g[T] = IF T = {} THEN <<>> ELSE Append(g[Less(T, c[T])], c[T])
  BY DEF OrderBody
<1>1. 0 \in P
  <2>1. ASSUME NEW T \in SUBSET D, Cardinality(T) = 0 PROVE Lists(g[T], T, R)
    <3>1. T = {}
      BY <2>1, EmptyOfSize
    <3>2. g[T] = <<>>
      BY <1>0, <3>1
    <3>3. <<>> \in Seq(T) /\ Len(<<>>) = 0 /\ 1 .. 0 = {}
      OBVIOUS
    <3> QED
      BY <2>1, <3>1, <3>2, <3>3 DEF Lists
  <2> QED
    BY <2>1
<1>2. ASSUME NEW n \in P PROVE n + 1 \in P
  <2>1. n \in Nat /\ \A T \in SUBSET D : Cardinality(T) = n => Lists(g[T], T, R)
    BY <1>2
  <2>2. ASSUME NEW T \in SUBSET D, Cardinality(T) = n + 1 PROVE Lists(g[T], T, R)
    <3>1. T # {}
      BY <2>1, <2>2, EmptyOfSize
    <3>2. PICK x : x = c[T]
      OBVIOUS
    <3>3. x \in T /\ \A y \in T : <<y, x>> \in R
      BY <3>1, <3>2 DEF IsLast
    <3>4. PICK U \in SUBSET D : U = Less(T, x)
      BY DEF Less
    <3>5. Cardinality(U) = n
      BY <2>1, <2>2, <3>3, <3>4, Smaller
    <3>6. Lists(g[U], U, R)
      BY <2>1, <3>5
    <3>7. g[T] = Append(g[U], x)
      BY <1>0, <3>1, <3>2, <3>4
    <3> QED
      BY <3>3, <3>4, <3>6, <3>7, ListsOneMore
  <2> QED
    BY <2>1, <2>2
<1>3. \A n \in Nat : n \in P
  <2>1. P \in SUBSET Nat
    OBVIOUS
  <2> HIDE DEF P
  <2> QED
    BY <1>1, <1>2, <2>1, Induction
<1> QED
  BY <1>3, FS_Subset, FS_CardinalityType

\* The image of a finite set is finite.
LEMMA ImageFinite ==
    ASSUME NEW S, IsFiniteSet(S), NEW f, DOMAIN f = S, f = [x \in S |-> f[x]]
    PROVE  IsFiniteSet({f[x] : x \in S})
<1>1. PICK T : T = {f[x] : x \in S}
  OBVIOUS
<1>2. f \in Surjection(S, T)
  BY <1>1 DEF Surjection
<1> QED
  BY <1>1, <1>2, FS_Surjection

UpTo == {p \in Nat \X Nat : p[1] <= p[2]}

AscendingFold(S, g) ==
    [T \in SUBSET S |-> IF T = {} THEN <<>> ELSE Append(g[T \ {Max(T)}], Max(T))]

\* Ascending is the fold that takes the greatest number left.
LEMMA AscendingFolds == \A S : Ascending(S) = (CHOOSE g : g = AscendingFold(S, g))[S]
  BY Zenon DEF Ascending, MapThenFoldSet, AscendingFold

\* Max is the greatest number of a finite set.
LEMMA MaxIs ==
    ASSUME NEW S \in SUBSET Nat, IsFiniteSet(S), S # {}
    PROVE  Max(S) \in S /\ \A x \in S : x <= Max(S)
<1>1. \E m \in S : \A x \in S : m >= x
  <2>1. PICK m \in S : \A x \in S : x <= m
    BY MaxExists
  <2>2. \A x \in S : m >= x
    BY <2>1
  <2> QED
    BY <2>2
<1>2. Max(S) \in S /\ \A x \in S : Max(S) >= x
  BY <1>1 DEF Max
<1> QED
  BY <1>2

\* Ascending lists a finite set of numbers.
LEMMA AscendingLists ==
    ASSUME NEW S \in SUBSET Nat, IsFiniteSet(S)
    PROVE  Lists(Ascending(S), S, UpTo)
<1>1. PICK c : c = [T \in SUBSET S |-> Max(T)]
  OBVIOUS
<1>2. IsLast(c, S, UpTo)
  <2>1. SUFFICES ASSUME NEW T \in SUBSET S, T # {}
                 PROVE  c[T] \in T /\ \A x \in T : <<x, c[T]>> \in UpTo
    BY DEF IsLast
  <2>2. IsFiniteSet(T) /\ T \in SUBSET Nat
    BY FS_Subset
  <2>3. Max(T) \in T /\ \A x \in T : x <= Max(T)
    BY <2>1, <2>2, MaxIs
  <2> QED
    BY <1>1, <2>2, <2>3 DEF UpTo
<1>3. ASSUME NEW g PROVE OrderBody(c, S, g) = AscendingFold(S, g)
  <2>1. \A T \in SUBSET S :
            (IF T = {} THEN <<>> ELSE Append(g[Less(T, c[T])], c[T]))
              = (IF T = {} THEN <<>> ELSE Append(g[T \ {Max(T)}], Max(T)))
    BY <1>1 DEF Less
  <2> QED
    BY <2>1, Zenon DEF OrderBody, AscendingFold
<1>4. PICK f : f = AscendingFold(S, f)
  BY <1>2, <1>3, OrderExists
<1>5. PICK h : h = (CHOOSE g : g = AscendingFold(S, g))
  OBVIOUS
<1>6. h = AscendingFold(S, h)
  BY <1>4, <1>5, Zenon
<1>7. h = OrderBody(c, S, h)
  BY <1>3, <1>6
<1>8. Lists(h[S], S, UpTo)
  BY <1>2, <1>7, OrderLists
<1> QED
  BY <1>5, <1>8, AscendingFolds

\* What Ascending makes of a finite set of numbers.
LEMMA AscendingIs ==
    ASSUME NEW S \in SUBSET Nat, IsFiniteSet(S)
    PROVE  \E s : /\ s = Ascending(S) /\ s \in Seq(S) /\ s \in Seq(Nat)
                  /\ \A x \in S : \E i \in 1 .. Len(s) : s[i] = x
                  /\ \A i, j \in 1 .. Len(s) : i < j => s[i] < s[j]
<1>1. PICK s : s = Ascending(S)
  OBVIOUS
<1>2. Lists(s, S, UpTo)
  BY <1>1, AscendingLists
<1>3. /\ s \in Seq(S)
      /\ \A x \in S : \E i \in 1 .. Len(s) : s[i] = x
      /\ \A i, j \in 1 .. Len(s) : i < j => s[i] # s[j] /\ <<s[i], s[j]>> \in UpTo
  BY <1>2 DEF Lists
<1>4. s \in Seq(Nat) /\ \A i \in 1 .. Len(s) : s[i] \in Nat
  <2>1. S \subseteq Nat
    OBVIOUS
  <2>2. s \in Seq(Nat)
    BY <1>3, <2>1, SeqMonotonic
  <2> QED
    BY <2>2
<1>5. ASSUME NEW i \in 1 .. Len(s), NEW j \in 1 .. Len(s), i < j PROVE s[i] < s[j]
  <2>1. PICK a, b : a = s[i] /\ b = s[j]
    OBVIOUS
  <2>2. a # b /\ <<a, b>> \in UpTo
    BY <1>3, <1>5, <2>1
  <2>3. a \in Nat /\ b \in Nat /\ a <= b
    BY <2>2 DEF UpTo
  <2> QED
    BY <2>1, <2>2, <2>3
<1> QED
  BY <1>1, <1>3, <1>4, <1>5

(***************************************************************************)
(* The order in which a queue is sent: by time, then by place.              *)
(***************************************************************************)

\* p before q, in segments s.
Sooner(s) == {p \in (DOMAIN s) \X (DOMAIN s) : s[p[1]].timestamp <= s[p[2]].timestamp}

LatestIn(s, S) == CHOOSE i \in S : \A j \in S :
    \/ s[j].timestamp < s[i].timestamp
    \/ s[j].timestamp = s[i].timestamp /\ j <= i

SortFold(s, S, g) ==
    [T \in SUBSET S |-> IF T = {} THEN <<>> ELSE Append(g[T \ {LatestIn(s, T)}], LatestIn(s, T))]

\* SortByTimestamp is the fold that takes the latest segment left.
LEMMA SortFolds ==
    \A places : SortByTimestamp(places)
                  = (CHOOSE g : g = SortFold(video.segments, ToSet(places), g))[ToSet(places)]
  BY Zenon DEF SortByTimestamp, MapThenFoldSet, SortFold, Latest, LatestIn

Segment == [timestamp : Nat, is_key_frame : BOOLEAN]

\* No segment of the set is later than the latest.
LEMMA LatestIs ==
    ASSUME NEW s \in Seq(Segment), NEW S \in SUBSET (DOMAIN s), S # {}
    PROVE  LatestIn(s, S) \in S /\ \A j \in S : s[j].timestamp <= s[LatestIn(s, S)].timestamp
<1>1. DOMAIN s = 1 .. Len(s) /\ Len(s) \in Nat /\ \A i \in DOMAIN s : s[i].timestamp \in Nat
  <2>1. DOMAIN s = 1 .. Len(s) /\ Len(s) \in Nat /\ \A i \in DOMAIN s : s[i] \in Segment
    OBVIOUS
  <2> QED
    BY <2>1 DEF Segment
<1>2. IsFiniteSet(S) /\ S \in SUBSET Nat
  <2>1. IsFiniteSet(1 .. Len(s))
    BY <1>1, FS_Interval
  <2>2. S \subseteq 1 .. Len(s)
    BY <1>1
  <2>3. IsFiniteSet(S)
    BY <2>1, <2>2, FS_Subset
  <2> QED
    BY <2>2, <2>3
<1>3. PICK f : f = [i \in S |-> s[i].timestamp]
  OBVIOUS
<1>4. PICK U : U = {f[i] : i \in S}
  OBVIOUS
<1>5. IsFiniteSet(U)
  <2>1. DOMAIN f = S /\ f = [i \in S |-> f[i]]
    BY <1>3
  <2> QED
    BY <1>2, <1>4, <2>1, ImageFinite
<1>6. U \in SUBSET Nat /\ U # {}
  BY <1>1, <1>3, <1>4
<1>7. PICK m \in U : \A x \in U : x <= m
  BY <1>5, <1>6, MaxExists
<1>8. PICK V : V = {i \in S : s[i].timestamp = m}
  OBVIOUS
<1>9. V # {} /\ V \in SUBSET Nat /\ IsFiniteSet(V) /\ V \subseteq S
  <2>1. V \subseteq S
    BY <1>8
  <2>2. V # {}
    BY <1>3, <1>4, <1>7, <1>8
  <2> QED
    BY <1>2, <2>1, <2>2, FS_Subset
<1>10. PICK i \in V : \A x \in V : x <= i
  BY <1>9, MaxExists
<1>11. ASSUME NEW j \in S
       PROVE  \/ s[j].timestamp < s[i].timestamp
              \/ s[j].timestamp = s[i].timestamp /\ j <= i
  <2>1. f[j] \in U /\ f[j] = s[j].timestamp /\ s[j].timestamp \in Nat /\ m \in Nat
    BY <1>1, <1>3, <1>4, <1>6
  <2>2. s[j].timestamp <= m /\ s[i].timestamp = m
    BY <1>7, <1>8, <2>1
  <2>3. s[j].timestamp = m => j \in V
    BY <1>8
  <2> QED
    BY <1>10, <2>1, <2>2, <2>3
<1>12. PICK l : l = LatestIn(s, S)
  OBVIOUS
<1>13. /\ l \in S
       /\ \A j \in S : \/ s[j].timestamp < s[l].timestamp
                       \/ s[j].timestamp = s[l].timestamp /\ j <= l
  BY <1>9, <1>11, <1>12, Zenon DEF LatestIn
<1>14. \A j \in S : s[j].timestamp <= s[l].timestamp
  BY <1>1, <1>13
<1> QED
  BY <1>12, <1>13, <1>14

\* SortByTimestamp lists the places it is given in the order of their times.
LEMMA SortLists ==
    ASSUME video.segments \in Seq(Segment), NEW places,
           ToSet(places) \in SUBSET (DOMAIN video.segments)
    PROVE  Lists(SortByTimestamp(places), ToSet(places), Sooner(video.segments))
<1>0. PICK S, s : S = ToSet(places) /\ s = video.segments
  OBVIOUS
<1>1. PICK c : c = [T \in SUBSET S |-> LatestIn(s, T)]
  OBVIOUS
<1>2. s \in Seq(Segment) /\ S \in SUBSET (DOMAIN s)
  BY <1>0
<1>3. IsLast(c, S, Sooner(s))
  <2>1. SUFFICES ASSUME NEW T \in SUBSET S, T # {}
                 PROVE  c[T] \in T /\ \A x \in T : <<x, c[T]>> \in Sooner(s)
    BY DEF IsLast
  <2>2. T \in SUBSET (DOMAIN s)
    BY <1>2
  <2>3. LatestIn(s, T) \in T /\ \A j \in T : s[j].timestamp <= s[LatestIn(s, T)].timestamp
    BY <1>2, <2>1, <2>2, LatestIs
  <2> QED
    BY <1>1, <2>2, <2>3 DEF Sooner
<1>4. ASSUME NEW g PROVE OrderBody(c, S, g) = SortFold(s, S, g)
  <2>1. \A T \in SUBSET S :
            (IF T = {} THEN <<>> ELSE Append(g[Less(T, c[T])], c[T]))
              = (IF T = {} THEN <<>> ELSE Append(g[T \ {LatestIn(s, T)}], LatestIn(s, T)))
    BY <1>1 DEF Less
  <2> QED
    BY <2>1, Zenon DEF OrderBody, SortFold
<1>5. IsFiniteSet(S)
  <2>1. DOMAIN s = 1 .. Len(s) /\ Len(s) \in Nat
    BY <1>2
  <2>2. IsFiniteSet(1 .. Len(s)) /\ S \subseteq 1 .. Len(s)
    BY <1>2, <2>1, FS_Interval
  <2> QED
    BY <2>2, FS_Subset
<1>6. PICK f : f = SortFold(s, S, f)
  BY <1>3, <1>4, <1>5, OrderExists
<1>7. PICK h : h = (CHOOSE g : g = SortFold(s, S, g))
  OBVIOUS
<1>8. h = SortFold(s, S, h)
  BY <1>6, <1>7, Zenon
<1>9. h = OrderBody(c, S, h)
  BY <1>4, <1>8
<1>10. Lists(h[S], S, Sooner(s))
  BY <1>3, <1>5, <1>9, OrderLists
<1>11. SortByTimestamp(places) = h[S]
  BY <1>0, <1>7, SortFolds
<1> QED
  BY <1>0, <1>10, <1>11

(***************************************************************************)
(* A loop over 1 .. N: f[n] is what step n makes of f[n - 1].              *)
(***************************************************************************)

IsLoop(N, S, a, G, f) ==
    /\ f = [n \in 0 .. N |-> f[n]]
    /\ f[0] = a
    /\ \A n \in 1 .. N : f[n - 1] \in S /\ f[n] = G[n][f[n - 1]]

\* A loop whose steps stay in S has its values.
LEMMA LoopExists ==
    ASSUME NEW N \in Nat, NEW S, NEW a \in S, NEW G, \A n \in 1 .. N : \A x \in S : G[n][x] \in S
    PROVE  \E f : IsLoop(N, S, a, G, f)
<1> DEFINE Upto(k, f) == /\ f \in [0 .. N -> S] /\ f[0] = a
                         /\ \A n \in 1 .. N : n <= k => f[n] = G[n][f[n - 1]]
           P == {k \in Nat : \E f : Upto(k, f)}
<1>1. 0 \in P
  <2>1. PICK f : f = [n \in 0 .. N |-> a]
    OBVIOUS
  <2>2. Upto(0, f)
    BY <2>1
  <2> HIDE DEF Upto
  <2> QED
    BY <2>2
<1>2. ASSUME NEW k \in P PROVE k + 1 \in P
  <2>1. k \in Nat /\ \E f : Upto(k, f)
    BY <1>2
  <2>2. PICK f : Upto(k, f)
    BY <2>1
  <2>3. PICK g : g = [n \in 0 .. N |-> IF n = k + 1 THEN G[n][f[n - 1]] ELSE f[n]]
    OBVIOUS
  <2>4. g \in [0 .. N -> S]
    <3>1. ASSUME NEW n \in 0 .. N PROVE g[n] \in S
      <4>1. CASE n = k + 1
        <5>1. n \in 1 .. N /\ n - 1 \in 0 .. N
          BY <2>1, <4>1
        <5>2. f[n - 1] \in S
          BY <2>2, <5>1
        <5> QED
          BY <2>3, <4>1, <5>1, <5>2
      <4>2. CASE n # k + 1
        BY <2>2, <2>3, <4>2
      <4> QED
        BY <4>1, <4>2
    <3> QED
      BY <2>3, <3>1
  <2>5. g[0] = a
    BY <2>1, <2>2, <2>3
  <2>6. ASSUME NEW n \in 1 .. N, n <= k + 1 PROVE g[n] = G[n][g[n - 1]]
    <3>1. n - 1 \in 0 .. N /\ n - 1 # k + 1
      BY <2>1, <2>6
    <3>2. g[n - 1] = f[n - 1]
      BY <2>3, <3>1
    <3>3. CASE n = k + 1
      BY <2>3, <3>2, <3>3
    <3>4. CASE n # k + 1
      <4>1. n <= k /\ g[n] = f[n]
        BY <2>1, <2>3, <2>6, <3>4
      <4> QED
        BY <2>2, <3>2, <4>1
    <3> QED
      BY <3>3, <3>4
  <2>7. Upto(k + 1, g)
    BY <2>4, <2>5, <2>6
  <2>8. k + 1 \in Nat
    BY <2>1
  <2> HIDE DEF Upto
  <2> QED
    BY <2>7, <2>8
<1>3. \A k \in Nat : k \in P
  <2>1. P \in SUBSET Nat
    OBVIOUS
  <2> HIDE DEF P
  <2> QED
    BY <1>1, <1>2, <2>1, Induction
<1>4. PICK f : Upto(N, f)
  BY <1>3
<1>5. \A n \in 1 .. N : f[n - 1] \in S /\ f[n] = G[n][f[n - 1]]
  BY <1>4
<1>6. f = [n \in 0 .. N |-> f[n]] /\ f[0] = a
  BY <1>4
<1>7. IsLoop(N, S, a, G, f)
  BY <1>5, <1>6 DEF IsLoop
<1> QED
  BY <1>7

(***************************************************************************)
(* Frame dropping.                                                         *)
(***************************************************************************)

Keeps(s, p, strategy, i, distance) ==
    \/ s[p[i]].is_key_frame
    \/ strategy = "b_frames" /\ distance % 3 # 2
    \/ strategy = "p_frames" /\ distance % 4 = 1

DropStep(s, p, strategy, n, x) ==
    [result |-> IF Keeps(s, p, strategy, n, n - 1 - x.last_key_frame_index)
                THEN Append(x.result, p[n]) ELSE x.result,
     last_key_frame_index |-> IF s[p[n]].is_key_frame THEN Len(x.result)
                              ELSE x.last_key_frame_index]

DropBody(s, p, strategy, f) ==
    [n \in 0 .. Len(p) |-> IF n = 0 THEN [result |-> <<>>, last_key_frame_index |-> 0]
                           ELSE DropStep(s, p, strategy, n, f[n - 1])]

\* FrameDropping is what its loop ends with.
LEMMA DropFolds ==
    \A p, strategy : FrameDropping(p, strategy)
        = (CHOOSE f : f = DropBody(video.segments, p, strategy, f))[Len(p)].result
  BY Zenon DEF FrameDropping, DropBody, DropStep, Keeps

\* The loop of frame dropping has its values.
LEMMA DropExists ==
    ASSUME NEW s, NEW p, p \in Seq(DOMAIN s), NEW strategy
    PROVE  \E f : f = DropBody(s, p, strategy, f)
<1>1. PICK N : N = Len(p)
  OBVIOUS
<1>2. PICK S : S = [result : Seq(DOMAIN s), last_key_frame_index : Nat]
  OBVIOUS
<1>3. PICK a : a = [result |-> <<>>, last_key_frame_index |-> 0]
  OBVIOUS
<1>4. PICK G : G = [n \in 1 .. N |-> [x \in S |-> DropStep(s, p, strategy, n, x)]]
  OBVIOUS
<1>5. N \in Nat /\ a \in S
  BY <1>1, <1>2, <1>3
<1>6. ASSUME NEW n \in 1 .. N, NEW x \in S PROVE DropStep(s, p, strategy, n, x) \in S
  <2>1. x.result \in Seq(DOMAIN s) /\ x.last_key_frame_index \in Nat /\ p[n] \in DOMAIN s
    BY <1>1, <1>2
  <2>2. Append(x.result, p[n]) \in Seq(DOMAIN s) /\ Len(x.result) \in Nat
    BY <2>1
  <2> QED
    BY <1>2, <2>1, <2>2 DEF DropStep
<1>7. \A n \in 1 .. N : \A x \in S : G[n][x] \in S /\ G[n][x] = DropStep(s, p, strategy, n, x)
  BY <1>4, <1>6
<1>8. \A n \in 1 .. N : \A x \in S : G[n][x] \in S
  BY <1>7
<1>9. PICK f : IsLoop(N, S, a, G, f)
  BY <1>5, <1>8, LoopExists
<1>10. /\ f = [n \in 0 .. N |-> f[n]]
       /\ f[0] = a
       /\ \A n \in 1 .. N : f[n - 1] \in S /\ f[n] = G[n][f[n - 1]]
  BY <1>9 DEF IsLoop
<1>11. ASSUME NEW n \in 0 .. N
       PROVE  f[n] = IF n = 0 THEN a ELSE DropStep(s, p, strategy, n, f[n - 1])
  <2>1. CASE n = 0
    BY <1>10, <2>1
  <2>2. CASE n # 0
    <3>1. n \in 1 .. N
      BY <1>5, <2>2
    <3>2. f[n - 1] \in S /\ f[n] = G[n][f[n - 1]]
      BY <1>10, <3>1
    <3> QED
      BY <1>7, <2>2, <3>1, <3>2
  <2> QED
    BY <2>1, <2>2
<1>12. f = DropBody(s, p, strategy, f)
  BY <1>1, <1>3, <1>10, <1>11 DEF DropBody
<1> QED
  BY <1>12

\* The loop of frame dropping, and what it has kept after n segments.
IsDrop(s, p, strategy, h) ==
    /\ h[0] = [result |-> <<>>, last_key_frame_index |-> 0]
    /\ \A n \in 1 .. Len(p) : h[n] = DropStep(s, p, strategy, n, h[n - 1])

KeptAt(s, p, strategy, h, n) == Keeps(s, p, strategy, n, n - 1 - h[n - 1].last_key_frame_index)

KeptPlaces(s, p, strategy, h, n) == {p[i] : i \in {j \in 1 .. n : KeptAt(s, p, strategy, h, j)}}

\* What frame dropping gives is the end of a loop by IsDrop.
LEMMA DropIs ==
    ASSUME video.segments \in Seq(Segment), NEW p \in Seq(DOMAIN video.segments), NEW strategy
    PROVE  \E h : /\ IsDrop(video.segments, p, strategy, h)
                  /\ FrameDropping(p, strategy) = h[Len(p)].result
<1>1. PICK s : s = video.segments
  OBVIOUS
<1>2. PICK f : f = DropBody(s, p, strategy, f)
  BY <1>1, DropExists
<1>3. PICK h : h = (CHOOSE g : g = DropBody(s, p, strategy, g))
  OBVIOUS
<1>4. h = DropBody(s, p, strategy, h)
  BY <1>2, <1>3, Zenon
<1>5. Len(p) \in Nat
  OBVIOUS
<1>6. IsDrop(s, p, strategy, h)
  <2>1. \A n \in 0 .. Len(p) :
            h[n] = IF n = 0 THEN [result |-> <<>>, last_key_frame_index |-> 0]
                   ELSE DropStep(s, p, strategy, n, h[n - 1])
    BY <1>4, Zenon DEF DropBody
  <2>2. 0 \in 0 .. Len(p) /\ \A n \in 1 .. Len(p) : n \in 0 .. Len(p) /\ n # 0
    BY <1>5
  <2> QED
    BY <2>1, <2>2, Zenon DEF IsDrop
<1> QED
  BY <1>1, <1>3, <1>6, DropFolds

\* After n segments the result holds those that were kept, no others.
LEMMA DropKeeps ==
    ASSUME NEW s, NEW p, p \in Seq(DOMAIN s), NEW strategy, NEW h, IsDrop(s, p, strategy, h)
    PROVE  \A n \in 0 .. Len(p) :
              /\ h[n].result \in Seq(DOMAIN s)
              /\ h[n].last_key_frame_index \in Nat
              /\ ToSet(h[n].result) = KeptPlaces(s, p, strategy, h, n)
<1> DEFINE Kept(n) == {p[i] : i \in {j \in 1 .. n : KeptAt(s, p, strategy, h, j)}}
           Is(n) == /\ h[n].result \in Seq(DOMAIN s)
                    /\ h[n].last_key_frame_index \in Nat
                    /\ ToSet(h[n].result) = Kept(n)
           P == {n \in Nat : n <= Len(p) => Is(n)}
<1>1. 0 \in P
  <2>1. h[0].result = <<>> /\ h[0].last_key_frame_index = 0
    BY DEF IsDrop
  <2>2. ToSet(h[0].result) = {}
    BY <2>1 DEF ToSet
  <2>3. Kept(0) = {}
    OBVIOUS
  <2>4. Is(0)
    BY <2>1, <2>2, <2>3
  <2> HIDE DEF Is
  <2> QED
    BY <2>4
<1>2. ASSUME NEW n \in P PROVE n + 1 \in P
  <2>1. n \in Nat /\ (n <= Len(p) => Is(n))
    BY <1>2
  <2>2. ASSUME n + 1 <= Len(p) PROVE Is(n + 1)
    <3>1. n + 1 \in 1 .. Len(p) /\ p[n + 1] \in DOMAIN s /\ (n + 1) - 1 = n
      BY <2>1, <2>2
    <3>2. PICK x : x = h[n]
      OBVIOUS
    <3>3. x.result \in Seq(DOMAIN s) /\ x.last_key_frame_index \in Nat /\ ToSet(x.result) = Kept(n)
      BY <2>1, <2>2, <3>2
    <3>4. h[n + 1] = DropStep(s, p, strategy, n + 1, x)
      BY <3>1, <3>2 DEF IsDrop
    <3>5. KeptAt(s, p, strategy, h, n + 1)
            <=> Keeps(s, p, strategy, n + 1, (n + 1) - 1 - x.last_key_frame_index)
      BY <3>1, <3>2 DEF KeptAt
    <3>6. /\ h[n + 1].result = IF KeptAt(s, p, strategy, h, n + 1)
                               THEN Append(x.result, p[n + 1]) ELSE x.result
          /\ h[n + 1].last_key_frame_index
                = IF s[p[n + 1]].is_key_frame THEN Len(x.result) ELSE x.last_key_frame_index
      BY <3>4, <3>5 DEF DropStep
    <3>7. Append(x.result, p[n + 1]) \in Seq(DOMAIN s) /\ Len(x.result) \in Nat
      BY <3>1, <3>3
    <3>8. ToSet(Append(x.result, p[n + 1])) = ToSet(x.result) \cup {p[n + 1]}
      <4>1. PICK r, e : r = x.result /\ e = p[n + 1]
        OBVIOUS
      <4>2. PICK t : t = Append(r, e)
        OBVIOUS
      <4>3. /\ DOMAIN r = 1 .. Len(r) /\ Len(r) \in Nat /\ DOMAIN t = 1 .. Len(r) + 1
            /\ t[Len(r) + 1] = e /\ \A i \in DOMAIN r : t[i] = r[i]
        BY <3>1, <3>3, <4>1, <4>2
      <4>4. ToSet(t) = ToSet(r) \cup {e}
        BY <4>3 DEF ToSet
      <4> QED
        BY <4>1, <4>2, <4>4
    <3>9. Kept(n + 1) = IF KeptAt(s, p, strategy, h, n + 1)
                        THEN Kept(n) \cup {p[n + 1]} ELSE Kept(n)
      <4>1. \A j : j \in 1 .. n + 1 <=> j \in 1 .. n \/ j = n + 1
        BY <2>1
      <4> QED
        BY <4>1
    <3> QED
      BY <3>3, <3>6, <3>7, <3>8, <3>9
  <2> QED
    BY <2>1, <2>2
<1>3. \A n \in Nat : n \in P
  <2>1. P \in SUBSET Nat
    OBVIOUS
  <2> HIDE DEF P
  <2> QED
    BY <1>1, <1>2, <2>1, Induction
<1>4. ASSUME NEW n \in 0 .. Len(p) PROVE Is(n)
  <2>1. n \in Nat /\ n <= Len(p)
    OBVIOUS
  <2> HIDE DEF Is
  <2> QED
    BY <1>3, <2>1
<1> QED
  BY <1>4, Zenon DEF KeptPlaces

\* Two neighbours are never both two past a multiple of three.
LEMMA ModThree == \A d \in Int : d % 3 # 2 \/ (d + 1) % 3 # 2
  OBVIOUS

\* Among four neighbours one is one past a multiple of four.
LEMMA ModFour == \A d \in Int : d % 4 = 1 \/ (d + 1) % 4 = 1 \/ (d + 2) % 4 = 1 \/ (d + 3) % 4 = 1
  OBVIOUS

\* SegmentsFrom gives places of segments, in order.
LEMMA SourceIs ==
    ASSUME video.segments \in Seq(Segment), NEW position \in Nat
    PROVE  \E p : /\ p = SegmentsFrom(position) /\ p \in Seq(DOMAIN video.segments)
                  /\ \A i, j \in 1 .. Len(p) : i < j => p[i] < p[j]
<1>1. PICK s : s = video.segments
  OBVIOUS
<1>2. PICK S : S = {i \in DOMAIN s : s[i].timestamp >= position}
  OBVIOUS
<1>3. DOMAIN s = 1 .. Len(s) /\ Len(s) \in Nat
  BY <1>1
<1>4. S \in SUBSET Nat /\ S \subseteq DOMAIN s /\ IsFiniteSet(S)
  <2>1. S \subseteq 1 .. Len(s)
    BY <1>2, <1>3
  <2>2. IsFiniteSet(1 .. Len(s))
    BY <1>3, FS_Interval
  <2>3. IsFiniteSet(S)
    BY <2>1, <2>2, FS_Subset
  <2> QED
    BY <1>3, <2>1, <2>3
<1>5. PICK p : /\ p = Ascending(S) /\ p \in Seq(S)
               /\ \A i, j \in 1 .. Len(p) : i < j => p[i] < p[j]
  BY <1>4, AscendingIs
<1>6. p \in Seq(DOMAIN s)
  BY <1>4, <1>5, SeqMonotonic
<1>7. p = SegmentsFrom(position)
  BY <1>1, <1>2, <1>5, Zenon DEF SegmentsFrom
<1> QED
  BY <1>1, <1>5, <1>6, <1>7

\* Which places of a queue are kept at a rate.
KeepsPlaces(s, p, rate, K) ==
    /\ K \subseteq 1 .. Len(p)
    /\ \A i \in 1 .. Len(p) : s[p[i]].is_key_frame => i \in K
    /\ rate > 40 => \A i \in K : s[p[i]].is_key_frame
    /\ rate <= 40 => \A i \in 1 .. Len(p) - Gap(rate) : \E j \in i .. i + Gap(rate) : j \in K

\* A segment that is no key frame leaves last_key_frame_index alone.
LEMMA LastKeyFrame ==
    ASSUME NEW s, NEW p, NEW strategy, NEW h, IsDrop(s, p, strategy, h),
           NEW n \in 1 .. Len(p), ~ s[p[n]].is_key_frame
    PROVE  h[n].last_key_frame_index = h[n - 1].last_key_frame_index
<1>1. h[n] = DropStep(s, p, strategy, n, h[n - 1])
  BY DEF IsDrop
<1> QED
  BY <1>1 DEF DropStep

\* Of two neighbours one is kept at 2x, of four at 4x: their distances follow
\* one another as long as no key frame comes between.
LEMMA Spread ==
    ASSUME NEW s, NEW p, p \in Seq(DOMAIN s), NEW strategy, NEW h, IsDrop(s, p, strategy, h)
    PROVE  /\ strategy = "b_frames" =>
                 \A i \in 1 .. Len(p) - 1 : \E j \in i .. i + 1 : KeptAt(s, p, strategy, h, j)
           /\ strategy = "p_frames" =>
                 \A i \in 1 .. Len(p) - 3 : \E j \in i .. i + 3 : KeptAt(s, p, strategy, h, j)
<1>0. Len(p) \in Nat
  OBVIOUS
<1>1. ASSUME NEW n \in 1 .. Len(p), ~ KeptAt(s, p, strategy, h, n)
      PROVE  /\ h[n].last_key_frame_index = h[n - 1].last_key_frame_index
             /\ strategy = "b_frames" => (n - 1 - h[n - 1].last_key_frame_index) % 3 = 2
             /\ strategy = "p_frames" => (n - 1 - h[n - 1].last_key_frame_index) % 4 # 1
  <2>1. /\ ~ s[p[n]].is_key_frame
        /\ strategy = "b_frames" => (n - 1 - h[n - 1].last_key_frame_index) % 3 = 2
        /\ strategy = "p_frames" => (n - 1 - h[n - 1].last_key_frame_index) % 4 # 1
    BY <1>1, Zenon DEF KeptAt, Keeps
  <2> QED
    BY <2>1, LastKeyFrame
<1>2. \A n \in 0 .. Len(p) : h[n].last_key_frame_index \in Nat
  BY DropKeeps
<1>3. ASSUME strategy = "b_frames", NEW i \in 1 .. Len(p) - 1,
             \A j \in i .. i + 1 : ~ KeptAt(s, p, strategy, h, j)
      PROVE  FALSE
  <2>1. i \in 1 .. Len(p) /\ i + 1 \in 1 .. Len(p) /\ (i + 1) - 1 = i /\ i - 1 \in 0 .. Len(p)
    BY <1>0
  <2>2. ~ KeptAt(s, p, strategy, h, i) /\ ~ KeptAt(s, p, strategy, h, i + 1)
    BY <1>3, <2>1
  <2>3. PICK l : l = h[i - 1].last_key_frame_index
    OBVIOUS
  <2>4. l \in Nat /\ h[i].last_key_frame_index = l
    BY <1>1, <1>2, <2>1, <2>2, <2>3
  <2>5. (i - 1 - l) % 3 = 2
    BY <1>1, <1>3, <2>1, <2>2, <2>3
  <2>6. ((i + 1) - 1 - l) % 3 = 2
    BY <1>1, <1>3, <2>1, <2>2, <2>4
  <2>7. (i - 1 - l) \in Int /\ (i + 1) - 1 - l = (i - 1 - l) + 1
    BY <2>1, <2>4
  <2> QED
    BY <2>5, <2>6, <2>7, ModThree
<1>4. ASSUME strategy = "p_frames", NEW i \in 1 .. Len(p) - 3,
             \A j \in i .. i + 3 : ~ KeptAt(s, p, strategy, h, j)
      PROVE  FALSE
  <2>1. PICK l : l = h[i - 1].last_key_frame_index
    OBVIOUS
  <2>2. l \in Nat
    BY <1>0, <1>2, <2>1
  <2>3. i \in Nat /\ \A j \in {i, i + 1, i + 2, i + 3} :
            /\ j \in 1 .. Len(p)
            /\ h[j].last_key_frame_index = h[j - 1].last_key_frame_index
            /\ (j - 1 - h[j - 1].last_key_frame_index) % 4 # 1
    <3>1. i \in Nat /\ \A j \in {i, i + 1, i + 2, i + 3} :
                          j \in 1 .. Len(p) /\ ~ KeptAt(s, p, strategy, h, j)
      BY <1>0, <1>4
    <3> QED
      BY <1>1, <1>4, <3>1
  <2>4. (i + 1) - 1 = i /\ (i + 2) - 1 = i + 1 /\ (i + 3) - 1 = i + 2
    BY <2>3
  <2>5. \A j \in {i, i + 1, i + 2} : h[j].last_key_frame_index = l
    BY <2>1, <2>3, <2>4
  <2>6. (i - 1 - l) % 4 # 1 /\ (i - l) % 4 # 1 /\ (i + 1 - l) % 4 # 1 /\ (i + 2 - l) % 4 # 1
    <3>1. (i - 1 - l) % 4 # 1
      BY <2>1, <2>3
    <3>2. ((i + 1) - 1 - l) % 4 # 1
      BY <2>3, <2>4, <2>5
    <3>3. ((i + 2) - 1 - l) % 4 # 1
      BY <2>3, <2>4, <2>5
    <3>4. ((i + 3) - 1 - l) % 4 # 1
      BY <2>3, <2>4, <2>5
    <3> QED
      BY <2>2, <2>3, <2>4, <3>1, <3>2, <3>3, <3>4
  <2>7. PICK d \in Int : d = i - 1 - l
    BY <2>2
  <2>8. i - l = d + 1 /\ i + 1 - l = d + 2 /\ i + 2 - l = d + 3
    BY <2>2, <2>3, <2>7
  <2> QED
    BY <2>6, <2>7, <2>8, ModFour
<1> QED
  BY <1>3, <1>4

At(p, K) == {p[i] : i \in K}

\* What is kept at a rate.
LEMMA DroppedIs ==
    ASSUME video.segments \in Seq(Segment), NEW p \in Seq(DOMAIN video.segments), NEW rate \in Nat
    PROVE  \E K : /\ KeepsPlaces(video.segments, p, rate, K)
                  /\ ToSet(Dropped(p, rate)) = At(p, K)
<1>0. PICK s : s = video.segments
  OBVIOUS
<1>1. PICK strategy : strategy = DropFrameStrategy(rate)
  OBVIOUS
<1>2. /\ rate <= 10 => strategy = "none" /\ Gap(rate) = 0
      /\ rate > 10 /\ rate <= 20 => strategy = "b_frames" /\ Gap(rate) = 1
      /\ rate > 20 /\ rate <= 40 => strategy = "p_frames" /\ Gap(rate) = 3
      /\ rate > 40 => strategy = "keep_key_frames_only"
  BY <1>1 DEF DropFrameStrategy, Gap
<1>3. Len(p) \in Nat /\ DOMAIN p = 1 .. Len(p)
  OBVIOUS
<1>4. CASE rate <= 10
  <2>1. PICK K : K = 1 .. Len(p)
    OBVIOUS
  <2>2. KeepsPlaces(s, p, rate, K)
    BY <1>2, <1>3, <1>4, <2>1 DEF KeepsPlaces
  <2>3. Dropped(p, rate) = p
    BY <1>1, <1>2, <1>4 DEF Dropped
  <2>4. ToSet(p) = {p[i] : i \in K}
    BY <1>3, <2>1 DEF ToSet
  <2> QED
    BY <1>0, <2>2, <2>3, <2>4 DEF At
<1>5. CASE rate > 10
  <2>1. PICK h : IsDrop(s, p, strategy, h) /\ FrameDropping(p, strategy) = h[Len(p)].result
    BY <1>0, DropIs
  <2>2. PICK K : K = {j \in 1 .. Len(p) : KeptAt(s, p, strategy, h, j)}
    OBVIOUS
  <2>3. Dropped(p, rate) = FrameDropping(p, strategy)
    BY <1>1, <1>2, <1>5 DEF Dropped
  <2>4. ToSet(h[Len(p)].result) = {p[i] : i \in K}
    <3>1. \A n \in 0 .. Len(p) :
              ToSet(h[n].result) = KeptPlaces(s, p, strategy, h, n)
      BY <1>0, <2>1, DropKeeps
    <3>2. PICK n : n = Len(p)
      OBVIOUS
    <3>3. ToSet(h[n].result) = KeptPlaces(s, p, strategy, h, n)
      BY <1>3, <3>1, <3>2
    <3> QED
      BY <2>2, <3>2, <3>3 DEF KeptPlaces
  <2>5. \A i \in 1 .. Len(p) : s[p[i]].is_key_frame => i \in K
    BY <2>2 DEF KeptAt, Keeps
  <2>6. rate > 40 => \A i \in K : s[p[i]].is_key_frame
    BY <1>2, <2>2 DEF KeptAt, Keeps
  <2>7. rate <= 40 => \A i \in 1 .. Len(p) - Gap(rate) : \E j \in i .. i + Gap(rate) : j \in K
    <3>1. ASSUME rate <= 40, NEW i \in 1 .. Len(p) - Gap(rate)
          PROVE \E j \in i .. i + Gap(rate) : j \in K
      <4>1. Gap(rate) \in {1, 3} /\ Gap(rate) \in Nat
        BY <1>2, <1>5, <3>1
      <4>2. PICK j \in i .. i + Gap(rate) : KeptAt(s, p, strategy, h, j)
        <5>1. CASE rate <= 20
          <6>1. strategy = "b_frames" /\ Gap(rate) = 1
            BY <1>2, <1>5, <5>1
          <6> QED
            BY <1>0, <2>1, <6>1, Spread
        <5>2. CASE rate > 20
          <6>1. strategy = "p_frames" /\ Gap(rate) = 3
            BY <1>2, <3>1, <5>2
          <6> QED
            BY <1>0, <2>1, <6>1, Spread
        <5> QED
          BY <5>1, <5>2
      <4>3. j \in 1 .. Len(p)
        BY <1>3, <4>1
      <4> QED
        BY <2>2, <4>2, <4>3
    <3> QED
      BY <3>1
  <2>8. KeepsPlaces(s, p, rate, K)
    BY <2>2, <2>5, <2>6, <2>7 DEF KeepsPlaces
  <2> QED
    BY <1>0, <2>1, <2>3, <2>4, <2>8 DEF At
<1> QED
  BY <1>4, <1>5

(***************************************************************************)
(* The queue as a function of the segments, the position and the rate.      *)
(***************************************************************************)

PlacesFrom(s, position) == Ascending({i \in DOMAIN s : s[i].timestamp >= position})

DroppedOf(s, p, rate) ==
    IF DropFrameStrategy(rate) = "none" THEN p
    ELSE (CHOOSE f : f = DropBody(s, p, DropFrameStrategy(rate), f))[Len(p)].result

SortedOf(s, S) == (CHOOSE g : g = SortFold(s, S, g))[S]

QueueOf(s, position, rate) == SortedOf(s, ToSet(DroppedOf(s, PlacesFrom(s, position), rate)))

\* The queue depends on the segments, the position and the rate alone.
LEMMA QueueIsOf ==
    \A position, rate : AdjustTransmissionQueue(SegmentsFrom(position), rate)
                          = QueueOf(video.segments, position, rate)
<1>1. ASSUME NEW position, NEW rate
      PROVE  AdjustTransmissionQueue(SegmentsFrom(position), rate)
               = QueueOf(video.segments, position, rate)
  <2>1. PICK p : p = SegmentsFrom(position)
    OBVIOUS
  <2>2. p = PlacesFrom(video.segments, position)
    BY <2>1, Zenon DEF SegmentsFrom, PlacesFrom
  <2>3. PICK d : d = Dropped(p, rate)
    OBVIOUS
  <2>4. d = DroppedOf(video.segments, p, rate)
    <3>1. FrameDropping(p, DropFrameStrategy(rate))
            = (CHOOSE f :
                  f = DropBody(video.segments, p, DropFrameStrategy(rate), f))[Len(p)].result
      BY DropFolds
    <3> QED
      BY <2>3, <3>1, Zenon DEF Dropped, DroppedOf
  <2>5. SortByTimestamp(d) = SortedOf(video.segments, ToSet(d))
    BY SortFolds DEF SortedOf
  <2> QED
    BY <2>1, <2>2, <2>3, <2>4, <2>5, Zenon DEF AdjustTransmissionQueue, QueueOf
<1> QED
  BY <1>1

\* What the queue holds, by the places of the source that are kept.
LEMMA QueueParts ==
    ASSUME video.segments \in Seq(Segment), NEW position \in Nat, NEW rate \in Nat
    PROVE  \E p, K, q : /\ p = SegmentsFrom(position)
                        /\ q = AdjustTransmissionQueue(SegmentsFrom(position), rate)
                        /\ p \in Seq(DOMAIN video.segments)
                        /\ KeepsPlaces(video.segments, p, rate, K)
                        /\ At(p, K) \subseteq DOMAIN video.segments
                        /\ Lists(q, At(p, K), Sooner(video.segments))
<1>1. PICK s : s = video.segments
  OBVIOUS
<1>2. PICK p : p = SegmentsFrom(position) /\ p \in Seq(DOMAIN s)
  BY <1>1, SourceIs
<1>3. PICK K : KeepsPlaces(s, p, rate, K) /\ ToSet(Dropped(p, rate)) = At(p, K)
  BY <1>1, <1>2, DroppedIs
<1>4. PICK T : T = At(p, K)
  OBVIOUS
<1>5. K \subseteq 1 .. Len(p)
  BY <1>3 DEF KeepsPlaces
<1>6. T \subseteq DOMAIN s
  BY <1>2, <1>4, <1>5 DEF At
<1>7. PICK d : d = Dropped(p, rate)
  OBVIOUS
<1>8. ToSet(d) = T
  BY <1>3, <1>4, <1>7
<1>9. PICK q : q = SortByTimestamp(d)
  OBVIOUS
<1>10. Lists(q, T, Sooner(s))
  BY <1>1, <1>6, <1>8, <1>9, SortLists
<1>11. q = AdjustTransmissionQueue(SegmentsFrom(position), rate)
  BY <1>2, <1>7, <1>9 DEF AdjustTransmissionQueue
<1> QED
  BY <1>1, <1>2, <1>3, <1>4, <1>6, <1>10, <1>11

\* The queue holds places of segments.
LEMMA QueueTyped ==
    ASSUME video.segments \in Seq(Segment), NEW position \in Nat, NEW rate \in Nat
    PROVE  AdjustTransmissionQueue(SegmentsFrom(position), rate) \in Seq(DOMAIN video.segments)
<1>1. PICK T, q : /\ q = AdjustTransmissionQueue(SegmentsFrom(position), rate)
                  /\ T \subseteq DOMAIN video.segments
                  /\ Lists(q, T, Sooner(video.segments))
  BY QueueParts
<1>2. q \in Seq(T)
  BY <1>1 DEF Lists
<1> QED
  BY <1>1, <1>2, SeqMonotonic

\* A queue that was filled at a position and a rate is as QueueKeepsKeyFrames says.
LEMMA QueueFits ==
    ASSUME video.segments \in Seq(Segment), NEW position \in Nat, NEW rate \in Nat,
           transmission_queue = AdjustTransmissionQueue(SegmentsFrom(position), rate),
           queued.position = position, queued.rate = rate, queued # None
    PROVE  QueueKeepsKeyFrames
<1>1. PICK s : s = video.segments
  OBVIOUS
<1>2. PICK q : q = transmission_queue
  OBVIOUS
<1>3. PICK p, K : /\ p = SegmentsFrom(position) /\ p \in Seq(DOMAIN s)
                  /\ KeepsPlaces(s, p, rate, K)
                  /\ Lists(q, At(p, K), Sooner(s))
  BY <1>1, <1>2, QueueParts
<1>4. PICK T : T = {p[i] : i \in K}
  OBVIOUS
<1>5. /\ K \subseteq 1 .. Len(p)
      /\ \A i \in 1 .. Len(p) : s[p[i]].is_key_frame => i \in K
      /\ rate > 40 => \A i \in K : s[p[i]].is_key_frame
      /\ rate <= 40 => \A i \in 1 .. Len(p) - Gap(rate) : \E j \in i .. i + Gap(rate) : j \in K
  BY <1>3 DEF KeepsPlaces
<1>6. Lists(q, T, Sooner(s))
  BY <1>3, <1>4 DEF At
<1>9. /\ q \in Seq(T) /\ Len(q) = Cardinality(T)
      /\ \A x \in T : \E i \in 1 .. Len(q) : q[i] = x
      /\ \A i, j \in 1 .. Len(q) : i < j => q[i] # q[j] /\ <<q[i], q[j]>> \in Sooner(s)
  BY <1>6 DEF Lists
<1>10. DOMAIN q = 1 .. Len(q) /\ ToSet(q) = T
  <2>1. DOMAIN q = 1 .. Len(q) /\ \A i \in 1 .. Len(q) : q[i] \in T
    BY <1>9
  <2> QED
    BY <1>9, <2>1 DEF ToSet
<1>11. Cardinality(ToSet(q)) = Len(q)
  BY <1>9, <1>10
<1>12. \A i, j \in DOMAIN q : i < j => s[q[i]].timestamp <= s[q[j]].timestamp
  BY <1>9, <1>10 DEF Sooner
<1>13. DOMAIN p = 1 .. Len(p) /\ ToSet(p) = {p[i] : i \in 1 .. Len(p)}
  <2>1. DOMAIN p = 1 .. Len(p)
    BY <1>3
  <2> QED
    BY <2>1 DEF ToSet
<1>14. {i \in ToSet(p) : s[i].is_key_frame} \subseteq T
  BY <1>4, <1>5, <1>13
<1>15. T \subseteq ToSet(p)
  BY <1>4, <1>5, <1>13
<1>16. rate > 40 => \A i \in T : s[i].is_key_frame
  BY <1>4, <1>5
<1>17. rate <= 40 => \A i \in 1 .. Len(p) - Gap(rate) : \E j \in i .. i + Gap(rate) : p[j] \in T
  BY <1>4, <1>5
<1>18. PICK kept, source : kept = ToSet(transmission_queue) /\ source = SegmentsFrom(queued.position)
  OBVIOUS
<1>19. kept = T /\ source = p
  BY <1>2, <1>3, <1>10, <1>18
<1>20. Cardinality(kept) = Len(transmission_queue)
  BY <1>2, <1>11, <1>18
<1>21. \A i, j \in DOMAIN transmission_queue :
          i < j => video.segments[transmission_queue[i]].timestamp
                     <= video.segments[transmission_queue[j]].timestamp
  BY <1>1, <1>2, <1>12
<1>22. {i \in ToSet(source) : video.segments[i].is_key_frame} \subseteq kept
  BY <1>1, <1>14, <1>19
<1>23. kept \subseteq ToSet(source)
  BY <1>15, <1>19
<1>24. queued.rate > 40 => \A i \in kept : video.segments[i].is_key_frame
  BY <1>1, <1>16, <1>19
<1>25. queued.rate <= 40 =>
          \A i \in 1 .. Len(source) - Gap(queued.rate) :
              \E j \in i .. i + Gap(queued.rate) : source[j] \in kept
  BY <1>17, <1>19
<1> QED
  BY <1>18, <1>20, <1>21, <1>22, <1>23, <1>24, <1>25, Zenon DEF QueueKeepsKeyFrames

(***************************************************************************)
(* The scan.                                                               *)
(***************************************************************************)

\* Every strategy has a buffer.
LEMMA SizeOfBuffer ==
    ASSUME NEW strategy \in Strategies
    PROVE  BufferSize[strategy] \in Nat \ {0}
BY DEF Strategies, BufferSize

\* A quotient of numbers is one.
LEMMA DivIsNat == \A a \in Nat, b \in Nat \ {0} : a \div b \in Nat
  OBVIOUS

\* Blocks are counted from 0.
LEMMA BlockIs ==
    ASSUME NEW strategy \in Strategies, NEW offset \in Nat
    PROVE  Block(offset, strategy) \in Nat
BY SizeOfBuffer, DivIsNat DEF Block

\* The smaller of two.
LEMMA MinOfTwo ==
    ASSUME NEW a \in Int, NEW b \in Int
    PROVE  Min({a, b}) \in Int /\ Min({a, b}) <= a /\ Min({a, b}) <= b
<1>1. PICK m : m = Min({a, b})
  OBVIOUS
<1>2. \E x \in {a, b} : \A y \in {a, b} : x <= y
  <2>1. CASE a <= b
    BY <2>1
  <2>2. CASE ~ (a <= b)
    BY <2>2
  <2> QED
    BY <2>1, <2>2
<1>3. m \in {a, b} /\ \A y \in {a, b} : m <= y
  BY <1>1, <1>2 DEF Min
<1> QED
  BY <1>1, <1>3

FileOK(file) ==
    /\ file.size \in Nat /\ IsFiniteSet(file.start_codes)
    /\ \A code \in file.start_codes : code.offset \in Nat /\ code.bytes \in {3, 4}

\* A file has finitely many start codes.
LEMMA CodesFinite ==
    ASSUME NEW file, FileOK(file)
    PROVE  IsFiniteSet(Codes(file)) /\ Codes(file) \in SUBSET Nat
<1>1. PICK S : S = file.start_codes
  OBVIOUS
<1>2. PICK T : T = {c \in S : c.bytes = 4}
  OBVIOUS
<1>3. IsFiniteSet(S) /\ IsFiniteSet(T) /\ \A code \in S : code.offset \in Nat
  <2>1. IsFiniteSet(S) /\ T \subseteq S
    BY <1>1, <1>2 DEF FileOK
  <2> QED
    BY <1>1, <2>1, FS_Subset DEF FileOK
<1>4. PICK f : f = [c \in S |-> c.offset]
  OBVIOUS
<1>5. PICK g : g = [c \in T |-> c.offset + 1]
  OBVIOUS
<1>6. IsFiniteSet({f[c] : c \in S}) /\ IsFiniteSet({g[c] : c \in T})
  BY <1>3, <1>4, <1>5, ImageFinite
<1>7. PICK A, B : A = {c.offset : c \in S} /\ B = {c.offset + 1 : c \in T}
  OBVIOUS
<1>8. A = {f[c] : c \in S} /\ B = {g[c] : c \in T}
  BY <1>4, <1>5, <1>7
<1>9. IsFiniteSet(A \cup B)
  BY <1>6, <1>8, FS_Union
<1>10. A \in SUBSET Nat /\ B \in SUBSET Nat
  BY <1>2, <1>3, <1>7
<1>11. Codes(file) = A \cup B
  BY <1>1, <1>2, <1>7, Zenon DEF Codes
<1> QED
  BY <1>9, <1>10, <1>11

\* What the scan finds: offsets in the file, in its order.
LEMMA FoundIs ==
    ASSUME NEW file, FileOK(file), NEW strategy \in Strategies
    PROVE  \E found : /\ found = Found(file, strategy) /\ found \in Seq(Nat)
                      /\ \A i \in 1 .. Len(found) : found[i] < file.size
                      /\ \A i, j \in 1 .. Len(found) : i < j => found[i] < found[j]
<1>1. PICK S : S = {offset \in Codes(file) :
          LET base == Block(offset, strategy) * BufferSize[strategy] IN
          /\ base <= ScanLimit
          /\ offset < Min({base + BufferSize[strategy], file.size}) - 5}
  OBVIOUS
<1>2. IsFiniteSet(S) /\ S \in SUBSET Nat
  <2>1. S \subseteq Codes(file)
    BY <1>1
  <2>2. IsFiniteSet(Codes(file)) /\ Codes(file) \in SUBSET Nat
    BY CodesFinite
  <2>3. IsFiniteSet(S)
    BY <2>1, <2>2, FS_Subset
  <2> QED
    BY <2>1, <2>2, <2>3
<1>3. ASSUME NEW offset \in S PROVE offset < file.size
  <2>1. PICK base : base = Block(offset, strategy) * BufferSize[strategy]
    OBVIOUS
  <2>2. offset < Min({base + BufferSize[strategy], file.size}) - 5
    BY <1>1, <2>1
  <2>3. offset \in Nat /\ BufferSize[strategy] \in Nat /\ file.size \in Nat
    BY <1>2, SizeOfBuffer DEF FileOK
  <2>4. base \in Int
    BY <2>1, <2>3, BlockIs
  <2>5. PICK a : a = base + BufferSize[strategy]
    OBVIOUS
  <2>6. PICK size : size = file.size
    OBVIOUS
  <2>7. PICK m : m = Min({a, size})
    OBVIOUS
  <2>8. a \in Int /\ size \in Int
    BY <2>3, <2>4, <2>5, <2>6
  <2>9. m \in Int /\ m <= size
    BY <2>7, <2>8, MinOfTwo
  <2>10. offset < m - 5
    BY <2>2, <2>5, <2>6, <2>7
  <2> QED
    BY <2>3, <2>6, <2>8, <2>9, <2>10
<1>4. PICK found : /\ found = Ascending(S) /\ found \in Seq(S) /\ found \in Seq(Nat)
                   /\ \A i, j \in 1 .. Len(found) : i < j => found[i] < found[j]
  BY <1>2, AscendingIs
<1>5. \A i \in 1 .. Len(found) : found[i] \in S
  BY <1>4
<1>6. found = Found(file, strategy)
  BY <1>1, <1>4, Zenon DEF Found
<1> QED
  BY <1>3, <1>4, <1>5, <1>6

ScanStep(strategy, found, n, x) ==
    IF Block(found[n], strategy) = x.left THEN x ELSE ScanKeyframe(x, found[n], strategy)

ScanBody(strategy, found, f) ==
    [n \in 0 .. Len(found) |-> IF n = 0 THEN [entries |-> <<>>, frame_count |-> 0, left |-> -1]
                               ELSE ScanStep(strategy, found, n, f[n - 1])]

\* Scan is what its loop ends with.
LEMMA ScanFolds ==
    \A file, strategy : Scan(file, strategy)
        = (CHOOSE f : f = ScanBody(strategy, Found(file, strategy), f))[Len(Found(file, strategy))]
  BY Zenon DEF Scan, ScanBody, ScanStep

ScanTyped(x) ==
    /\ x = [entries |-> x.entries, frame_count |-> x.frame_count, left |-> x.left]
    /\ x.entries \in Seq(Entry) /\ x.frame_count \in Nat /\ x.left \in Int

\* A step of the scan keeps the types.
LEMMA ScanTypedStep ==
    ASSUME NEW strategy \in Strategies, NEW found \in Seq(Nat), NEW n \in 1 .. Len(found),
           NEW x, ScanTyped(x)
    PROVE  ScanTyped(ScanStep(strategy, found, n, x))
<1>1. PICK o \in Nat : o = found[n]
  OBVIOUS
<1>2. Block(o, strategy) \in Nat
  BY BlockIs
<1>3. PICK y : y = ScanKeyframe(x, o, strategy)
  OBVIOUS
<1>4. PICK e : e = IF Included(strategy, x.frame_count, Len(x.entries))
                   THEN Append(x.entries, [timestamp |-> x.frame_count, file_offset |-> o])
                   ELSE x.entries
  OBVIOUS
<1>5. e \in Seq(Entry)
  <2>1. [timestamp |-> x.frame_count, file_offset |-> o] \in Entry
    BY DEF ScanTyped, Entry
  <2> QED
    BY <1>4, <2>1 DEF ScanTyped
<1>6. y = [entries |-> e, frame_count |-> x.frame_count + 1,
           left |-> IF strategy = "Adaptive" /\ Len(e) > MemoryLimit
                    THEN Block(o, strategy) ELSE -1]
  BY <1>3, <1>4, Zenon DEF ScanKeyframe
<1>7. ScanTyped(y)
  BY <1>2, <1>5, <1>6 DEF ScanTyped
<1> QED
  BY <1>1, <1>3, <1>7 DEF ScanStep

\* The loop of the scan has its values.
LEMMA ScanExists ==
    ASSUME NEW strategy \in Strategies, NEW found \in Seq(Nat)
    PROVE  \E f : f = ScanBody(strategy, found, f)
<1>1. PICK N : N = Len(found)
  OBVIOUS
<1>2. PICK S : S = [entries : Seq(Entry), frame_count : Nat, left : Int]
  OBVIOUS
<1>3. PICK a : a = [entries |-> <<>>, frame_count |-> 0, left |-> -1]
  OBVIOUS
<1>4. PICK G : G = [n \in 1 .. N |-> [x \in S |-> ScanStep(strategy, found, n, x)]]
  OBVIOUS
<1>5. N \in Nat /\ a \in S
  BY <1>1, <1>2, <1>3
<1>6. ASSUME NEW n \in 1 .. N, NEW x \in S PROVE ScanStep(strategy, found, n, x) \in S
  <2>1. ScanTyped(x)
    BY <1>2 DEF ScanTyped
  <2>2. PICK y : y = ScanStep(strategy, found, n, x)
    OBVIOUS
  <2>3. ScanTyped(y)
    BY <1>1, <2>1, <2>2, ScanTypedStep
  <2>4. y \in S
    BY <1>2, <2>3 DEF ScanTyped
  <2> QED
    BY <2>2, <2>4
<1>7. \A n \in 1 .. N : \A x \in S : G[n][x] = ScanStep(strategy, found, n, x)
  BY <1>4
<1>8. \A n \in 1 .. N : \A x \in S : G[n][x] \in S
  BY <1>6, <1>7
<1>9. PICK f : IsLoop(N, S, a, G, f)
  BY <1>5, <1>8, LoopExists
<1>10. /\ f = [n \in 0 .. N |-> f[n]]
       /\ f[0] = a
       /\ \A n \in 1 .. N : f[n - 1] \in S /\ f[n] = G[n][f[n - 1]]
  BY <1>9 DEF IsLoop
<1>11. \A n \in 0 .. N : f[n] = IF n = 0 THEN a ELSE ScanStep(strategy, found, n, f[n - 1])
  <2>1. ASSUME NEW n \in 0 .. N, n # 0 PROVE f[n] = ScanStep(strategy, found, n, f[n - 1])
    <3>1. n \in 1 .. N
      BY <1>5, <2>1
    <3>2. PICK x : x = f[n - 1]
      OBVIOUS
    <3> QED
      BY <1>7, <1>10, <3>1, <3>2
  <2> QED
    BY <1>10, <2>1
<1>12. f = ScanBody(strategy, found, f)
  BY <1>1, <1>3, <1>10, <1>11 DEF ScanBody
<1> QED
  BY <1>12

OverLimit(strategy, entries) == strategy = "Adaptive" /\ Len(entries) > MemoryLimit

\* Where an entry points: to the start code its time counts, or to a later one.
Points(strategy, found, n, entries, e) ==
    \E k \in 1 .. n : /\ e.file_offset = found[k] /\ e.timestamp + 1 <= k
                      /\ k = e.timestamp + 1 \/ OverLimit(strategy, entries)

\* The scan when n of the start codes are behind it.
ScanOK(strategy, found, n, x) ==
    /\ ScanTyped(x)
    /\ x.frame_count <= n
    /\ x.frame_count = n \/ OverLimit(strategy, x.entries)
    /\ x.left = -1 \/ OverLimit(strategy, x.entries)
    /\ \A i \in 1 .. Len(x.entries) : /\ x.entries[i].timestamp < x.frame_count
                                      /\ Points(strategy, found, n, x.entries, x.entries[i])
    /\ \A i, j \in 1 .. Len(x.entries) :
          i < j => /\ x.entries[i].timestamp < x.entries[j].timestamp
                   /\ x.entries[i].file_offset < x.entries[j].file_offset
    /\ n > 0 => Len(x.entries) > 0 /\ x.entries[1] = [timestamp |-> 0, file_offset |-> found[1]]

\* The fields of an entry.
LEMMA EntryParts == \A e \in Entry : e.timestamp \in Nat /\ e.file_offset \in Nat
  BY DEF Entry

\* An entry still points where it did when the scan goes on.
LEMMA PointsLater ==
    ASSUME NEW strategy, NEW found, NEW n \in Nat, NEW e, NEW entries, NEW more,
           Points(strategy, found, n, entries, e),
           OverLimit(strategy, entries) => OverLimit(strategy, more)
    PROVE  Points(strategy, found, n + 1, more, e)
<1>1. PICK k \in 1 .. n : /\ e.file_offset = found[k] /\ e.timestamp + 1 <= k
                          /\ k = e.timestamp + 1 \/ OverLimit(strategy, entries)
  BY DEF Points
<1>2. k \in 1 .. n + 1
  OBVIOUS
<1> QED
  BY <1>1, <1>2 DEF Points

\* Every strategy puts the first key frame into the index.
LEMMA FirstIncluded ==
    ASSUME NEW strategy \in Strategies
    PROVE  Included(strategy, 0, 0)
<1>1. 0 % 30 = 0 /\ 0 % 60 = 0
  OBVIOUS
<1> QED
  BY <1>1 DEF Strategies, Included

\* A step of the scan keeps ScanOK.
LEMMA ScanStepOK ==
    ASSUME NEW strategy \in Strategies, NEW found \in Seq(Nat),
           \A i, j \in 1 .. Len(found) : i < j => found[i] < found[j],
           NEW n \in Nat, n + 1 <= Len(found), NEW x, ScanOK(strategy, found, n, x)
    PROVE  ScanOK(strategy, found, n + 1, ScanStep(strategy, found, n + 1, x))
<1>0. MemoryLimit \in Nat
  BY PlaybackOK
<1>1. n + 1 \in 1 .. Len(found) /\ \A k \in 1 .. n : k \in 1 .. Len(found)
  OBVIOUS
<1>2. PICK o \in Nat : o = found[n + 1]
  BY <1>1
<1>3. PICK c, es : c = x.frame_count /\ es = x.entries
  OBVIOUS
<1>4. PICK l : l = Len(es)
  OBVIOUS
<1>5. c \in Nat /\ es \in Seq(Entry) /\ l \in Nat /\ x.left \in Int
  BY <1>3, <1>4 DEF ScanOK, ScanTyped
<1>6. /\ c <= n
      /\ c = n \/ OverLimit(strategy, es)
      /\ x.left = -1 \/ OverLimit(strategy, es)
      /\ \A i \in 1 .. l : es[i].timestamp < c /\ Points(strategy, found, n, es, es[i])
      /\ \A i, j \in 1 .. l :
            i < j => es[i].timestamp < es[j].timestamp /\ es[i].file_offset < es[j].file_offset
      /\ n > 0 => l > 0 /\ es[1] = [timestamp |-> 0, file_offset |-> found[1]]
  BY <1>3, <1>4, Zenon DEF ScanOK
<1>7. OverLimit(strategy, es) => n > 0
  <2>1. ASSUME OverLimit(strategy, es) PROVE l > 0
    BY <1>0, <1>4, <1>5, <2>1 DEF OverLimit
  <2>2. ASSUME l > 0 PROVE n > 0
    <3>1. 1 \in 1 .. l
      BY <1>5, <2>2
    <3>2. es[1].timestamp < c /\ es[1] \in Entry
      BY <1>4, <1>5, <1>6, <3>1
    <3>3. es[1].timestamp \in Nat
      BY <3>2, EntryParts
    <3> QED
      BY <1>5, <1>6, <3>2, <3>3
  <2> QED
    BY <2>1, <2>2
<1>8. CASE Block(o, strategy) = x.left
  <2>1. OverLimit(strategy, es)
    <3>1. Block(o, strategy) \in Nat
      BY BlockIs
    <3> QED
      BY <1>6, <1>8, <3>1
  <2>2. ScanStep(strategy, found, n + 1, x) = x
    BY <1>2, <1>8 DEF ScanStep
  <2>3. c <= n + 1
    BY <1>5, <1>6
  <2>4. \A i \in 1 .. l : Points(strategy, found, n + 1, es, es[i])
    BY <1>6, PointsLater
  <2>5. ScanOK(strategy, found, n + 1, x)
    <3>1. ScanTyped(x)
      BY DEF ScanOK
    <3>2. l > 0 /\ es[1] = [timestamp |-> 0, file_offset |-> found[1]]
      BY <1>6, <1>7, <2>1
    <3> QED
      BY <1>3, <1>4, <1>6, <2>1, <2>3, <2>4, <3>1, <3>2, Zenon DEF ScanOK
  <2> QED
    BY <2>2, <2>5
<1>9. CASE Block(o, strategy) # x.left
  <2>1. PICK y : y = ScanKeyframe(x, o, strategy)
    OBVIOUS
  <2>2. ScanStep(strategy, found, n + 1, x) = y
    BY <1>2, <1>9, <2>1 DEF ScanStep
  <2>3. PICK new : new = [timestamp |-> c, file_offset |-> o]
    OBVIOUS
  <2>4. new \in Entry /\ new.timestamp = c /\ new.file_offset = o
    BY <1>5, <2>3 DEF Entry
  <2>5. PICK fs : fs = IF Included(strategy, c, l) THEN Append(es, new) ELSE es
    OBVIOUS
  <2>6. y = [entries |-> fs, frame_count |-> c + 1,
             left |-> IF strategy = "Adaptive" /\ Len(fs) > MemoryLimit
                      THEN Block(o, strategy) ELSE -1]
    BY <1>3, <1>4, <2>1, <2>3, <2>5, Zenon DEF ScanKeyframe
  <2>7. /\ y.entries = fs /\ y.frame_count = c + 1
        /\ y.left = -1 \/ OverLimit(strategy, fs)
    BY <2>6 DEF OverLimit
  <2>8. ScanTyped(y)
    <3>1. ScanTyped(x)
      BY DEF ScanOK
    <3> QED
      BY <1>1, <2>2, <3>1, ScanTypedStep
  <2>9. PICK m : m = Len(fs)
    OBVIOUS
  <2>10. /\ fs \in Seq(Entry) /\ m \in Nat
         /\ \A i \in 1 .. l : i \in 1 .. m /\ fs[i] = es[i]
         /\ \/ m = l /\ ~ Included(strategy, c, l)
            \/ m = l + 1 /\ fs[m] = new
    BY <1>4, <1>5, <2>4, <2>5, <2>9
  <2>11. OverLimit(strategy, es) => OverLimit(strategy, fs)
    BY <1>0, <1>4, <1>5, <2>9, <2>10 DEF OverLimit
  <2>12. c + 1 <= n + 1 /\ (c + 1 = n + 1 \/ OverLimit(strategy, fs))
    BY <1>5, <1>6, <2>11
  <2>13. \A i \in 1 .. l : /\ fs[i].timestamp < c /\ fs[i].timestamp \in Nat
                           /\ fs[i].file_offset < o
                           /\ Points(strategy, found, n + 1, fs, fs[i])
    <3>1. ASSUME NEW i \in 1 .. l
          PROVE  /\ fs[i].timestamp < c /\ fs[i].timestamp \in Nat /\ fs[i].file_offset < o
                 /\ Points(strategy, found, n + 1, fs, fs[i])
      <4>1. fs[i] = es[i] /\ es[i].timestamp < c /\ Points(strategy, found, n, es, es[i])
        BY <1>6, <2>10
      <4>2. es[i].timestamp \in Nat
        BY <1>4, <1>5, EntryParts
      <4>3. PICK k \in 1 .. n : es[i].file_offset = found[k]
        BY <4>1 DEF Points
      <4>4. found[k] < found[n + 1]
        BY <1>1
      <4>5. Points(strategy, found, n + 1, fs, es[i])
        BY <2>11, <4>1, PointsLater
      <4> QED
        BY <1>2, <4>1, <4>2, <4>3, <4>4, <4>5
    <3> QED
      BY <3>1
  <2>14. Points(strategy, found, n + 1, fs, new)
    <3>1. n + 1 \in 1 .. n + 1 /\ c + 1 <= n + 1
      BY <2>12
    <3>2. new.file_offset = found[n + 1] /\ new.timestamp + 1 <= n + 1
          /\ (n + 1 = new.timestamp + 1 \/ OverLimit(strategy, fs))
      BY <1>2, <2>4, <2>12
    <3> QED
      BY <3>1, <3>2, Zenon DEF Points
  <2>15. \A i \in 1 .. m : i \in 1 .. l \/ (i = m /\ m = l + 1 /\ fs[i] = new)
    BY <1>5, <2>10
  <2>16. \A i \in 1 .. m : fs[i].timestamp < c + 1 /\ Points(strategy, found, n + 1, fs, fs[i])
    <3>1. ASSUME NEW i \in 1 .. m
          PROVE  fs[i].timestamp < c + 1 /\ Points(strategy, found, n + 1, fs, fs[i])
      <4>1. CASE i \in 1 .. l
        BY <1>5, <2>13, <4>1
      <4>2. CASE fs[i] = new
        BY <1>5, <2>4, <2>14, <4>2
      <4> QED
        BY <2>15, <4>1, <4>2
    <3> QED
      BY <3>1
  <2>17. \A i, j \in 1 .. m :
            i < j => fs[i].timestamp < fs[j].timestamp /\ fs[i].file_offset < fs[j].file_offset
    <3>1. ASSUME NEW i \in 1 .. m, NEW j \in 1 .. m, i < j
          PROVE  fs[i].timestamp < fs[j].timestamp /\ fs[i].file_offset < fs[j].file_offset
      <4>1. i \in 1 .. l
        BY <1>5, <2>10, <3>1
      <4>2. CASE j \in 1 .. l
        BY <1>6, <2>10, <3>1, <4>1, <4>2
      <4>3. CASE fs[j] = new
        BY <2>4, <2>13, <4>1, <4>3
      <4> QED
        BY <2>15, <4>2, <4>3
    <3> QED
      BY <3>1
  <2>18. m > 0 /\ fs[1] = [timestamp |-> 0, file_offset |-> found[1]]
    <3>1. CASE n > 0
      <4>1. l > 0 /\ es[1] = [timestamp |-> 0, file_offset |-> found[1]]
        BY <1>6, <3>1
      <4>2. 1 \in 1 .. l
        BY <1>5, <4>1
      <4>3. m > 0 /\ fs[1] = es[1]
        BY <1>5, <2>10, <4>1, <4>2
      <4> QED
        BY <4>1, <4>3
    <3>2. CASE n = 0
      <4>1. c = 0 /\ ~ OverLimit(strategy, es) /\ o = found[1]
        BY <1>2, <1>5, <1>6, <1>7, <3>2
      <4>2. l = 0
        <5>1. ASSUME l # 0 PROVE FALSE
          <6>1. 1 \in 1 .. l
            BY <1>5, <5>1
          <6> QED
            BY <1>5, <2>13, <4>1, <6>1
        <5> QED
          BY <5>1
      <4>3. Included(strategy, c, l)
        BY <4>1, <4>2, FirstIncluded
      <4> QED
        BY <2>3, <2>10, <4>1, <4>2, <4>3
    <3> QED
      BY <3>1, <3>2
  <2>19. ScanOK(strategy, found, n + 1, y)
    BY <2>7, <2>8, <2>9, <2>12, <2>16, <2>17, <2>18, Zenon DEF ScanOK
  <2> QED
    BY <2>2, <2>19
<1> QED
  BY <1>8, <1>9

IsScan(strategy, found, h) ==
    /\ h[0] = [entries |-> <<>>, frame_count |-> 0, left |-> -1]
    /\ \A n \in 1 .. Len(found) : h[n] = ScanStep(strategy, found, n, h[n - 1])

\* The scan ends with ScanOK.
LEMMA ScanHolds ==
    ASSUME NEW strategy \in Strategies, NEW found \in Seq(Nat),
           \A i, j \in 1 .. Len(found) : i < j => found[i] < found[j],
           NEW h, IsScan(strategy, found, h)
    PROVE  ScanOK(strategy, found, Len(found), h[Len(found)])
<1> DEFINE P == {n \in Nat : n <= Len(found) => ScanOK(strategy, found, n, h[n])}
<1>1. 0 \in P
  <2>1. PICK x : x = h[0]
    OBVIOUS
  <2>2. x = [entries |-> <<>>, frame_count |-> 0, left |-> -1]
    BY <2>1 DEF IsScan
  <2>3. x.entries = <<>> /\ x.frame_count = 0 /\ x.left = -1 /\ Len(x.entries) = 0 /\ 1 .. 0 = {}
    BY <2>2
  <2>4. ScanTyped(x)
    BY <2>2, <2>3 DEF ScanTyped
  <2>5. ScanOK(strategy, found, 0, x)
    BY <2>3, <2>4 DEF ScanOK
  <2> QED
    BY <2>1, <2>5
<1>2. ASSUME NEW n \in P PROVE n + 1 \in P
  <2>1. n \in Nat /\ (n <= Len(found) => ScanOK(strategy, found, n, h[n]))
    BY <1>2
  <2>2. ASSUME n + 1 <= Len(found) PROVE ScanOK(strategy, found, n + 1, h[n + 1])
    <3>1. n + 1 \in 1 .. Len(found) /\ n <= Len(found) /\ (n + 1) - 1 = n
      BY <2>1, <2>2
    <3>2. PICK x : x = h[n]
      OBVIOUS
    <3>3. ScanOK(strategy, found, n, x)
      BY <2>1, <3>1, <3>2
    <3>4. h[n + 1] = ScanStep(strategy, found, n + 1, x)
      BY <3>1, <3>2 DEF IsScan
    <3>5. ScanOK(strategy, found, n + 1, ScanStep(strategy, found, n + 1, x))
      BY <2>1, <2>2, <3>3, ScanStepOK
    <3> QED
      BY <3>4, <3>5
  <2> QED
    BY <2>1, <2>2
<1>3. \A n \in Nat : n \in P
  <2>1. P \in SUBSET Nat
    OBVIOUS
  <2> HIDE DEF P
  <2> QED
    BY <1>1, <1>2, <2>1, Induction
<1>4. PICK n : n = Len(found)
  OBVIOUS
<1>5. n \in Nat /\ n <= Len(found)
  BY <1>4
<1> QED
  BY <1>3, <1>4, <1>5

\* An index of a file: strictly ascending, its first entry the first start code
\* found, its offsets inside the file.
IsIndex(file, strategy, found, entries) ==
    /\ entries \in Seq(Entry)
    /\ \A i, j \in 1 .. Len(entries) :
          i < j => /\ entries[i].timestamp < entries[j].timestamp
                   /\ entries[i].file_offset < entries[j].file_offset
    /\ \A i \in 1 .. Len(entries) : /\ entries[i].file_offset < file.size
                                    /\ Points(strategy, found, Len(found), entries, entries[i])
    /\ found # <<>> => Len(entries) > 0 /\ entries[1] = [timestamp |-> 0, file_offset |-> found[1]]

\* What the scan of a file gives.
LEMMA ScanIs ==
    ASSUME NEW file, FileOK(file), NEW strategy \in Strategies
    PROVE  \E found, entries : /\ found = Found(file, strategy)
                               /\ entries = Scan(file, strategy).entries
                               /\ found \in Seq(Nat)
                               /\ \A i, j \in 1 .. Len(found) : i < j => found[i] < found[j]
                               /\ IsIndex(file, strategy, found, entries)
<1>1. PICK found : /\ found = Found(file, strategy) /\ found \in Seq(Nat)
                   /\ \A i \in 1 .. Len(found) : found[i] < file.size
                   /\ \A i, j \in 1 .. Len(found) : i < j => found[i] < found[j]
  BY FoundIs
<1>2. PICK f : f = ScanBody(strategy, found, f)
  BY <1>1, ScanExists
<1>3. PICK h : h = (CHOOSE g : g = ScanBody(strategy, found, g))
  OBVIOUS
<1>4. h = ScanBody(strategy, found, h)
  BY <1>2, <1>3, Zenon
<1>5. IsScan(strategy, found, h)
  <2>1. \A n \in 0 .. Len(found) :
            h[n] = IF n = 0 THEN [entries |-> <<>>, frame_count |-> 0, left |-> -1]
                   ELSE ScanStep(strategy, found, n, h[n - 1])
    BY <1>4, Zenon DEF ScanBody
  <2>2. 0 \in 0 .. Len(found) /\ \A n \in 1 .. Len(found) : n \in 0 .. Len(found) /\ n # 0
    BY <1>1
  <2> QED
    BY <2>1, <2>2, Zenon DEF IsScan
<1>6. PICK N : N = Len(found)
  OBVIOUS
<1>7. PICK x : x = h[N]
  OBVIOUS
<1>8. N \in Nat /\ (found # <<>> => N > 0)
  BY <1>1, <1>6
<1>9. ScanOK(strategy, found, N, x)
  BY <1>1, <1>5, <1>6, <1>7, ScanHolds
<1>10. Scan(file, strategy) = x
  BY <1>1, <1>3, <1>6, <1>7, ScanFolds
<1>11. PICK es : es = x.entries
  OBVIOUS
<1>12. /\ ScanTyped(x)
       /\ \A i \in 1 .. Len(es) : Points(strategy, found, N, es, es[i])
       /\ \A i, j \in 1 .. Len(es) :
             i < j => es[i].timestamp < es[j].timestamp /\ es[i].file_offset < es[j].file_offset
       /\ N > 0 => Len(es) > 0 /\ es[1] = [timestamp |-> 0, file_offset |-> found[1]]
  BY <1>9, <1>11, Zenon DEF ScanOK
<1>13. es \in Seq(Entry)
  BY <1>11, <1>12 DEF ScanTyped
<1>14. ASSUME NEW i \in 1 .. Len(es) PROVE es[i].file_offset < file.size
  <2>1. PICK k \in 1 .. N : es[i].file_offset = found[k]
    BY <1>12 DEF Points
  <2> QED
    BY <1>1, <1>6, <2>1
<1>15. IsIndex(file, strategy, found, es)
  BY <1>6, <1>8, <1>12, <1>13, <1>14, Zenon DEF IsIndex
<1>16. es = Scan(file, strategy).entries
  BY <1>10, <1>11
<1> QED
  BY <1>1, <1>15, <1>16

\* An index that is not empty is as EntriesFaithful says.
LEMMA IndexFaithful ==
    ASSUME FileOK(video.file), NEW strategy \in Strategies, NEW idx,
           idx = KeyframeIndex(video.file, strategy), idx.entries # <<>>
    PROVE  EntriesFaithful(idx)
<1>1. PICK found, es : /\ found = Found(video.file, strategy)
                       /\ es = Scan(video.file, strategy).entries
                       /\ found \in Seq(Nat)
                       /\ \A i, j \in 1 .. Len(found) : i < j => found[i] < found[j]
                       /\ IsIndex(video.file, strategy, found, es)
  BY ScanIs
<1>2. idx.entries = es /\ idx.optimization_strategy = strategy
  BY <1>1 DEF KeyframeIndex
<1>3. PICK N, l : N = Len(found) /\ l = Len(es)
  OBVIOUS
<1>4. /\ es \in Seq(Entry)
      /\ \A i, j \in 1 .. l :
            i < j => es[i].timestamp < es[j].timestamp /\ es[i].file_offset < es[j].file_offset
      /\ \A i \in 1 .. l : Points(strategy, found, N, es, es[i])
      /\ found # <<>> => l > 0 /\ es[1] = [timestamp |-> 0, file_offset |-> found[1]]
  BY <1>1, <1>3, Zenon DEF IsIndex
<1>5. l \in Nat /\ DOMAIN es = 1 .. l /\ N \in Nat /\ DOMAIN found = 1 .. N
  BY <1>1, <1>3, <1>4
<1>6. \A i \in 1 .. l - 1 : /\ es[i].timestamp < es[i + 1].timestamp
                            /\ es[i].file_offset < es[i + 1].file_offset
  BY <1>4, <1>5
<1>7. ASSUME NEW i \in DOMAIN es
      PROVE  \/ found[es[i].timestamp + 1] = es[i].file_offset
             \/ /\ strategy = "Adaptive" /\ l > MemoryLimit
                /\ es[i].file_offset \in ToSet(found)
                /\ found[es[i].timestamp + 1] < es[i].file_offset
  <2>1. PICK k \in 1 .. N : /\ es[i].file_offset = found[k] /\ es[i].timestamp + 1 <= k
                            /\ k = es[i].timestamp + 1 \/ OverLimit(strategy, es)
    BY <1>4, <1>5 DEF Points
  <2>2. es[i].timestamp \in Nat
    BY <1>4, EntryParts
  <2>3. CASE k = es[i].timestamp + 1
    BY <2>1, <2>3
  <2>4. CASE k # es[i].timestamp + 1
    <3>1. PICK t : t = es[i].timestamp + 1
      OBVIOUS
    <3>2. t \in 1 .. N /\ t < k
      BY <1>5, <2>1, <2>2, <2>4, <3>1
    <3>3. found[t] < found[k]
      BY <1>1, <1>3, <3>2
    <3>4. found[k] \in ToSet(found)
      BY <1>5 DEF ToSet
    <3> QED
      BY <1>3, <2>1, <2>4, <3>1, <3>3, <3>4 DEF OverLimit
  <2> QED
    BY <2>3, <2>4
<1>8. /\ idx.entries = es /\ idx.optimization_strategy = strategy
      /\ found = Found(video.file, idx.optimization_strategy)
  BY <1>1, <1>2
<1> QED
  BY <1>3, <1>4, <1>6, <1>7, <1>8, Zenon DEF EntriesFaithful

(***************************************************************************)
(* The binary search.                                                      *)
(***************************************************************************)

Half(range) == (range[1] + range[2]) \div 2

Ranges(entries) == (0 .. Len(entries)) \X (0 .. Len(entries))

SearchBody(entries, time, f) ==
    [range \in Ranges(entries) |->
        IF range[1] >= range[2] THEN range[1]
        ELSE IF entries[Half(range) + 1].timestamp <= time THEN f[<<Half(range) + 1, range[2]>>]
        ELSE f[<<range[1], Half(range)>>]]

\* BinarySearch is where its loop ends.
LEMMA SearchFolds ==
    \A entries, time : BinarySearch(entries, time)
        = (CHOOSE f : f = SearchBody(entries, time, f))[<<0, Len(entries)>>]
  BY Zenon DEF BinarySearch, SearchBody, Ranges, Half

\* The middle of a range lies in it.
LEMMA HalfIs ==
    ASSUME NEW l \in Nat, NEW r \in Nat, l < r
    PROVE  Half(<<l, r>>) \in Nat /\ l <= Half(<<l, r>>) /\ Half(<<l, r>>) < r
BY DEF Half

\* n of the entries are at or before a time.
Before(entries, time, n) ==
    /\ n \in 0 .. Len(entries)
    /\ \A i \in 1 .. n : entries[i].timestamp <= time
    /\ \A i \in n + 1 .. Len(entries) : ~ (entries[i].timestamp <= time)

Clamp(n, l, r) == IF l >= r \/ n <= l THEN l ELSE IF n >= r THEN r ELSE n

\* The loop of the search has its values.
LEMMA SearchExists ==
    ASSUME NEW entries \in Seq(Entry), NEW time, NEW n, Before(entries, time, n)
    PROVE  \E f : f = SearchBody(entries, time, f)
<1>1. PICK N : N = Len(entries)
  OBVIOUS
<1>2. PICK f : f = [range \in Ranges(entries) |-> Clamp(n, range[1], range[2])]
  OBVIOUS
<1>3. N \in Nat /\ n \in 0 .. N
  BY <1>1 DEF Before
<1>4. \A l, r \in 0 .. N : <<l, r>> \in Ranges(entries) /\ f[<<l, r>>] = Clamp(n, l, r)
  BY <1>1, <1>2 DEF Ranges
<1>5. ASSUME NEW l \in 0 .. N, NEW r \in 0 .. N, ~ (l >= r)
      PROVE  Clamp(n, l, r) = IF entries[Half(<<l, r>>) + 1].timestamp <= time
                              THEN f[<<Half(<<l, r>>) + 1, r>>] ELSE f[<<l, Half(<<l, r>>)>>]
  <2>1. PICK mid : mid = Half(<<l, r>>)
    OBVIOUS
  <2>2. mid \in Nat /\ l <= mid /\ mid < r
    BY <1>3, <1>5, <2>1, HalfIs
  <2>3. mid \in 0 .. N /\ mid + 1 \in 0 .. N /\ mid + 1 \in 1 .. N
    BY <1>3, <2>2
  <2>4. f[<<mid + 1, r>>] = Clamp(n, mid + 1, r) /\ f[<<l, mid>>] = Clamp(n, l, mid)
    BY <1>4, <2>3
  <2>5. CASE mid + 1 <= n
    <3>1. entries[mid + 1].timestamp <= time
      BY <1>1, <2>3, <2>5 DEF Before
    <3>2. Clamp(n, l, r) = Clamp(n, mid + 1, r)
      BY <1>3, <2>2, <2>5 DEF Clamp
    <3> QED
      BY <2>1, <2>4, <3>1, <3>2
  <2>6. CASE ~ (mid + 1 <= n)
    <3>1. ~ (entries[mid + 1].timestamp <= time)
      <4>1. mid + 1 \in n + 1 .. N
        BY <1>3, <2>3, <2>6
      <4> QED
        BY <1>1, <4>1 DEF Before
    <3>2. Clamp(n, l, r) = Clamp(n, l, mid)
      BY <1>3, <2>2, <2>6 DEF Clamp
    <3> QED
      BY <2>1, <2>4, <3>1, <3>2
  <2> QED
    BY <2>5, <2>6
<1>6. ASSUME NEW range \in Ranges(entries)
      PROVE  f[range] = IF range[1] >= range[2] THEN range[1]
                        ELSE IF entries[Half(range) + 1].timestamp <= time
                        THEN f[<<Half(range) + 1, range[2]>>]
                        ELSE f[<<range[1], Half(range)>>]
  <2>1. PICK l, r : l = range[1] /\ r = range[2]
    OBVIOUS
  <2>2. l \in 0 .. N /\ r \in 0 .. N /\ range = <<l, r>>
    BY <1>1, <2>1 DEF Ranges
  <2>3. f[range] = Clamp(n, l, r)
    BY <1>4, <2>2
  <2>4. CASE l >= r
    BY <2>1, <2>3, <2>4 DEF Clamp
  <2>5. CASE ~ (l >= r)
    BY <1>5, <2>1, <2>2, <2>3, <2>5
  <2> QED
    BY <2>4, <2>5
<1>7. f = [range \in Ranges(entries) |-> f[range]]
  BY <1>2
<1>8. f = SearchBody(entries, time, f)
  BY <1>6, <1>7 DEF SearchBody
<1> QED
  BY <1>8

\* The search ends at the number of entries at or before the time.
LEMMA SearchEnds ==
    ASSUME NEW entries \in Seq(Entry), NEW time, NEW n, Before(entries, time, n),
           NEW h, h = SearchBody(entries, time, h)
    PROVE  h[<<0, Len(entries)>>] = n
<1>1. PICK N : N = Len(entries)
  OBVIOUS
<1> DEFINE P == {d \in Nat : \A l, r \in 0 .. N : l <= n /\ n <= r /\ r - l <= d => h[<<l, r>>] = n}
<1>2. N \in Nat /\ n \in 0 .. N
  BY <1>1 DEF Before
<1>3. \A l, r \in 0 .. N :
          h[<<l, r>>] = IF l >= r THEN l
                        ELSE IF entries[Half(<<l, r>>) + 1].timestamp <= time
                        THEN h[<<Half(<<l, r>>) + 1, r>>] ELSE h[<<l, Half(<<l, r>>)>>]
  <2>1. \A range \in Ranges(entries) :
            h[range] = IF range[1] >= range[2] THEN range[1]
                       ELSE IF entries[Half(range) + 1].timestamp <= time
                       THEN h[<<Half(range) + 1, range[2]>>]
                       ELSE h[<<range[1], Half(range)>>]
    BY Zenon DEF SearchBody
  <2>2. \A l, r \in 0 .. N : <<l, r>> \in Ranges(entries) /\ <<l, r>>[1] = l /\ <<l, r>>[2] = r
    BY <1>1 DEF Ranges
  <2> QED
    BY <2>1, <2>2
<1>4. 0 \in P
  <2>1. ASSUME NEW l \in 0 .. N, NEW r \in 0 .. N, l <= n, n <= r, r - l <= 0
        PROVE  h[<<l, r>>] = n
    <3>1. l >= r /\ l = n
      BY <1>2, <2>1
    <3> QED
      BY <1>3, <3>1
  <2> QED
    BY <2>1
<1>5. ASSUME NEW d \in P PROVE d + 1 \in P
  <2>1. d \in Nat /\ \A l, r \in 0 .. N : l <= n /\ n <= r /\ r - l <= d => h[<<l, r>>] = n
    BY <1>5
  <2>2. ASSUME NEW l \in 0 .. N, NEW r \in 0 .. N, l <= n, n <= r, r - l <= d + 1
        PROVE  h[<<l, r>>] = n
    <3>1. CASE l >= r
      BY <1>2, <1>3, <2>2, <3>1
    <3>2. CASE ~ (l >= r)
      <4>1. PICK mid : mid = Half(<<l, r>>)
        OBVIOUS
      <4>2. mid \in Nat /\ l <= mid /\ mid < r
        BY <1>2, <3>2, <4>1, HalfIs
      <4>3. mid \in 0 .. N /\ mid + 1 \in 0 .. N /\ mid + 1 \in 1 .. N
        BY <1>2, <4>2
      <4>4. h[<<l, r>>] = IF entries[mid + 1].timestamp <= time
                          THEN h[<<mid + 1, r>>] ELSE h[<<l, mid>>]
        BY <1>3, <3>2, <4>1
      <4>5. CASE mid + 1 <= n
        <5>1. entries[mid + 1].timestamp <= time
          BY <1>1, <4>3, <4>5 DEF Before
        <5>2. r - (mid + 1) <= d
          BY <1>2, <2>1, <2>2, <4>2
        <5> QED
          BY <2>1, <2>2, <4>3, <4>4, <4>5, <5>1, <5>2
      <4>6. CASE ~ (mid + 1 <= n)
        <5>1. ~ (entries[mid + 1].timestamp <= time)
          <6>1. mid + 1 \in n + 1 .. N
            BY <1>2, <4>3, <4>6
          <6> QED
            BY <1>1, <6>1 DEF Before
        <5>2. mid - l <= d /\ n <= mid
          BY <1>2, <2>1, <2>2, <4>2, <4>6
        <5> QED
          BY <2>1, <2>2, <4>3, <4>4, <5>1, <5>2
      <4> QED
        BY <4>5, <4>6
    <3> QED
      BY <3>1, <3>2
  <2> QED
    BY <2>1, <2>2
<1>6. \A d \in Nat : d \in P
  <2>1. P \in SUBSET Nat
    OBVIOUS
  <2> HIDE DEF P
  <2> QED
    BY <1>4, <1>5, <2>1, Induction
<1>7. 0 \in 0 .. N /\ N \in 0 .. N /\ 0 <= n /\ n <= N /\ N - 0 <= N
  BY <1>2
<1> QED
  BY <1>1, <1>2, <1>6, <1>7

\* The entries of an index are in ascending order of time: those at or before a time
\* come first, and the search counts them.
Increasing(entries) ==
    \A i, j \in 1 .. Len(entries) : i < j => entries[i].timestamp < entries[j].timestamp

\* The entries at or before a time come first.
LEMMA BeforeExists ==
    ASSUME NEW entries \in Seq(Entry), Increasing(entries), NEW time \in Int
    PROVE  \E n : Before(entries, time, n)
<1>1. PICK N : N = Len(entries)
  OBVIOUS
<1>2. N \in Nat /\ \A i \in 1 .. N : entries[i].timestamp \in Nat
  BY <1>1, EntryParts
<1>3. PICK T : T = {k \in Nat : k < N => ~ (entries[k + 1].timestamp <= time)}
  OBVIOUS
<1>4. T \in SUBSET Nat /\ T # {} /\ N \in T
  <2>1. N \in Nat /\ ~ (N < N)
    BY <1>2
  <2> HIDE <1>2
  <2> QED
    BY <1>3, <2>1
<1>5. PICK m \in T : \A k \in Nat : k < m => k \notin T
  BY <1>4, Least
<1>6. m \in 0 .. N
  BY <1>2, <1>4, <1>5
<1>7. ASSUME NEW i \in 1 .. m PROVE entries[i].timestamp <= time
  <2>1. i - 1 \in Nat /\ i - 1 < m /\ (i - 1) + 1 = i
    BY <1>6
  <2>2. i - 1 \notin T
    BY <1>5, <2>1
  <2> QED
    BY <1>3, <2>1, <2>2
<1>8. ASSUME NEW i \in m + 1 .. N PROVE ~ (entries[i].timestamp <= time)
  <2>1. m < N /\ m \in Nat /\ m + 1 \in 1 .. N /\ i \in 1 .. N
    BY <1>2, <1>6
  <2>2. ~ (entries[m + 1].timestamp <= time)
    BY <1>3, <2>1
  <2>3. CASE i = m + 1
    BY <2>2, <2>3
  <2>4. CASE i # m + 1
    <3>1. entries[m + 1].timestamp < entries[i].timestamp
      BY <1>1, <2>1, <2>4 DEF Increasing
    <3>2. entries[m + 1].timestamp \in Int /\ entries[i].timestamp \in Int
      BY <1>2, <2>1
    <3> QED
      BY <2>2, <3>1, <3>2
  <2> QED
    BY <2>3, <2>4
<1>9. Before(entries, time, m)
  BY <1>1, <1>6, <1>7, <1>8 DEF Before
<1> QED
  BY <1>9

\* BinarySearch counts the entries at or before the time.
LEMMA BinarySearchIs ==
    ASSUME NEW entries \in Seq(Entry), Increasing(entries), NEW time \in Int
    PROVE  \E n : n = BinarySearch(entries, time) /\ Before(entries, time, n)
<1>1. PICK n : Before(entries, time, n)
  BY BeforeExists
<1>2. PICK f : f = SearchBody(entries, time, f)
  BY <1>1, SearchExists
<1>3. PICK h : h = (CHOOSE g : g = SearchBody(entries, time, g))
  OBVIOUS
<1>4. h = SearchBody(entries, time, h)
  BY <1>2, <1>3, Zenon
<1>5. h[<<0, Len(entries)>>] = n
  BY <1>1, <1>4, SearchEnds
<1>6. BinarySearch(entries, time) = n
  BY <1>3, <1>5, SearchFolds
<1> QED
  BY <1>1, <1>6

\* The greater of two.
LEMMA MaxOfTwo ==
    ASSUME NEW a \in Int, NEW b \in Int
    PROVE  Max({a, b}) = IF a >= b THEN a ELSE b
<1>1. PICK m : m = Max({a, b})
  OBVIOUS
<1>2. \E x \in {a, b} : \A y \in {a, b} : x >= y
  <2>1. CASE a >= b
    BY <2>1
  <2>2. CASE ~ (a >= b)
    BY <2>2
  <2> QED
    BY <2>1, <2>2
<1>3. m \in {a, b} /\ \A y \in {a, b} : m >= y
  BY <1>1, <1>2 DEF Max
<1> QED
  BY <1>1, <1>3

\* An element that none exceeds is Max.
LEMMA MaxIsThat ==
    ASSUME NEW S \in SUBSET Nat, NEW m \in S, \A x \in S : x <= m
    PROVE  Max(S) = m
<1>1. PICK l : l = Max(S)
  OBVIOUS
<1>2. \E x \in S : \A y \in S : x >= y
  <2>1. \A y \in S : m >= y
    OBVIOUS
  <2> QED
    BY <2>1
<1>3. l \in S /\ \A y \in S : l >= y
  BY <1>1, <1>2 DEF Max
<1>4. l >= m /\ l <= m /\ l \in Nat /\ m \in Nat
  BY <1>3
<1> QED
  BY <1>1, <1>4

\* The least of one.
LEMMA MinOfOne == \A a \in Int : Min({a}) = a
<1>1. ASSUME NEW a \in Int PROVE Min({a}) = a
  <2>1. \E x \in {a} : \A y \in {a} : x <= y
    OBVIOUS
  <2> QED
    BY <2>1 DEF Min
<1> QED
  BY <1>1

\* What a quotient is.
LEMMA Quotient ==
    ASSUME NEW a \in Nat, NEW c \in Nat, c > 0
    PROVE  (a \div c) \in Nat /\ (a \div c) * c <= a /\ a < ((a \div c) + 1) * c
  OBVIOUS

\* Multiples grow by the factor at least.
LEMMA TimesGrows ==
    ASSUME NEW a \in Nat, NEW b \in Nat, a < b, NEW c \in Nat
    PROVE  (a + 1) * c <= b * c /\ a * c \in Nat /\ b * c \in Nat /\ (a + 1) * c \in Nat
  OBVIOUS

(***************************************************************************)
(* What every search finds.                                                *)
(***************************************************************************)

GoodEntries(entries) ==
    /\ entries \in Seq(Entry) /\ Increasing(entries)
    /\ Len(entries) > 0 /\ entries[1].timestamp = 0

\* The first entry is at 0, so one is at or before every time.
LEMMA SomeBefore ==
    ASSUME NEW entries, GoodEntries(entries), NEW time \in Nat
    PROVE  \E n : /\ n = BinarySearch(entries, time) /\ Before(entries, time, n)
                  /\ n \in 1 .. Len(entries) /\ Max({n, 1}) = n
<1>1. entries \in Seq(Entry) /\ Increasing(entries) /\ Len(entries) > 0 /\ entries[1].timestamp = 0
  BY DEF GoodEntries
<1>2. PICK n : n = BinarySearch(entries, time) /\ Before(entries, time, n)
  BY <1>1, BinarySearchIs
<1>3. n \in 0 .. Len(entries) /\ \A i \in n + 1 .. Len(entries) : ~ (entries[i].timestamp <= time)
  BY <1>2 DEF Before
<1>4. n # 0
  <2>1. ASSUME n = 0 PROVE FALSE
    <3>1. 1 \in n + 1 .. Len(entries)
      BY <1>1, <2>1
    <3> QED
      BY <1>1, <1>3, <3>1
  <2> QED
    BY <2>1
<1>5. n \in 1 .. Len(entries) /\ n \in Nat
  BY <1>1, <1>3, <1>4
<1>6. Max({n, 1}) = n
  BY <1>5, MaxOfTwo
<1> QED
  BY <1>2, <1>5, <1>6

\* The entry the search counts up to is the nearest.
LEMMA NearestIs ==
    ASSUME NEW entries, GoodEntries(entries), NEW time \in Nat,
           NEW n \in 1 .. Len(entries), Before(entries, time, n)
    PROVE  IsNearest(entries[n], entries, time)
<1>1. PICK N : N = Len(entries)
  OBVIOUS
<1>2. entries \in Seq(Entry) /\ Increasing(entries)
  BY DEF GoodEntries
<1>3. N \in Nat /\ DOMAIN entries = 1 .. N
  BY <1>1, <1>2
<1>4. entries[n] \in ToSet(entries)
  BY <1>1, <1>3 DEF ToSet
<1>5. \A i \in 1 .. n : entries[i].timestamp <= time
  BY DEF Before
<1>6. entries[n].timestamp <= time
  BY <1>1, <1>3, <1>5
<1>7. ASSUME NEW i \in DOMAIN entries, entries[i].timestamp <= time
      PROVE  entries[i].timestamp <= entries[n].timestamp
  <2>1. i <= n
    <3>1. ASSUME ~ (i <= n) PROVE FALSE
      <4>1. i \in n + 1 .. N
        BY <1>1, <1>3, <3>1
      <4> QED
        BY <1>1, <1>7, <4>1 DEF Before
    <3> QED
      BY <3>1
  <2>2. entries[i].timestamp \in Nat /\ entries[n].timestamp \in Nat
    BY <1>1, <1>2, <1>3, EntryParts
  <2>3. CASE i = n
    BY <2>2, <2>3
  <2>4. CASE i # n
    <3>1. i < n /\ i \in 1 .. N /\ n \in 1 .. N
      BY <1>1, <1>3, <2>1, <2>4
    <3>2. entries[i].timestamp < entries[n].timestamp
      BY <1>1, <1>2, <3>1 DEF Increasing
    <3> QED
      BY <2>2, <3>2
  <2> QED
    BY <2>3, <2>4
<1> QED
  BY <1>4, <1>6, <1>7 DEF IsNearest

\* The controller's search finds it: its shortcuts at both ends agree.
LEMMA ControllersIs ==
    ASSUME NEW idx, GoodEntries(idx.entries), NEW time \in Nat,
           idx.total_duration \in Nat, Last(idx.entries).timestamp < idx.total_duration,
           NEW n \in 1 .. Len(idx.entries), Before(idx.entries, time, n),
           n = BinarySearch(idx.entries, time), Max({n, 1}) = n
    PROVE  FindNearestKeyframe(idx, time) = idx.entries[n]
<1>1. PICK es, N : es = idx.entries /\ N = Len(es)
  OBVIOUS
<1>2. /\ es \in Seq(Entry) /\ Increasing(es) /\ N \in Nat /\ N > 0 /\ es[1].timestamp = 0
      /\ n \in 1 .. N /\ \A i \in 1 .. N : es[i].timestamp \in Nat
  BY <1>1, EntryParts DEF GoodEntries
<1>3. /\ \A i \in 1 .. n : es[i].timestamp <= time
      /\ \A i \in n + 1 .. N : ~ (es[i].timestamp <= time)
  BY <1>1 DEF Before
<1>4. CASE time <= 0
  <2>1. n = 1
    <3>1. ASSUME n # 1 PROVE FALSE
      <4>1. 1 \in 1 .. N /\ n \in 1 .. N /\ 1 < n /\ n \in 1 .. n
        BY <1>2, <3>1
      <4>2. es[1].timestamp < es[n].timestamp
        BY <1>1, <1>2, <4>1 DEF Increasing
      <4> QED
        BY <1>2, <1>3, <1>4, <4>1, <4>2
    <3> QED
      BY <3>1
  <2>2. FindNearestKeyframe(idx, time) = Head(es)
    BY <1>1, <1>4 DEF FindNearestKeyframe
  <2>3. Head(es) = es[1]
    BY <1>1, <1>2
  <2> QED
    BY <1>1, <2>1, <2>2, <2>3
<1>5. CASE time > 0 /\ time >= idx.total_duration
  <2>1. Last(es) = es[N]
    BY <1>1 DEF Last
  <2>2. n = N
    <3>1. ASSUME n # N PROVE FALSE
      <4>1. N \in n + 1 .. N /\ N \in 1 .. N
        BY <1>2, <3>1
      <4>2. es[N].timestamp <= time
        BY <1>1, <1>2, <1>5, <2>1, <4>1
      <4> QED
        BY <1>3, <4>1, <4>2
    <3> QED
      BY <3>1
  <2>3. FindNearestKeyframe(idx, time) = Last(es)
    BY <1>1, <1>5 DEF FindNearestKeyframe
  <2> QED
    BY <1>1, <2>1, <2>2, <2>3
<1>6. CASE time > 0 /\ ~ (time >= idx.total_duration)
  <2>1. FindNearestKeyframe(idx, time) = idx.entries[Max({BinarySearch(idx.entries, time), 1})]
    BY <1>6 DEF FindNearestKeyframe
  <2> QED
    BY <2>1
<1> QED
  BY <1>4, <1>5, <1>6

\* So does the search for the smallest distance.
LEMMA SparseIs ==
    ASSUME NEW entries, GoodEntries(entries), NEW time \in Nat,
           NEW n \in 1 .. Len(entries), Before(entries, time, n)
    PROVE  FindNearestSparseKeyframe(entries, time) = entries[n]
<1>1. PICK N : N = Len(entries)
  OBVIOUS
<1>2. /\ entries \in Seq(Entry) /\ Increasing(entries) /\ N \in Nat /\ n \in 1 .. N
      /\ DOMAIN entries = 1 .. N /\ \A i \in 1 .. N : entries[i].timestamp \in Nat
  BY <1>1, EntryParts DEF GoodEntries
<1>3. /\ \A i \in 1 .. n : entries[i].timestamp <= time
      /\ \A i \in n + 1 .. N : ~ (entries[i].timestamp <= time)
  BY <1>1 DEF Before
<1>4. PICK before : before = {i \in DOMAIN entries : entries[i].timestamp <= time}
  OBVIOUS
<1>5. PICK nearest : nearest = {i \in before : \A j \in before :
                         time - entries[i].timestamp <= time - entries[j].timestamp}
  OBVIOUS
<1>6. before = 1 .. n
  <2>1. \A i \in 1 .. N : i \in 1 .. n \/ i \in n + 1 .. N
    BY <1>2
  <2>2. \A i \in 1 .. n : i \in 1 .. N
    BY <1>2
  <2> QED
    BY <1>2, <1>3, <1>4, <2>1, <2>2
<1>7. \A i \in 1 .. n : i # n => entries[i].timestamp < entries[n].timestamp
  <2>1. ASSUME NEW i \in 1 .. n, i # n PROVE entries[i].timestamp < entries[n].timestamp
    <3>1. i < n /\ i \in 1 .. N
      BY <1>2, <2>1
    <3> QED
      BY <1>1, <1>2, <3>1 DEF Increasing
  <2> QED
    BY <2>1
<1>8. n \in 1 .. n /\ \A i \in 1 .. n : entries[i].timestamp \in Nat
  BY <1>2
<1>9. nearest = {n}
  <2>1. \A i \in 1 .. n : time - entries[n].timestamp <= time - entries[i].timestamp
    <3>1. ASSUME NEW i \in 1 .. n
          PROVE  time - entries[n].timestamp <= time - entries[i].timestamp
      <4>1. entries[i].timestamp <= entries[n].timestamp
        BY <1>7, <1>8
      <4> QED
        BY <1>8, <4>1
    <3> QED
      BY <3>1
  <2>2. ASSUME NEW i \in 1 .. n, time - entries[i].timestamp <= time - entries[n].timestamp
        PROVE  i = n
    BY <1>7, <1>8, <2>2
  <2> QED
    BY <1>5, <1>6, <1>8, <2>1, <2>2
<1>10. before # {} /\ Min(nearest) = n
  <2>1. n \in Int
    BY <1>2
  <2>2. Min({n}) = n
    BY <2>1, MinOfOne
  <2> QED
    BY <1>6, <1>8, <1>9, <2>2
<1> QED
  BY <1>4, <1>5, <1>10, Zenon DEF FindNearestSparseKeyframe

\* The chunks of a hierarchical search: of size c, over N entries.
FirstOf(c, k) == k * c + 1
LastOf(c, N, k) == Min({(k + 1) * c, N})

\* The smaller of two is one of them.
LEMMA MinIsOne ==
    ASSUME NEW a \in Nat, NEW b \in Nat
    PROVE  Min({a, b}) = a \/ Min({a, b}) = b
<1>1. PICK m : m = Min({a, b})
  OBVIOUS
<1>2. \E x \in {a, b} : \A y \in {a, b} : x <= y
  <2>1. CASE a <= b
    BY <2>1
  <2>2. CASE ~ (a <= b)
    BY <2>2
  <2> QED
    BY <2>1, <2>2
<1>3. m \in {a, b}
  BY <1>1, <1>2 DEF Min
<1> QED
  BY <1>1, <1>3

\* An entry lies in one chunk; those after it begin later, those before it end
\* earlier.
LEMMA ChunkOf ==
    ASSUME NEW c \in Nat, c > 0, NEW N \in Nat, NEW n \in 1 .. N
    PROVE  \E m : /\ m \in 0 .. (N - 1) \div c
                  /\ FirstOf(c, m) \in 1 .. n /\ LastOf(c, N, m) \in n .. N
                  /\ \A k \in 0 .. (N - 1) \div c :
                        /\ FirstOf(c, k) \in 1 .. N /\ LastOf(c, N, k) \in FirstOf(c, k) .. N
                        /\ k > m => FirstOf(c, k) > n
                        /\ k < m => LastOf(c, N, k) < n
<1>0. N - 1 \in Nat /\ n - 1 \in Nat
  OBVIOUS
<1>1. PICK M : M = (N - 1) \div c
  OBVIOUS
<1>2. M \in Nat /\ M * c <= N - 1 /\ N - 1 < (M + 1) * c
  BY <1>0, <1>1, Quotient
<1>3. PICK m : m = (n - 1) \div c
  OBVIOUS
<1>4. m \in Nat /\ m * c <= n - 1 /\ n - 1 < (m + 1) * c
  BY <1>0, <1>3, Quotient
<1>5. \A k \in Nat : k * c \in Nat /\ (k + 1) * c \in Nat /\ k * c < (k + 1) * c
  <2>1. ASSUME NEW k \in Nat PROVE k * c \in Nat /\ (k + 1) * c \in Nat /\ (k + 1) * c = k * c + c
    OBVIOUS
  <2> QED
    BY <2>1
<1>6. m <= M
  <2>1. ASSUME M < m PROVE FALSE
    <3>1. (M + 1) * c <= m * c
      BY <1>2, <1>4, <2>1, TimesGrows
    <3>2. m * c \in Nat /\ (M + 1) * c \in Nat
      BY <1>2, <1>4, <1>5
    <3> QED
      BY <1>2, <1>4, <3>1, <3>2
  <2> QED
    BY <1>2, <1>4, <2>1
<1>7. ASSUME NEW k \in 0 .. M
      PROVE  /\ k * c <= N - 1
             /\ k > m => k * c >= n
             /\ k < m => (k + 1) * c < n
  <2>1. k \in Nat /\ k * c \in Nat
    BY <1>2, <1>5
  <2>2. k * c <= N - 1
    <3>1. CASE k = M
      BY <1>2, <3>1
    <3>2. CASE k # M
      <4>1. (k + 1) * c <= M * c /\ (k + 1) * c \in Nat /\ M * c \in Nat
        BY <1>2, <2>1, <3>2, TimesGrows
      <4>2. k * c < (k + 1) * c
        BY <1>5, <2>1
      <4> QED
        BY <1>2, <2>1, <4>1, <4>2
    <3> QED
      BY <3>1, <3>2
  <2>3. k > m => k * c >= n
    <3>1. ASSUME k > m PROVE k * c >= n
      <4>1. (m + 1) * c <= k * c /\ (m + 1) * c \in Nat
        BY <1>4, <2>1, <3>1, TimesGrows
      <4> QED
        BY <1>4, <2>1, <4>1
    <3> QED
      BY <3>1
  <2>4. k < m => (k + 1) * c < n
    <3>1. ASSUME k < m PROVE (k + 1) * c < n
      <4>1. (k + 1) * c <= m * c /\ (k + 1) * c \in Nat /\ m * c \in Nat
        BY <1>4, <2>1, <3>1, TimesGrows
      <4> QED
        BY <1>4, <4>1
    <3> QED
      BY <3>1
  <2> QED
    BY <2>2, <2>3, <2>4
<1>8. ASSUME NEW k \in 0 .. M
      PROVE  /\ FirstOf(c, k) = k * c + 1 /\ LastOf(c, N, k) \in Nat
             /\ LastOf(c, N, k) <= N /\ LastOf(c, N, k) <= (k + 1) * c
             /\ LastOf(c, N, k) = N \/ LastOf(c, N, k) = (k + 1) * c
  <2>1. k \in Nat
    BY <1>2
  <2>2. PICK a \in Nat : a = (k + 1) * c
    BY <1>5, <2>1
  <2>3. PICK b : b = Min({a, N})
    OBVIOUS
  <2>4. b \in Int /\ b <= a /\ b <= N
    BY <2>2, <2>3, MinOfTwo
  <2>5. b = a \/ b = N
    BY <2>2, <2>3, MinIsOne
  <2>6. b = LastOf(c, N, k)
    BY <2>2, <2>3 DEF LastOf
  <2> QED
    BY <2>2, <2>4, <2>5, <2>6 DEF FirstOf
<1>9. ASSUME NEW k \in 0 .. M
      PROVE  /\ FirstOf(c, k) \in 1 .. N /\ LastOf(c, N, k) \in FirstOf(c, k) .. N
             /\ k > m => FirstOf(c, k) > n
             /\ k < m => LastOf(c, N, k) < n
  <2>1. PICK a, b : a = k * c /\ b = (k + 1) * c
    OBVIOUS
  <2>2. a \in Nat /\ b \in Nat /\ a < b
    BY <1>2, <1>5, <2>1
  <2>3. a <= N - 1 /\ (k > m => a >= n) /\ (k < m => b < n)
    BY <1>7, <2>1
  <2>4. PICK f, l : f = FirstOf(c, k) /\ l = LastOf(c, N, k)
    OBVIOUS
  <2>5. f = a + 1 /\ l \in Nat /\ l <= N /\ l <= b /\ (l = N \/ l = b)
    BY <1>8, <2>1, <2>4
  <2>6. f \in 1 .. N /\ l \in f .. N
    BY <2>2, <2>3, <2>5
  <2> QED
    BY <1>4, <2>2, <2>3, <2>4, <2>5, <2>6
<1>10. FirstOf(c, m) \in 1 .. n /\ LastOf(c, N, m) \in n .. N
  <2>1. m \in 0 .. M
    BY <1>2, <1>4, <1>6
  <2>2. PICK a, b : a = m * c /\ b = (m + 1) * c
    OBVIOUS
  <2>3. PICK l : l = LastOf(c, N, m)
    OBVIOUS
  <2>4. FirstOf(c, m) = a + 1 /\ l \in Nat /\ l <= N /\ (l = N \/ l = b)
    BY <1>8, <2>1, <2>2, <2>3
  <2>5. a \in Nat /\ b \in Nat /\ a <= n - 1 /\ n - 1 < b
    BY <1>4, <1>5, <2>2
  <2> QED
    BY <2>3, <2>4, <2>5
<1>11. m \in 0 .. M
  BY <1>2, <1>4, <1>6
<1> QED
  BY <1>1, <1>9, <1>10, <1>11

Holding(es, c, time) ==
    {k \in 0 .. (Len(es) - 1) \div c : /\ es[FirstOf(c, k)].timestamp <= time
                                       /\ time <= es[LastOf(c, Len(es), k)].timestamp}

Preceding(es, c, time) ==
    {k \in 0 .. (Len(es) - 1) \div c : es[LastOf(c, Len(es), k)].timestamp <= time}

Candidates(es, c, time) ==
    IF Holding(es, c, time) # {} THEN Holding(es, c, time) ELSE Preceding(es, c, time)

PlacesIn(es, c, chunk, time) ==
    {i \in FirstOf(c, chunk) .. LastOf(c, Len(es), chunk) : es[i].timestamp <= time}

HierarchicalIn(es, c, time) ==
    IF Candidates(es, c, time) = {} THEN Head(es)
    ELSE IF PlacesIn(es, c, Max(Candidates(es, c, time)), time) = {} THEN Head(es)
    ELSE es[Max(PlacesIn(es, c, Max(Candidates(es, c, time)), time))]

\* FindHierarchicalKeyframe by the names of its parts.
LEMMA Hierarchical ==
    \A entries, time : FindHierarchicalKeyframe(entries, time)
                         = HierarchicalIn(entries, Max({Len(entries) \div 10, 1}), time)
  BY SMT DEF FindHierarchicalKeyframe, HierarchicalIn, FirstOf, LastOf, Holding, Preceding,
             Candidates, PlacesIn

\* The search by chunks finds the same entry.
LEMMA HierarchicalIs ==
    ASSUME NEW entries, GoodEntries(entries), NEW time \in Nat,
           NEW n \in 1 .. Len(entries), Before(entries, time, n)
    PROVE  FindHierarchicalKeyframe(entries, time) = entries[n]
<1>1. PICK N : N = Len(entries)
  OBVIOUS
<1>2. PICK c : c = Max({N \div 10, 1})
  OBVIOUS
<1>3. /\ Increasing(entries) /\ N \in Nat /\ n \in 1 .. N
      /\ \A i \in 1 .. N : entries[i].timestamp \in Nat
  BY <1>1, EntryParts DEF GoodEntries
<1>4. /\ \A i \in 1 .. n : entries[i].timestamp <= time
      /\ \A i \in n + 1 .. N : ~ (entries[i].timestamp <= time)
  BY <1>1 DEF Before
<1>5. c \in Nat /\ c > 0
  <2>1. PICK d : d = N \div 10
    OBVIOUS
  <2>2. d \in Nat
    BY <1>3, <2>1
  <2>3. c = IF d >= 1 THEN d ELSE 1
    BY <1>2, <2>1, <2>2, MaxOfTwo
  <2> QED
    BY <2>2, <2>3
<1>6. PICK chunks : chunks = 0 .. (N - 1) \div c
  OBVIOUS
<1>7. PICK m : /\ m \in chunks
               /\ FirstOf(c, m) \in 1 .. n /\ LastOf(c, N, m) \in n .. N
               /\ \A k \in chunks :
                     /\ FirstOf(c, k) \in 1 .. N /\ LastOf(c, N, k) \in FirstOf(c, k) .. N
                     /\ k > m => FirstOf(c, k) > n
                     /\ k < m => LastOf(c, N, k) < n
  BY <1>3, <1>5, <1>6, ChunkOf
<1>8. PICK holding : holding = {k \in chunks : /\ entries[FirstOf(c, k)].timestamp <= time
                                               /\ time <= entries[LastOf(c, N, k)].timestamp}
  OBVIOUS
<1>9. PICK before : before = {k \in chunks : entries[LastOf(c, N, k)].timestamp <= time}
  OBVIOUS
<1>10. PICK candidates : candidates = IF holding # {} THEN holding ELSE before
  OBVIOUS
<1>11. chunks \in SUBSET Nat
  BY <1>3, <1>5, <1>6, DivIsNat
\* A later chunk begins after the entry.
<1>12. \A k \in chunks : k > m => k \notin holding /\ k \notin before
  <2>1. ASSUME NEW k \in chunks, k > m PROVE k \notin holding /\ k \notin before
    <3>1. PICK f, l : f = FirstOf(c, k) /\ l = LastOf(c, N, k)
      OBVIOUS
    <3>2. f \in n + 1 .. N /\ l \in n + 1 .. N
      BY <1>3, <1>7, <2>1, <3>1
    <3>3. ~ (entries[f].timestamp <= time) /\ ~ (entries[l].timestamp <= time)
      BY <1>4, <3>2
    <3> QED
      BY <1>8, <1>9, <3>1, <3>3
  <2> QED
    BY <2>1
\* The chunk of the entry holds the time, or no chunk does and it is the last one before it.
<1>13. m \in candidates
  <2>1. PICK f, l : f = FirstOf(c, m) /\ l = LastOf(c, N, m)
    OBVIOUS
  <2>2. f \in 1 .. n /\ l \in n .. N /\ l \in 1 .. N
    BY <1>3, <1>7, <2>1
  <2>3. entries[f].timestamp <= time /\ entries[l].timestamp \in Nat
    BY <1>3, <1>4, <2>2
  <2>4. CASE time <= entries[l].timestamp
    <3>1. m \in holding
      BY <1>7, <1>8, <2>1, <2>3, <2>4
    <3> QED
      BY <1>10, <3>1
  <2>5. CASE ~ (time <= entries[l].timestamp)
    <3>1. entries[l].timestamp < time
      BY <2>3, <2>5
    <3>2. m \in before
      BY <1>7, <1>9, <2>1, <2>3, <3>1
    <3>3. l = n
      <4>1. l \notin n + 1 .. N
        BY <1>4, <2>3, <3>1
      <4> QED
        BY <1>3, <2>2, <4>1
    <3>4. ASSUME NEW k \in holding PROVE FALSE
      <4>1. k \in chunks /\ k \in Nat /\ m \in Nat /\ time <= entries[LastOf(c, N, k)].timestamp
        BY <1>7, <1>8, <1>11, <3>4
      <4>2. ~ (k > m)
        BY <1>12, <3>4, <4>1
      <4>3. CASE k = m
        BY <2>1, <2>5, <4>1, <4>3
      <4>4. CASE k < m
        <5>1. PICK j : j = LastOf(c, N, k)
          OBVIOUS
        <5>2. j \in 1 .. N /\ j < n
          BY <1>3, <1>7, <4>1, <4>4, <5>1
        <5>3. entries[j].timestamp < entries[n].timestamp /\ entries[j].timestamp \in Nat
          BY <1>1, <1>3, <5>2 DEF Increasing
        <5> QED
          BY <1>3, <2>3, <3>1, <3>3, <4>1, <5>1, <5>3
      <4> QED
        BY <4>1, <4>2, <4>3, <4>4
    <3>5. holding = {}
      BY <3>4
    <3> QED
      BY <1>10, <3>2, <3>5
  <2> QED
    BY <2>4, <2>5
<1>14. Max(candidates) = m
  <2>1. candidates \subseteq chunks
    BY <1>8, <1>9, <1>10
  <2>2. \A k \in candidates : k <= m
    <3>1. ASSUME NEW k \in candidates PROVE k <= m
      <4>1. k \in chunks /\ ~ (k > m)
        BY <1>10, <1>12, <2>1
      <4>2. k \in Nat /\ m \in Nat
        BY <1>7, <1>11, <4>1
      <4> QED
        BY <4>1, <4>2
    <3> QED
      BY <3>1
  <2>3. candidates \in SUBSET Nat
    BY <1>11, <2>1
  <2> QED
    BY <1>13, <2>2, <2>3, MaxIsThat
<1>15. PICK places :
           places = {i \in FirstOf(c, m) .. LastOf(c, N, m) : entries[i].timestamp <= time}
  OBVIOUS
<1>16. n \in places /\ \A i \in places : i \in Nat /\ i <= n
  <2>1. PICK f, l : f = FirstOf(c, m) /\ l = LastOf(c, N, m)
    OBVIOUS
  <2>2. f \in 1 .. n /\ l \in n .. N
    BY <1>7, <2>1
  <2>3. n \in f .. l /\ n \in 1 .. n
    BY <1>3, <2>2
  <2>4. n \in places
    BY <1>4, <1>15, <2>1, <2>3
  <2>5. ASSUME NEW i \in places PROVE i \in Nat /\ i <= n
    <3>1. i \in f .. l /\ entries[i].timestamp <= time
      BY <1>15, <2>1
    <3>2. i \in Nat /\ i <= N
      BY <1>3, <2>2, <3>1
    <3>3. i \notin n + 1 .. N
      BY <1>4, <3>1
    <3> QED
      BY <1>3, <3>2, <3>3
  <2> QED
    BY <2>4, <2>5
<1>17. Max(places) = n
  <2>1. places \in SUBSET Nat /\ n \in places /\ \A i \in places : i <= n
    BY <1>16
  <2> QED
    BY <2>1, MaxIsThat
<1>18. candidates # {} /\ places # {}
  BY <1>13, <1>16
<1>19. HierarchicalIn(entries, c, time) = entries[n]
  <2>1. holding = Holding(entries, c, time)
    BY <1>1, <1>6, <1>8, Zenon DEF Holding
  <2>2. before = Preceding(entries, c, time)
    BY <1>1, <1>6, <1>9, Zenon DEF Preceding
  <2>3. candidates = Candidates(entries, c, time)
    BY <1>10, <2>1, <2>2, Zenon DEF Candidates
  <2>4. places = PlacesIn(entries, c, m, time)
    BY <1>1, <1>15, Zenon DEF PlacesIn
  <2> QED
    BY <1>14, <1>17, <1>18, <2>3, <2>4, Zenon DEF HierarchicalIn
<1> QED
  BY <1>1, <1>2, <1>19, Hierarchical

(***************************************************************************)
(* The index.                                                              *)
(***************************************************************************)

GoodIndex(file, idx) ==
    /\ idx.entries \in Seq(Entry) /\ idx.total_duration \in Nat
    /\ idx.optimization_strategy \in Strategies
    /\ \A i \in 1 .. Len(idx.entries) : idx.entries[i].file_offset < file.size
    /\ idx.entries # <<>> => GoodEntries(idx.entries)
                             /\ Last(idx.entries).timestamp < idx.total_duration

\* The duration is a number, later than the last entry.
LEMMA DurationIs ==
    ASSUME NEW file, file.size \in Nat, NEW entries \in Seq(Entry)
    PROVE  /\ TotalDuration(file, entries) \in Nat
           /\ entries # <<>> => Last(entries).timestamp < TotalDuration(file, entries)
<1>1. CASE entries = <<>>
  <2>1. PICK bitrate : bitrate = IF file.size <= 10000000 THEN 1500000
                                 ELSE IF file.size <= 100000000 THEN 3000000 ELSE 5000000
    BY SMT
  <2>2. PICK d : d = (file.size * 8 * 30) \div bitrate
    OBVIOUS
  <2>3. bitrate \in Nat \ {0} /\ file.size * 8 * 30 \in Nat
    BY <2>1, SMT
  <2>4. d \in Nat
    BY <2>2, <2>3, DivIsNat
  <2>5. Max({30, d}) \in Nat
    BY <2>4, MaxOfTwo
  <2>6. TotalDuration(file, entries) = Max({30, d})
    BY <1>1, <2>1, <2>2, SMT DEF TotalDuration
  <2> QED
    BY <1>1, <2>5, <2>6
<1>2. CASE entries # <<>>
  <2>1. PICK N : N = Len(entries)
    OBVIOUS
  <2>2. N \in Nat /\ N > 0
    BY <1>2, <2>1
  <2>3. PICK t : t = Last(entries).timestamp
    OBVIOUS
  <2>4. t \in Nat
    <3>1. Last(entries) = entries[N] /\ entries[N] \in Entry
      BY <2>1, <2>2 DEF Last
    <3> QED
      BY <2>3, <3>1, EntryParts
  <2>5. PICK a, b : a = 30 * N /\ b = t + 1
    OBVIOUS
  <2>6. a \in Nat /\ b \in Nat
    BY <2>2, <2>4, <2>5
  <2>7. PICK m : m = Max({a, b})
    OBVIOUS
  <2>8. m = IF a >= b THEN a ELSE b
    BY <2>6, <2>7, MaxOfTwo
  <2>9. m \in Nat /\ t < m
    BY <2>4, <2>5, <2>6, <2>8
  <2>10. TotalDuration(file, entries) = m
    BY <1>2, <2>1, <2>3, <2>5, <2>7, SMT DEF TotalDuration
  <2> QED
    BY <2>3, <2>9, <2>10
<1> QED
  BY <1>1, <1>2

\* A sequence of entries that is not empty has a length above 0.
LEMMA NonEmpty ==
    ASSUME NEW s \in Seq(Entry), s # <<>>
    PROVE  Len(s) \in Nat /\ Len(s) > 0
BY EmptySeq

\* An index that is built is good.
LEMMA IndexBuilt ==
    ASSUME NEW file, FileOK(file), NEW strategy \in Strategies,
           NEW idx, idx = KeyframeIndex(file, strategy)
    PROVE  GoodIndex(file, idx)
<1>1. PICK found, es : /\ found = Found(file, strategy) /\ es = Scan(file, strategy).entries
                       /\ found \in Seq(Nat) /\ IsIndex(file, strategy, found, es)
  BY ScanIs
<1>2. /\ es \in Seq(Entry)
      /\ \A i, j \in 1 .. Len(es) : i < j => es[i].timestamp < es[j].timestamp
      /\ \A i \in 1 .. Len(es) : /\ es[i].file_offset < file.size
                                 /\ Points(strategy, found, Len(found), es, es[i])
      /\ found # <<>> => Len(es) > 0 /\ es[1] = [timestamp |-> 0, file_offset |-> found[1]]
  BY <1>1 DEF IsIndex
<1>3. /\ idx.entries = es /\ idx.total_duration = TotalDuration(file, es)
      /\ idx.optimization_strategy = strategy
  BY <1>1, Zenon DEF KeyframeIndex
<1>4. file.size \in Nat
  BY DEF FileOK
<1>5. TotalDuration(file, es) \in Nat /\ (es # <<>> => Last(es).timestamp < TotalDuration(file, es))
  BY <1>2, <1>4, DurationIs
<1>6. ASSUME es # <<>> PROVE GoodEntries(es)
  <2>1. 1 \in 1 .. Len(es) /\ Len(es) > 0
    BY <1>2, <1>6, NonEmpty
  <2>2. PICK k \in 1 .. Len(found) : TRUE
    BY <1>2, <2>1 DEF Points
  <2>3. found # <<>>
    BY <1>1, <2>2
  <2>4. es[1].timestamp = 0
    BY <1>2, <2>3
  <2> QED
    BY <1>2, <2>1, <2>4 DEF GoodEntries, Increasing
<1> QED
  BY <1>2, <1>3, <1>5, <1>6 DEF GoodIndex

\* In a good index every search finds the same entry, the nearest.
LEMMA Searched ==
    ASSUME NEW file, NEW idx, GoodIndex(file, idx), idx.entries # <<>>, NEW time \in Nat
    PROVE  \E n : /\ n \in 1 .. Len(idx.entries)
                  /\ ReadersKeyframe(idx.entries, time) = idx.entries[n]
                  /\ FindNearestKeyframe(idx, time) = idx.entries[n]
                  /\ FindOptimalKeyframe(idx, time) = idx.entries[n]
                  /\ IsNearest(idx.entries[n], idx.entries, time)
<1>1. PICK es : es = idx.entries
  OBVIOUS
<1>2. /\ GoodEntries(es) /\ idx.total_duration \in Nat /\ Last(es).timestamp < idx.total_duration
      /\ idx.optimization_strategy \in Strategies
  BY <1>1 DEF GoodIndex
<1>3. PICK n : /\ n = BinarySearch(es, time) /\ Before(es, time, n)
               /\ n \in 1 .. Len(es) /\ Max({n, 1}) = n
  BY <1>2, SomeBefore
<1>4. ReadersKeyframe(es, time) = es[n]
  BY <1>3 DEF ReadersKeyframe
<1>5. FindNearestKeyframe(idx, time) = es[n]
  BY <1>1, <1>2, <1>3, ControllersIs
<1>6. FindOptimalKeyframe(idx, time) = es[n]
  <2>1. FindNearestSparseKeyframe(es, time) = es[n]
    BY <1>2, <1>3, SparseIs
  <2>2. FindHierarchicalKeyframe(es, time) = es[n]
    BY <1>2, <1>3, HierarchicalIs
  <2>3. CASE idx.optimization_strategy = "Sparse"
    BY <1>1, <2>1, <2>3 DEF FindOptimalKeyframe
  <2>4. CASE idx.optimization_strategy = "Hierarchical"
    BY <1>1, <2>2, <2>4 DEF FindOptimalKeyframe
  <2>5. CASE idx.optimization_strategy \notin {"Sparse", "Hierarchical"}
    BY <1>5, <2>5 DEF FindOptimalKeyframe
  <2> QED
    BY <2>3, <2>4, <2>5
<1>7. IsNearest(es[n], es, time)
  BY <1>2, <1>3, NearestIs
<1> QED
  BY <1>1, <1>3, <1>4, <1>5, <1>6, <1>7

\* The controller accepts a good index, and every search agrees on it.
LEMMA GoodFinds ==
    ASSUME NEW file, NEW idx, GoodIndex(file, idx), idx.entries # <<>>
    PROVE  /\ ValidateKeyframeIndex(idx)
           /\ \A time \in TimesOf(idx) :
                 /\ IsNearest(ReadersKeyframe(idx.entries, time), idx.entries, time)
                 /\ FindNearestKeyframe(idx, time) = ReadersKeyframe(idx.entries, time)
                 /\ FindOptimalKeyframe(idx, time) = ReadersKeyframe(idx.entries, time)
<1>1. PICK es : es = idx.entries
  OBVIOUS
<1>2. /\ es \in Seq(Entry) /\ Increasing(es) /\ idx.total_duration \in Nat
      /\ Last(es).timestamp < idx.total_duration
  BY <1>1 DEF GoodIndex, GoodEntries
<1>3. Len(es) \in Nat /\ Len(es) > 0 /\ \A i \in 1 .. Len(es) : es[i].timestamp \in Nat
  BY <1>1, <1>2, EntryParts, NonEmpty
<1>4. PICK t, d : t = Last(es).timestamp /\ d = idx.total_duration
  OBVIOUS
<1>5. t \in Nat /\ d \in Nat /\ t < d
  BY <1>2, <1>3, <1>4 DEF Last
<1>6. ValidateKeyframeIndex(idx)
  <2>1. ASSUME NEW i \in 1 .. Len(es) - 1 PROVE es[i].timestamp <= es[i + 1].timestamp
    <3>1. i \in 1 .. Len(es) /\ i + 1 \in 1 .. Len(es) /\ i < i + 1
      BY <1>3
    <3>2. es[i].timestamp < es[i + 1].timestamp
      BY <1>2, <3>1 DEF Increasing
    <3>3. es[i].timestamp \in Nat /\ es[i + 1].timestamp \in Nat
      BY <1>3, <3>1
    <3> QED
      BY <3>2, <3>3
  <2>2. Last(es).timestamp <= idx.total_duration
    BY <1>4, <1>5
  <2> QED
    BY <1>1, <2>1, <2>2 DEF ValidateKeyframeIndex
<1>7. TimesOf(idx) \subseteq Nat
  <2>1. PICK m : m = Min({t + 1, d})
    OBVIOUS
  <2>2. m \in Int
    <3>1. PICK b \in Int : b = t + 1
      BY <1>5
    <3>2. d \in Int
      BY <1>5
    <3>3. Min({b, d}) \in Int
      BY <3>2, MinOfTwo
    <3> QED
      BY <2>1, <3>1, <3>3
  <2> QED
    BY <1>1, <1>4, <1>5, <2>1, <2>2 DEF TimesOf
<1>8. ASSUME NEW time \in TimesOf(idx)
      PROVE  /\ IsNearest(ReadersKeyframe(idx.entries, time), idx.entries, time)
             /\ FindNearestKeyframe(idx, time) = ReadersKeyframe(idx.entries, time)
             /\ FindOptimalKeyframe(idx, time) = ReadersKeyframe(idx.entries, time)
  <2>1. time \in Nat
    BY <1>7
  <2> QED
    BY <2>1, Searched
<1> QED
  BY <1>6, <1>8

\* What an index that was built promises: the consequent of IndexFindsKeyframes.
Finds(idx) ==
    /\ EntriesFaithful(idx)
    /\ ValidateKeyframeIndex(idx)
    /\ \A time \in TimesOf(idx) :
          LET entry == ReadersKeyframe(idx.entries, time) IN
          /\ IsNearest(entry, idx.entries, time)
          /\ FindNearestKeyframe(idx, time) = entry
          /\ FindOptimalKeyframe(idx, time) = entry

\* An index that is built is as IndexFindsKeyframes says.
LEMMA BuiltFinds ==
    ASSUME FileOK(video.file), NEW strategy \in Strategies, NEW idx,
           idx = KeyframeIndex(video.file, strategy), idx.entries # <<>>
    PROVE  Finds(idx)
<1>1. EntriesFaithful(idx)
  BY IndexFaithful
<1>2. GoodIndex(video.file, idx)
  BY IndexBuilt
<1>3. /\ ValidateKeyframeIndex(idx)
      /\ \A time \in TimesOf(idx) :
            /\ IsNearest(ReadersKeyframe(idx.entries, time), idx.entries, time)
            /\ FindNearestKeyframe(idx, time) = ReadersKeyframe(idx.entries, time)
            /\ FindOptimalKeyframe(idx, time) = ReadersKeyframe(idx.entries, time)
  BY <1>2, GoodFinds
<1> QED
  BY <1>1, <1>3, Zenon DEF Finds

(***************************************************************************)
(* The invariant.                                                          *)
(***************************************************************************)

\* The queue is the one that the position and the rate noted with it give.
QueueNoted ==
    /\ queued = None => transmission_queue = <<>>
    /\ queued # None =>
          transmission_queue = QueueOf(video.segments, queued.position, queued.rate)

PlaybackInv ==
    /\ TypeOK
    /\ video \in Videos
    /\ index # None => GoodIndex(video.file, index)
    /\ QueueNoted

\* What PlaybackOK says of the video that is open.
LEMMA VideoIs ==
    ASSUME video \in Videos
    PROVE  FileOK(video.file) /\ video.segments \in Seq(Segment) /\ video.file.size \in Nat
BY PlaybackOK DEF FileOK, Segment

\* The invariant holds at the start.
LEMMA InitInv == Init => PlaybackInv
<1> SUFFICES ASSUME Init PROVE PlaybackInv
  OBVIOUS
<1>1. /\ video \in Videos /\ index = None /\ cursor = 0 /\ current_position = 0
      /\ last_seek_position = None /\ playback_rate = 10 /\ transmission_queue = <<>>
      /\ queued = None /\ calls = 0
  BY DEF Init
<1>2. video.file.size \in Nat /\ MaxCalls \in Nat
  BY <1>1, VideoIs, PlaybackOK
<1>3. TypeOK
  BY <1>1, <1>2 DEF TypeOK
<1> QED
  BY <1>1, <1>3, Zenon DEF PlaybackInv, QueueNoted

\* StrategyFor gives a strategy.
LEMMA StrategyIs ==
    ASSUME NEW memory_limit_mb \in {50, 20, 10, 9}
    PROVE  StrategyFor(memory_limit_mb) \in Strategies
BY DEF StrategyFor, Strategies

\* An accepted rate is at most 100, and so is what a network makes of it.
LEMMA RateIs ==
    ASSUME NEW rate \in Rates, RateOK(rate), NEW capacity \in Capacities
    PROVE  /\ rate \in 1 .. 100
           /\ (IF capacity > 0 THEN Min({rate, capacity}) ELSE rate) \in 1 .. 100
<1>1. rate \in Int /\ capacity \in Nat
  BY PlaybackOK
<1>2. rate \in 1 .. 100
  BY <1>1 DEF RateOK
<1>3. PICK m : m = Min({rate, capacity})
  OBVIOUS
<1>4. m \in Int /\ m <= rate /\ m <= capacity
  <2>1. rate \in Int /\ capacity \in Int
    BY <1>1
  <2> QED
    BY <1>3, <2>1, MinOfTwo
<1>5. m = rate \/ m = capacity
  <2>1. rate \in Nat /\ capacity \in Nat
    BY <1>1, <1>2
  <2> QED
    BY <1>3, <2>1, MinIsOne
<1>6. CASE capacity > 0
  <2>1. m \in 1 .. 100
    BY <1>1, <1>2, <1>4, <1>5, <1>6
  <2> QED
    BY <1>2, <1>3, <1>6, <2>1
<1>7. CASE ~ (capacity > 0)
  BY <1>2, <1>7
<1> QED
  BY <1>6, <1>7

\* The type of an index.
IndexTyped(idx) ==
    /\ idx.entries \in Seq(Entry)
    /\ idx.total_duration \in Nat
    /\ idx.optimization_strategy \in Strategies

\* Every call keeps the invariant.
LEMMA StepInv ==
    ASSUME PlaybackInv, [Next]_vars
    PROVE  PlaybackInv'
<1>1. /\ video \in Videos /\ TypeOK /\ QueueNoted
      /\ index # None => GoodIndex(video.file, index)
  BY DEF PlaybackInv
<1>2. /\ index = None \/ IndexTyped(index)
      /\ cursor \in 0 .. video.file.size
      /\ current_position \in Nat
      /\ last_seek_position \in {None, current_position}
      /\ playback_rate \in 1 .. 100
      /\ transmission_queue \in Seq(DOMAIN video.segments)
      /\ queued = None \/ queued \in [position : Nat, rate : 1 .. 100]
      /\ calls \in 0 .. MaxCalls
  BY <1>1 DEF TypeOK, IndexTyped
<1>3. FileOK(video.file) /\ video.segments \in Seq(Segment) /\ video.file.size \in Nat
  BY <1>1, VideoIs
<1>4. MaxCalls \in Nat /\ Times \subseteq Int
  BY PlaybackOK
\* It is enough to give the new values of what a call changes.
<1>5. ASSUME video' = video, calls' \in 0 .. MaxCalls,
             index' = None \/ GoodIndex(video.file, index'),
             cursor' \in 0 .. video.file.size,
             current_position' \in Nat, last_seek_position' \in {None, current_position'},
             playback_rate' \in 1 .. 100,
             transmission_queue' \in Seq(DOMAIN video.segments),
             queued' = None \/ queued' \in [position : Nat, rate : 1 .. 100],
             queued' = None => transmission_queue' = <<>>,
             queued' # None =>
                transmission_queue' = QueueOf(video.segments, queued'.position, queued'.rate)
      PROVE  PlaybackInv'
  <2>1. index' = None \/ IndexTyped(index')
    BY <1>5 DEF GoodIndex, IndexTyped
  <2>2. TypeOK'
    BY <1>5, <2>1 DEF TypeOK, IndexTyped
  <2>3. QueueNoted'
    BY <1>5 DEF QueueNoted
  <2>4. (index # None => GoodIndex(video.file, index))'
    BY <1>5
  <2>5. video' \in Videos
    BY <1>1, <1>5
  <2> QED
    BY <2>2, <2>3, <2>4, <2>5 DEF PlaybackInv
<1>6. ASSUME UNCHANGED vars PROVE PlaybackInv'
  <2>1. /\ video' = video /\ index' = index /\ cursor' = cursor
        /\ current_position' = current_position /\ last_seek_position' = last_seek_position
        /\ playback_rate' = playback_rate /\ transmission_queue' = transmission_queue
        /\ queued' = queued /\ calls' = calls
    BY <1>6 DEF vars, reader, controller
  <2> QED
    BY <1>1, <1>2, <1>5, <2>1 DEF QueueNoted
<1>7. ASSUME Next PROVE PlaybackInv'
  <2>1. calls' \in 0 .. MaxCalls
    BY <1>2, <1>4, <1>7 DEF Next
  <2>2. CASE BuildKeyframeIndex
    <3>1. PICK memory_limit_mb \in {50, 20, 10, 9} :
              index' = KeyframeIndex(video.file, StrategyFor(memory_limit_mb))
      BY <2>2 DEF BuildKeyframeIndex
    <3>2. UNCHANGED <<video, cursor, controller>>
      BY <2>2 DEF BuildKeyframeIndex
    <3>3. GoodIndex(video.file, index')
      BY <1>3, <3>1, StrategyIs, IndexBuilt
    <3> QED
      BY <1>1, <1>2, <1>5, <2>1, <3>2, <3>3 DEF QueueNoted, controller
  <2>3. ASSUME NEW time \in Times, SeekToTime(time) PROVE PlaybackInv'
    <3>1. /\ InIndex(time)
          /\ cursor' = IF index.entries = <<>> THEN 0
                       ELSE ReadersKeyframe(index.entries, time).file_offset
          /\ UNCHANGED <<video, index, controller>>
      BY <2>3 DEF SeekToTime
    <3>2. index # None /\ time \in Nat
      <4>1. InIndex(time)
        BY <3>1
      <4>2. index # None /\ time >= 0
        BY <4>1 DEF InIndex
      <4> QED
        BY <1>4, <4>2
    <3>3. GoodIndex(video.file, index)
      BY <1>1, <3>2
    <3>4. cursor' \in 0 .. video.file.size
      <4>1. CASE index.entries = <<>>
        BY <1>3, <3>1, <4>1
      <4>2. CASE index.entries # <<>>
        <5>1. PICK n \in 1 .. Len(index.entries) :
                  ReadersKeyframe(index.entries, time) = index.entries[n]
          BY <3>2, <3>3, <4>2, Searched
        <5>2. /\ index.entries \in Seq(Entry)
              /\ index.entries[n].file_offset < video.file.size
          BY <3>3 DEF GoodIndex
        <5>3. PICK o : o = index.entries[n].file_offset
          OBVIOUS
        <5>4. o \in Nat
          BY <5>2, <5>3, EntryParts
        <5>5. cursor' = o
          BY <3>1, <4>2, <5>1, <5>3
        <5>6. PICK size : size = video.file.size
          OBVIOUS
        <5>7. o \in 0 .. size
          BY <1>3, <5>2, <5>3, <5>4, <5>6
        <5> QED
          BY <5>5, <5>6, <5>7, Zenon
      <4> QED
        BY <4>1, <4>2
    <3> QED
      BY <1>1, <1>2, <1>5, <2>1, <3>1, <3>3, <3>4 DEF QueueNoted, controller
  <2>4. ASSUME NEW position \in Nat, MoveTo(position) PROVE PlaybackInv'
    <3>1. /\ transmission_queue' = <<>> /\ queued' = None
          /\ current_position' = position /\ last_seek_position' = position
          /\ UNCHANGED <<video, reader, playback_rate>>
      BY <2>4 DEF MoveTo, ClearBuffers
    <3>2. <<>> \in Seq(DOMAIN video.segments)
      OBVIOUS
    <3> QED
      BY <1>1, <1>2, <1>5, <2>1, <2>4, <3>1, <3>2 DEF reader
  <2>5. ASSUME NEW time \in Times, Seek(time) PROVE PlaybackInv'
    <3>1. time \in Nat /\ MoveTo(time)
      BY <1>4, <2>5 DEF Seek
    <3> QED
      BY <2>4, <3>1
  <2>6. ASSUME NEW time \in Times, SeekToKeyframe(time) PROVE PlaybackInv'
    <3>1. /\ InIndex(time) /\ index.entries # <<>>
          /\ MoveTo(FindNearestKeyframe(index, time).timestamp)
      BY <2>6 DEF SeekToKeyframe
    <3>2. index # None /\ time \in Nat
      BY <1>4, <3>1 DEF InIndex
    <3>3. GoodIndex(video.file, index)
      BY <1>1, <3>2
    <3>4. PICK n \in 1 .. Len(index.entries) : FindNearestKeyframe(index, time) = index.entries[n]
      BY <3>1, <3>2, <3>3, Searched
    <3>5. index.entries[n].timestamp \in Nat
      BY <3>3, EntryParts DEF GoodIndex
    <3> QED
      BY <2>4, <3>1, <3>4, <3>5
  <2>7. CASE video.file.size > 0 /\ SeekToOffset(video.file.size - 1)
    <3>1. /\ cursor' = video.file.size - 1 /\ UNCHANGED <<video, index, controller>>
      BY <2>7 DEF SeekToOffset
    <3>2. cursor' \in 0 .. video.file.size
      <4>1. PICK size : size = video.file.size
        OBVIOUS
      <4>2. size \in Nat /\ size > 0 /\ cursor' = size - 1
        BY <1>3, <2>7, <3>1, <4>1
      <4>3. size - 1 \in 0 .. size
        BY <4>2
      <4> QED
        BY <4>1, <4>2, <4>3, Zenon
    <3> QED
      BY <1>1, <1>2, <1>5, <2>1, <3>1, <3>2 DEF QueueNoted, controller
  <2>8. ASSUME NEW rate \in 1 .. 100, playback_rate' = rate,
               UNCHANGED <<video, reader, current_position, last_seek_position,
                           transmission_queue, queued>>
        PROVE  PlaybackInv'
    BY <1>1, <1>2, <1>5, <2>1, <2>8 DEF QueueNoted, reader
  <2>9. ASSUME NEW rate \in Rates, SetPlaybackRate(rate) PROVE PlaybackInv'
    <3>1. rate \in 1 .. 100
      BY <2>9, PlaybackOK DEF SetPlaybackRate, RateOK
    <3> QED
      BY <2>8, <2>9, <3>1 DEF SetPlaybackRate
  <2>10. ASSUME NEW rate \in Rates, NEW capacity \in Capacities,
                SetAdaptivePlaybackRate(rate, capacity)
         PROVE  PlaybackInv'
    <3>1. PICK r : r = IF capacity > 0 THEN Min({rate, capacity}) ELSE rate
      OBVIOUS
    <3>2. RateOK(rate) /\ playback_rate' = r
          /\ UNCHANGED <<video, reader, current_position, last_seek_position,
                         transmission_queue, queued>>
      BY <2>10, <3>1 DEF SetAdaptivePlaybackRate
    <3>3. r \in 1 .. 100
      BY <3>1, <3>2, RateIs
    <3> QED
      BY <2>8, <3>2, <3>3
  <2>11. CASE RequeueSegmentsFromPosition(current_position)
    <3>1. /\ transmission_queue'
                = AdjustTransmissionQueue(SegmentsFrom(current_position), playback_rate)
          /\ queued' = [position |-> current_position, rate |-> playback_rate]
          /\ UNCHANGED <<video, reader, current_position, last_seek_position, playback_rate>>
      BY <2>11 DEF RequeueSegmentsFromPosition
    <3>2. transmission_queue' = QueueOf(video.segments, current_position, playback_rate)
      BY <3>1, QueueIsOf
    <3>3. transmission_queue' \in Seq(DOMAIN video.segments)
      <4>1. playback_rate \in Nat
        BY <1>2
      <4> QED
        BY <1>2, <1>3, <3>1, <4>1, QueueTyped
    <3>4. /\ queued' \in [position : Nat, rate : 1 .. 100] /\ queued' # None
          /\ queued'.position = current_position /\ queued'.rate = playback_rate
      <4>1. queued' \in [position : Nat, rate : 1 .. 100]
        BY <1>2, <3>1
      <4> QED
        BY <3>1, <4>1, PlaybackOK
    <3> QED
      BY <1>1, <1>2, <1>5, <2>1, <3>1, <3>2, <3>3, <3>4 DEF reader
  <2> QED
    BY <1>7, <2>2, <2>3, <2>5, <2>6, <2>7, <2>9, <2>10, <2>11 DEF Next
<1> QED
  BY <1>6, <1>7

\* PlaybackInv holds throughout.
LEMMA Invariant == Spec => []PlaybackInv
<1>1. Init => PlaybackInv
  BY InitInv
<1>2. PlaybackInv /\ [Next]_vars => PlaybackInv'
  BY StepInv
<1> QED
  BY <1>1, <1>2, PTL DEF Spec


\* The types of the reader and the controller: the handle stays in the file, the
\* position is never negative, the rate is one that is accepted and the queue
\* holds places of segments (file_reader.rs:820-870, controller.rs:96-190).
THEOREM TypeCorrect == Spec => []TypeOK
<1>1. PlaybackInv => TypeOK
  BY DEF PlaybackInv
<1> QED
  BY <1>1, Invariant, PTL

\* After a seek the queue is empty; what is queued later is in the order of time,
\* from the position on, with every key frame, and frames are dropped evenly: no
\* two neighbours at 2x, no four at 4x (controller.rs:168-206, 299-343, 357-377).
THEOREM QueueKeeps == Spec => []QueueKeepsKeyFrames
<1>1. PlaybackInv => QueueKeepsKeyFrames
  <2> SUFFICES ASSUME PlaybackInv PROVE QueueKeepsKeyFrames
    OBVIOUS
  <2>1. video.segments \in Seq(Segment)
    BY VideoIs DEF PlaybackInv
  <2>2. CASE queued = None
    <3>1. transmission_queue = <<>>
      BY <2>2 DEF PlaybackInv, QueueNoted
    <3>2. ToSet(transmission_queue) = {}
      BY <3>1 DEF ToSet
    <3> QED
      BY <2>2, <3>2 DEF QueueKeepsKeyFrames
  <2>3. CASE queued # None
    <3>1. PICK position, rate : position = queued.position /\ rate = queued.rate
      OBVIOUS
    <3>2. position \in Nat /\ rate \in Nat
      <4>1. queued \in [position : Nat, rate : 1 .. 100]
        BY <2>3 DEF PlaybackInv, TypeOK
      <4> QED
        BY <3>1, <4>1
    <3>3. transmission_queue = QueueOf(video.segments, position, rate)
      BY <2>3, <3>1 DEF PlaybackInv, QueueNoted
    <3>4. transmission_queue = AdjustTransmissionQueue(SegmentsFrom(position), rate)
      BY <3>3, QueueIsOf
    <3> QED
      BY <2>1, <2>3, <3>1, <3>2, <3>4, QueueFits
  <2> QED
    BY <2>2, <2>3
<1> QED
  BY <1>1, Invariant, PTL

\* Whatever the file, an index that is built points at start codes in the order of
\* the file, the controller accepts it, and every search in the reader and in the
\* controller finds the same entry, the last at or before the time
\* (file_reader.rs:639-843, controller.rs:237-274, 536-628).
THEOREM IndexFinds == Spec => IndexFindsKeyframes
<1>1. ASSUME PlaybackInv, [Next]_vars, index' # index, index'.entries # <<>> PROVE Finds(index')
  <2>1. FileOK(video.file)
    BY <1>1, VideoIs DEF PlaybackInv
  <2>2. BuildKeyframeIndex
    BY <1>1 DEF Next, vars, reader, controller, SeekToTime, SeekToOffset, Seek, SeekToKeyframe,
                MoveTo, SetPlaybackRate, SetAdaptivePlaybackRate, RequeueSegmentsFromPosition
  <2>3. PICK memory_limit_mb \in {50, 20, 10, 9} :
            index' = KeyframeIndex(video.file, StrategyFor(memory_limit_mb))
    BY <2>2 DEF BuildKeyframeIndex
  <2> QED
    BY <1>1, <2>1, <2>3, StrategyIs, BuiltFinds
<1>2. PlaybackInv /\ [Next]_vars =>
          [index' # index /\ index'.entries # <<>> => Finds(index')]_vars
  BY <1>1
<1>3. Spec => [][index' # index /\ index'.entries # <<>> => Finds(index')]_vars
  BY <1>2, Invariant, PTL DEF Spec
<1> QED
  BY <1>3 DEF IndexFindsKeyframes, Finds

=============================================================================
