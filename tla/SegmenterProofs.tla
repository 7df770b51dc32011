--------------------------- MODULE SegmenterProofs --------------------------
(***************************************************************************)
(* Theorems about the segment stream of a file, for chunks of any size and   *)
(* any number of them, of adjustments and of resumptions: types, where the   *)
(* chunks are, the line of the segments, and that what is delivered is what  *)
(* Delivery allows.                                                          *)
(*                                                                         *)
(* First the folds: what BufferSize and Delivered are is a fold of the       *)
(* community modules, a recursive function, of which everything needed here  *)
(* is proved by induction on the size of a set or the length of a sequence.  *)
(* Then Base, which every step preserves, with the kind of Change that the   *)
(* step is; the other invariants are preserved by every Change.              *)
(***************************************************************************)
EXTENDS Segmenter, WellFoundedInduction, FiniteSetTheorems, SequenceTheorems, TLAPS

(***************************************************************************)
(* Induction, over the set of the numbers that a fact holds for.            *)
(***************************************************************************)

LEMMA Least ==
    ASSUME NEW T \in SUBSET Nat, T # {}
    PROVE  \E m \in T : \A k \in Nat : k < m => k \notin T
<1>1. PICK R : R = OpToRel(<, Nat)
  OBVIOUS
<1>2. IsWellFoundedOn(R, Nat)
  BY <1>1, NatLessThanWellFounded
<1>3. PICK m \in T : \A y \in T : ~ (<<y, m>> \in R)
  BY <1>2, WFMin
<1>4. \A a, b \in Nat : a < b => <<a, b>> \in R
  BY <1>1 DEF OpToRel
<1> QED
  BY <1>3, <1>4

LEMMA Induction ==
    ASSUME NEW P \in SUBSET Nat, 0 \in P, \A n \in P : n + 1 \in P
    PROVE  \A n \in Nat : n \in P
<1> SUFFICES ASSUME Nat \ P # {} PROVE FALSE
  OBVIOUS
<1>1. PICK m \in Nat \ P : \A k \in Nat : k < m => k \notin Nat \ P
  BY Least
<1>2. m # 0 /\ m - 1 \in Nat /\ m - 1 < m /\ (m - 1) + 1 = m
  BY <1>1
<1>3. m - 1 \in P
  BY <1>1, <1>2
<1> QED
  BY <1>1, <1>2, <1>3

(***************************************************************************)
(* The sums that the folds of the community modules define.                *)
(***************************************************************************)

Pick(T) == CHOOSE x \in T : TRUE

Plus(a, b) == a + b

Less(T, x) == T \ {x}

\* g[T] is the sum of w over T, for the subsets T of D.
SumBody(w, D, g) == [T \in SUBSET D |-> IF T = {} THEN 0 ELSE Plus(g[Less(T, Pick(T))], w[Pick(T)])]

IsSum(w, D, g) ==
    /\ g[{}] = 0
    /\ \A T \in SUBSET D : T # {} =>
          /\ Pick(T) \in T /\ Pick(T) \in D /\ Less(T, Pick(T)) \in SUBSET D
          /\ g[T] = Plus(g[Less(T, Pick(T))], w[Pick(T)])

LEMMA SumUnfolds ==
    ASSUME NEW D, NEW w, NEW g, g = SumBody(w, D, g)
    PROVE  IsSum(w, D, g)
<1>1. \A T : T # {} => Pick(T) \in T
  BY DEF Pick
<1>2. DOMAIN g = SUBSET D
  BY DEF SumBody
<1>3. \A T \in SUBSET D : g[T] = IF T = {} THEN 0 ELSE Plus(g[Less(T, Pick(T))], w[Pick(T)])
  BY DEF SumBody
<1> QED
  BY <1>1, <1>2, <1>3 DEF Less, IsSum

\* A smaller set of a finite one.
LEMMA Smaller ==
    ASSUME NEW D, IsFiniteSet(D), NEW T \in SUBSET D, NEW x \in T
    PROVE  /\ IsFiniteSet(T) /\ Cardinality(T) \in Nat /\ Cardinality(T) # 0
           /\ Cardinality(Less(T, x)) = Cardinality(T) - 1
<1>1. IsFiniteSet(T)
  BY FS_Subset
<1>2. Cardinality(T) \in Nat /\ Cardinality(Less(T, x)) = Cardinality(T) - 1
  BY <1>1, FS_CardinalityType, FS_RemoveElement DEF Less
<1>3. Cardinality(T) # 0
  BY <1>1, FS_EmptySet
<1> QED
  BY <1>1, <1>2, <1>3

LEMMA EmptyOfSize ==
    ASSUME NEW D, IsFiniteSet(D), NEW T \in SUBSET D
    PROVE  Cardinality(T) \in Nat /\ (Cardinality(T) = 0 <=> T = {})
<1>1. IsFiniteSet(T)
  BY FS_Subset
<1> QED
  BY <1>1, FS_CardinalityType, FS_EmptySet

LEMMA SumExists ==
    ASSUME NEW D, IsFiniteSet(D), NEW w \in [D -> Nat]
    PROVE  \E g : g = SumBody(w, D, g)
<1> DEFINE Upto(n, f) == \A T \in SUBSET D : Cardinality(T) <= n =>
                             f[T] = IF T = {} THEN 0 ELSE Plus(f[Less(T, Pick(T))], w[Pick(T)])
           P == {n \in Nat : \E f \in [SUBSET D -> Nat] : Upto(n, f)}
<1>1. 0 \in P
  <2>1. PICK f \in [SUBSET D -> Nat] : f = [T \in SUBSET D |-> 0]
    OBVIOUS
  <2>2. ASSUME NEW T \in SUBSET D, Cardinality(T) <= 0 PROVE T = {}
    <3>1. Cardinality(T) \in Nat /\ (Cardinality(T) = 0 <=> T = {})
      BY EmptyOfSize
    <3> QED
      BY <2>2, <3>1
  <2>3. Upto(0, f)
    BY <2>1, <2>2
  <2> QED
    BY <2>3
<1>2. ASSUME NEW n \in P PROVE n + 1 \in P
  <2>1. n \in Nat /\ \E f \in [SUBSET D -> Nat] : Upto(n, f)
    BY <1>2
  <2>2. PICK f \in [SUBSET D -> Nat] : Upto(n, f)
    BY <2>1
  <2>3. PICK g : g = [T \in SUBSET D |-> IF Cardinality(T) = n + 1 /\ T # {} THEN Plus(f[Less(T, Pick(T))], w[Pick(T)]) ELSE f[T]]
    OBVIOUS
  <2>4. \A T \in SUBSET D : T # {} =>
            /\ Pick(T) \in T /\ Pick(T) \in D /\ Less(T, Pick(T)) \in SUBSET D
            /\ Cardinality(T) \in Nat /\ Cardinality(Less(T, Pick(T))) = Cardinality(T) - 1
    <3>1. \A T : T # {} => Pick(T) \in T
      BY DEF Pick
    <3> QED
      BY <3>1, Smaller DEF Less
  <2>5. g \in [SUBSET D -> Nat]
    <3>1. ASSUME NEW T \in SUBSET D PROVE g[T] \in Nat
      BY <2>3, <2>4 DEF Plus
    <3> QED
      BY <2>3, <3>1
  <2>6. Upto(n + 1, g)
    <3> SUFFICES ASSUME NEW T \in SUBSET D, Cardinality(T) <= n + 1
                 PROVE  g[T] = IF T = {} THEN 0 ELSE Plus(g[Less(T, Pick(T))], w[Pick(T)])
      OBVIOUS
    <3>1. CASE T = {}
      <4>1. Cardinality({}) = 0
        BY FS_EmptySet
      <4>2. f[T] = 0 /\ g[T] = f[T]
        BY <2>1, <2>2, <2>3, <3>1, <4>1
      <4> QED
        BY <3>1, <4>2
    <3>2. CASE T # {}
      <4>1. PICK U \in SUBSET D : U = Less(T, Pick(T))
        BY <2>4, <3>2
      <4>2. Cardinality(U) = Cardinality(T) - 1 /\ Cardinality(T) \in Nat
        BY <2>4, <3>2, <4>1
      <4>3. g[U] = f[U]
        BY <2>1, <2>3, <4>2
      <4>4. g[T] = Plus(f[U], w[Pick(T)])
        <5>1. CASE Cardinality(T) = n + 1
          BY <2>3, <3>2, <4>1, <5>1
        <5>2. CASE Cardinality(T) # n + 1
          <6>1. Cardinality(T) <= n /\ g[T] = f[T]
            BY <2>1, <2>3, <4>2, <5>2
          <6> QED
            BY <2>2, <3>2, <4>1, <6>1
        <5> QED
          BY <5>1, <5>2
      <4> QED
        BY <3>2, <4>1, <4>3, <4>4
    <3> QED
      BY <3>1, <3>2
  <2>7. \E g_1 \in [SUBSET D -> Nat] : Upto(n + 1, g_1)
    <3> HIDE DEF Upto
    <3> QED
      BY <2>5, <2>6
  <2> QED
    BY <2>1, <2>7
<1>3. \A n \in Nat : n \in P
  <2>1. P \in SUBSET Nat
    OBVIOUS
  <2> HIDE DEF P
  <2> QED
    BY <1>1, <1>2, <2>1, Induction
<1>4. Cardinality(D) \in Nat
  BY FS_CardinalityType
<1>5. PICK f \in [SUBSET D -> Nat] : Upto(Cardinality(D), f)
  BY <1>3, <1>4
<1>6. \A T \in SUBSET D : Cardinality(T) <= Cardinality(D)
  BY FS_Subset
<1>7. f = SumBody(w, D, f)
  BY <1>5, <1>6 DEF SumBody
<1> QED
  BY <1>7

\* The sum over a set is a number, and so is that of each of its subsets.
LEMMA SumIsNat ==
    ASSUME NEW D, IsFiniteSet(D), NEW w \in [D -> Nat], NEW g, IsSum(w, D, g)
    PROVE  \A T \in SUBSET D : g[T] \in Nat
<1>0. /\ g[{}] = 0
      /\ \A T \in SUBSET D : T # {} =>
            /\ Pick(T) \in T /\ Pick(T) \in D /\ Less(T, Pick(T)) \in SUBSET D
            /\ g[T] = Plus(g[Less(T, Pick(T))], w[Pick(T)])
  BY DEF IsSum
<1> DEFINE P == {n \in Nat : \A T \in SUBSET D : Cardinality(T) = n => g[T] \in Nat}
<1>1. 0 \in P
  <2>1. ASSUME NEW T \in SUBSET D, Cardinality(T) = 0 PROVE g[T] \in Nat
    <3>1. T = {}
      BY <2>1, EmptyOfSize
    <3> QED
      BY <1>0, <3>1
  <2> QED
    BY <2>1
<1>2. ASSUME NEW n \in P PROVE n + 1 \in P
  <2>1. n \in Nat /\ \A T \in SUBSET D : Cardinality(T) = n => g[T] \in Nat
    BY <1>2
  <2>2. ASSUME NEW T \in SUBSET D, Cardinality(T) = n + 1 PROVE g[T] \in Nat
    <3>1. T # {}
      BY <2>1, <2>2, EmptyOfSize
    <3>2. /\ Pick(T) \in T /\ Pick(T) \in D /\ Less(T, Pick(T)) \in SUBSET D
          /\ g[T] = Plus(g[Less(T, Pick(T))], w[Pick(T)])
      BY <1>0, <3>1
    <3>3. Cardinality(Less(T, Pick(T))) = n
      BY <2>1, <2>2, <3>2, Smaller
    <3> QED
      BY <2>1, <3>2, <3>3 DEF Plus
  <2> QED
    BY <2>1, <2>2
<1>3. \A n \in Nat : n \in P
  <2>1. P \in SUBSET Nat
    OBVIOUS
  <2> HIDE DEF P
  <2> QED
    BY <1>1, <1>2, <2>1, Induction
<1> QED
  BY <1>3, FS_Subset, FS_CardinalityType

\* Sums of the same numbers over the same set are the same.
LEMMA SumSame ==
    ASSUME NEW D, IsFiniteSet(D), NEW w, NEW g, IsSum(w, D, g),
           NEW E, NEW v, NEW h, IsSum(v, E, h), D \subseteq E, \A x \in D : w[x] = v[x]
    PROVE  \A T \in SUBSET D : g[T] = h[T]
<1>0. /\ g[{}] = 0
      /\ \A T \in SUBSET D : T # {} =>
            /\ Pick(T) \in T /\ Pick(T) \in D /\ Less(T, Pick(T)) \in SUBSET D
            /\ g[T] = Plus(g[Less(T, Pick(T))], w[Pick(T)])
  BY DEF IsSum
<1>5. h[{}] = 0 /\ \A T \in SUBSET E : T # {} => h[T] = Plus(h[Less(T, Pick(T))], v[Pick(T)])
  BY DEF IsSum
<1> DEFINE P == {n \in Nat : \A T \in SUBSET D : Cardinality(T) = n => g[T] = h[T]}
<1>1. 0 \in P
  <2>1. ASSUME NEW T \in SUBSET D, Cardinality(T) = 0 PROVE g[T] = h[T]
    <3>1. T = {}
      BY <2>1, EmptyOfSize
    <3> QED
      BY <1>0, <1>5, <3>1
  <2> QED
    BY <2>1
<1>2. ASSUME NEW n \in P PROVE n + 1 \in P
  <2>1. n \in Nat /\ \A T \in SUBSET D : Cardinality(T) = n => g[T] = h[T]
    BY <1>2
  <2>2. ASSUME NEW T \in SUBSET D, Cardinality(T) = n + 1 PROVE g[T] = h[T]
    <3>1. T # {} /\ T \in SUBSET E
      BY <2>1, <2>2, EmptyOfSize
    <3>2. /\ Pick(T) \in T /\ Pick(T) \in D /\ Less(T, Pick(T)) \in SUBSET D
          /\ g[T] = Plus(g[Less(T, Pick(T))], w[Pick(T)])
      BY <1>0, <3>1
    <3>3. h[T] = Plus(h[Less(T, Pick(T))], v[Pick(T)])
      BY <1>5, <3>1
    <3>4. Cardinality(Less(T, Pick(T))) = n
      BY <2>1, <2>2, <3>2, Smaller
    <3> QED
      BY <2>1, <3>2, <3>3, <3>4
  <2> QED
    BY <2>1, <2>2
<1>3. \A n \in Nat : n \in P
  <2>1. P \in SUBSET Nat
    OBVIOUS
  <2> HIDE DEF P
  <2> QED
    BY <1>1, <1>2, <2>1, Induction
<1> QED
  BY <1>3, FS_Subset, FS_CardinalityType

\* Whichever element the fold picks first, one more adds its number.
LEMMA SumAdds ==
    ASSUME NEW D, IsFiniteSet(D), NEW w \in [D -> Nat], NEW g, IsSum(w, D, g)
    PROVE  \A T \in SUBSET D : \A x \in T : g[T] = Plus(g[Less(T, x)], w[x])
<1>0. /\ g[{}] = 0
      /\ \A T \in SUBSET D : T # {} =>
            /\ Pick(T) \in T /\ Pick(T) \in D /\ Less(T, Pick(T)) \in SUBSET D
            /\ g[T] = Plus(g[Less(T, Pick(T))], w[Pick(T)])
  BY DEF IsSum
<1> DEFINE P == {n \in Nat : \A T \in SUBSET D : Cardinality(T) = n =>
                                \A x \in T : g[T] = Plus(g[Less(T, x)], w[x])}
<1>1. 0 \in P
  <2>1. ASSUME NEW T \in SUBSET D, Cardinality(T) = 0 PROVE T = {}
    BY <2>1, EmptyOfSize
  <2> QED
    BY <2>1
<1>2. ASSUME NEW n \in P PROVE n + 1 \in P
  <2>1. n \in Nat /\ \A T \in SUBSET D : Cardinality(T) = n => \A x \in T : g[T] = Plus(g[Less(T, x)], w[x])
    BY <1>2
  <2>2. ASSUME NEW T \in SUBSET D, Cardinality(T) = n + 1, NEW x \in T PROVE g[T] = Plus(g[Less(T, x)], w[x])
    <3>1. PICK p, U : p = Pick(T) /\ U = Less(T, p)
      OBVIOUS
    <3>2. p \in T /\ p \in D /\ U \in SUBSET D /\ g[T] = Plus(g[U], w[p])
      BY <1>0, <3>1
    <3>3. Cardinality(U) = n
      BY <2>1, <2>2, <3>1, <3>2, Smaller
    <3>4. CASE p = x
      BY <3>1, <3>2, <3>4
    <3>5. CASE p # x
      <4>1. PICK V \in SUBSET D : V = Less(T, x)
        BY DEF Less
      <4>2. p \in V /\ x \in U /\ Less(V, p) = Less(U, x) /\ Less(U, x) \in SUBSET D
        BY <3>1, <3>2, <3>5, <4>1 DEF Less
      <4>5. Cardinality(V) = n
        BY <2>1, <2>2, <4>1, Smaller
      <4>3. g[U] = Plus(g[Less(U, x)], w[x]) /\ g[V] = Plus(g[Less(V, p)], w[p])
        BY <2>1, <3>2, <3>3, <4>2, <4>5
      <4>4. g[Less(U, x)] \in Nat /\ w[x] \in Nat /\ w[p] \in Nat
        BY <3>2, <4>2, SumIsNat
      <4> QED
        BY <3>2, <4>1, <4>2, <4>3, <4>4 DEF Plus
    <3> QED
      BY <3>4, <3>5
  <2> QED
    BY <2>1, <2>2
<1>3. \A n \in Nat : n \in P
  <2>1. P \in SUBSET Nat
    OBVIOUS
  <2> HIDE DEF P
  <2> QED
    BY <1>1, <1>2, <2>1, Induction
<1> QED
  BY <1>3, FS_Subset, FS_CardinalityType

SizeOf(z, chunks) == FoldSeq(LAMBDA c, sum : sum + z[c], 0, chunks)

Weights(z, s) == [i \in DOMAIN s |-> z[s[i]]]

\* The body of the fold, as the community modules write it.
FoldBody(z, s, g) ==
    [T \in SUBSET DOMAIN s |-> IF T = {} THEN 0 ELSE g[T \ {Pick(T)}] + z[s[Pick(T)]]]

LEMMA SizeFolds == \A z, s : SizeOf(z, s) = (CHOOSE g : g = FoldBody(z, s, g))[DOMAIN s]
  BY Zenon DEF SizeOf, FoldSeq, FoldFunction, FoldFunctionOnSet, MapThenFoldSet, FoldBody, Pick

LEMMA SeqDomain ==
    ASSUME NEW n \in Nat, NEW s \in Seq(1 .. n)
    PROVE  /\ DOMAIN s = 1 .. Len(s) /\ Len(s) \in Nat /\ IsFiniteSet(DOMAIN s)
           /\ \A i \in DOMAIN s : s[i] \in 1 .. n
<1>1. DOMAIN s = 1 .. Len(s) /\ Len(s) \in Nat /\ \A i \in DOMAIN s : s[i] \in 1 .. n
  OBVIOUS
<1> QED
  BY <1>1, FS_Interval

LEMMA SizeIsSum ==
    ASSUME NEW z \in Seq(Nat), NEW s \in Seq(1 .. Len(z))
    PROVE  /\ Weights(z, s) \in [DOMAIN s -> Nat] /\ IsFiniteSet(DOMAIN s)
           /\ \E g : IsSum(Weights(z, s), DOMAIN s, g) /\ SizeOf(z, s) = g[DOMAIN s]
<1>1. PICK D, w : D = DOMAIN s /\ w = Weights(z, s)
  OBVIOUS
<1>2. IsFiniteSet(D) /\ \A i \in D : s[i] \in 1 .. Len(z)
  BY <1>1, SeqDomain
<1>3. \A c \in 1 .. Len(z) : z[c] \in Nat
  OBVIOUS
<1>4. w \in [D -> Nat] /\ \A i \in D : w[i] = z[s[i]]
  BY <1>1, <1>2, <1>3 DEF Weights
<1>5. \A T \in SUBSET D : T # {} => Pick(T) \in D
  <2>1. \A T : T # {} => Pick(T) \in T
    BY DEF Pick
  <2> QED
    BY <2>1
<1>6. \A g : SumBody(w, D, g) = FoldBody(z, s, g)
  <2> TAKE g
  <2>1. \A T \in SUBSET D :
            (IF T = {} THEN 0 ELSE Plus(g[Less(T, Pick(T))], w[Pick(T)]))
              = (IF T = {} THEN 0 ELSE g[T \ {Pick(T)}] + z[s[Pick(T)]])
    BY <1>4, <1>5 DEF Plus, Less
  <2> QED
    BY <1>1, <2>1, Zenon DEF SumBody, FoldBody
<1>7. PICK f : f = FoldBody(z, s, f)
  BY <1>2, <1>4, <1>6, SumExists
<1>8. PICK h : h = (CHOOSE g : g = FoldBody(z, s, g))
  OBVIOUS
<1>9. h = FoldBody(z, s, h)
  BY <1>7, <1>8, Zenon
<1>10. h = SumBody(w, D, h)
  BY <1>6, <1>9
<1>11. IsSum(w, D, h)
  BY <1>10, SumUnfolds
<1>12. SizeOf(z, s) = h[D]
  BY <1>1, <1>8, SizeFolds
<1> QED
  BY <1>1, <1>2, <1>4, <1>11, <1>12

LEMMA SizeIsNat ==
    ASSUME NEW z \in Seq(Nat), NEW s \in Seq(1 .. Len(z))
    PROVE  SizeOf(z, s) \in Nat
<1>1. PICK g : IsSum(Weights(z, s), DOMAIN s, g) /\ SizeOf(z, s) = g[DOMAIN s]
  BY SizeIsSum
<1>2. PICK D, w : D = DOMAIN s /\ w = Weights(z, s)
  OBVIOUS
<1>3. w \in [D -> Nat] /\ IsFiniteSet(D) /\ IsSum(w, D, g) /\ D \in SUBSET D
  BY <1>1, <1>2, SizeIsSum
<1>4. \A T \in SUBSET D : g[T] \in Nat
  BY <1>3, SumIsNat
<1> QED
  BY <1>1, <1>2, <1>3, <1>4

LEMMA SizeOfNothing ==
    ASSUME NEW z \in Seq(Nat)
    PROVE  SizeOf(z, <<>>) = 0
<1>0. <<>> \in Seq(1 .. Len(z))
  OBVIOUS
<1>1. PICK s \in Seq(1 .. Len(z)) : s = <<>>
  BY <1>0
<1>2. DOMAIN s = {}
  BY <1>1
<1>3. PICK g : IsSum(Weights(z, s), DOMAIN s, g) /\ SizeOf(z, s) = g[DOMAIN s]
  BY SizeIsSum
<1> QED
  BY <1>1, <1>2, <1>3 DEF IsSum

Agree(v, w, D) == \A i \in D : v[i] = w[i]

IsWeight(w, D) == IsFiniteSet(D) /\ w \in [D -> Nat]

LEMMA SumOfOneMore ==
    ASSUME NEW D, NEW v, NEW g, IsWeight(v, D), IsSum(v, D, g),
           NEW E, NEW w, NEW h, IsWeight(w, E), IsSum(w, E, h),
           NEW x, x \in E, D = Less(E, x), Agree(v, w, D)
    PROVE  h[E] = Plus(g[D], w[x])
<1>0. IsFiniteSet(D) /\ IsFiniteSet(E) /\ w \in [E -> Nat] /\ D \in SUBSET E /\ D \in SUBSET D
  BY DEF Less, IsWeight
<1>1. \A T \in SUBSET E : \A y \in T : h[T] = Plus(h[Less(T, y)], w[y])
  BY <1>0, SumAdds
<1>2. \A T \in SUBSET D : g[T] = h[T]
  BY <1>0, SumSame DEF Agree
<1> QED
  BY <1>0, <1>1, <1>2

\* A chunk that is appended adds its size.
LEMMA SizeAppends ==
    ASSUME NEW z \in Seq(Nat), NEW s \in Seq(1 .. Len(z)), NEW c \in 1 .. Len(z)
    PROVE  SizeOf(z, Append(s, c)) = SizeOf(z, s) + z[c]
<1>0. Append(s, c) \in Seq(1 .. Len(z))
  OBVIOUS
<1>1. PICK t \in Seq(1 .. Len(z)) : t = Append(s, c)
  BY <1>0
<1>2. PICK n : n = Len(s) + 1
  OBVIOUS
<1>3. /\ DOMAIN s = 1 .. Len(s) /\ Len(s) \in Nat /\ n \in Nat
      /\ DOMAIN t = DOMAIN s \cup {n} /\ n \notin DOMAIN s
      /\ t[n] = c /\ \A i \in DOMAIN s : t[i] = s[i]
  BY <1>1, <1>2
<1>4. PICK g : IsSum(Weights(z, s), DOMAIN s, g) /\ SizeOf(z, s) = g[DOMAIN s]
  BY SizeIsSum
<1>5. PICK h : IsSum(Weights(z, t), DOMAIN t, h) /\ SizeOf(z, t) = h[DOMAIN t]
  BY SizeIsSum
<1>6. PICK D, E, v, w : D = DOMAIN s /\ E = DOMAIN t /\ v = Weights(z, s) /\ w = Weights(z, t)
  OBVIOUS
<1>7. IsWeight(v, D) /\ IsSum(v, D, g) /\ IsWeight(w, E) /\ IsSum(w, E, h) /\ n \in E
  BY <1>3, <1>4, <1>5, <1>6, SizeIsSum DEF IsWeight
<1>8. w[n] = z[c] /\ Agree(v, w, D)
  BY <1>3, <1>6 DEF Weights, Agree
<1>9. Less(E, n) = D
  BY <1>3, <1>6 DEF Less
<1>10. h[E] = Plus(g[D], w[n])
  BY <1>7, <1>8, <1>9, SumOfOneMore
<1> QED
  BY <1>1, <1>4, <1>5, <1>6, <1>8, <1>10 DEF Plus

\* The size of the chunks there are is not changed by new ones.
LEMMA SizeKept ==
    ASSUME NEW z \in Seq(Nat), NEW s \in Seq(1 .. Len(z)), NEW bytes \in Nat
    PROVE  SizeOf(Append(z, bytes), s) = SizeOf(z, s)
<1>0. Append(z, bytes) \in Seq(Nat)
  OBVIOUS
<1>1. PICK y \in Seq(Nat) : y = Append(z, bytes)
  BY <1>0
<1>2. s \in Seq(1 .. Len(y)) /\ \A c \in 1 .. Len(z) : y[c] = z[c]
  BY <1>1
<1>3. IsFiniteSet(DOMAIN s) /\ \A i \in DOMAIN s : s[i] \in 1 .. Len(z)
  BY SeqDomain
<1>4. PICK g : IsSum(Weights(z, s), DOMAIN s, g) /\ SizeOf(z, s) = g[DOMAIN s]
  BY SizeIsSum
<1>5. PICK h : IsSum(Weights(y, s), DOMAIN s, h) /\ SizeOf(y, s) = h[DOMAIN s]
  BY <1>2, SizeIsSum
<1>6. \A i \in DOMAIN s : Weights(z, s)[i] = Weights(y, s)[i]
  BY <1>2, <1>3 DEF Weights
<1>7. PICK D, v, w : D = DOMAIN s /\ v = Weights(z, s) /\ w = Weights(y, s)
  OBVIOUS
<1>8. /\ IsFiniteSet(D) /\ IsSum(v, D, g) /\ IsSum(w, D, h) /\ D \in SUBSET D /\ D \subseteq D
      /\ \A i \in D : v[i] = w[i]
  BY <1>3, <1>4, <1>5, <1>6, <1>7
<1>9. \A T \in SUBSET D : g[T] = h[T]
  BY <1>8, SumSame
<1> QED
  BY <1>1, <1>4, <1>5, <1>7, <1>8, <1>9

(***************************************************************************)
(* FlattenSeq.                                                             *)
(***************************************************************************)

FlatBody(seqs, f) == [i \in 1 .. Len(seqs) |-> IF i = 1 THEN seqs[i] ELSE f[i - 1] \o seqs[i]]

LEMMA FlattenUnfolds ==
    \A seqs : FlattenSeq(seqs) =
        IF Len(seqs) = 0 THEN seqs ELSE (CHOOSE f : f = FlatBody(seqs, f))[Len(seqs)]
  BY Zenon DEF FlattenSeq, FlatBody

IsFlat(seqs, f) ==
    \A i \in 1 .. Len(seqs) : f[i] = IF i = 1 THEN seqs[i] ELSE f[i - 1] \o seqs[i]

LEMMA FlatExists ==
    ASSUME NEW X, NEW seqs \in Seq(Seq(X))
    PROVE  \E f : f = FlatBody(seqs, f)
<1> DEFINE Upto(n, f) == \A i \in 1 .. Len(seqs) : i <= n =>
                             f[i] = IF i = 1 THEN seqs[i] ELSE f[i - 1] \o seqs[i]
           P == {n \in Nat : \E f \in [1 .. Len(seqs) -> Seq(X)] : Upto(n, f)}
<1>0. Len(seqs) \in Nat /\ \A i \in 1 .. Len(seqs) : seqs[i] \in Seq(X)
  OBVIOUS
<1>1. 0 \in P
  <2>1. PICK f \in [1 .. Len(seqs) -> Seq(X)] : f = [i \in 1 .. Len(seqs) |-> seqs[i]]
    BY <1>0
  <2>2. Upto(0, f)
    OBVIOUS
  <2> HIDE DEF Upto
  <2> QED
    BY <2>2
<1>2. ASSUME NEW n \in P PROVE n + 1 \in P
  <2>1. n \in Nat /\ \E f \in [1 .. Len(seqs) -> Seq(X)] : Upto(n, f)
    BY <1>2
  <2>2. PICK f \in [1 .. Len(seqs) -> Seq(X)] : Upto(n, f)
    BY <2>1
  <2>3. PICK g : g = [i \in 1 .. Len(seqs) |->
                         IF i = n + 1 /\ i # 1 THEN f[i - 1] \o seqs[i]
                         ELSE IF i = 1 THEN seqs[i] ELSE f[i]]
    OBVIOUS
  <2>4. g \in [1 .. Len(seqs) -> Seq(X)]
    <3>1. ASSUME NEW i \in 1 .. Len(seqs) PROVE g[i] \in Seq(X)
      <4>1. seqs[i] \in Seq(X) /\ f[i] \in Seq(X)
        BY <1>0
      <4>2. ASSUME i # 1 PROVE f[i - 1] \in Seq(X)
        <5>1. i - 1 \in 1 .. Len(seqs)
          BY <1>0, <4>2
        <5> QED
          BY <5>1
      <4>3. f[i - 1] \o seqs[i] \in Seq(X) \/ i = 1
        <5>1. \A a, b \in Seq(X) : a \o b \in Seq(X)
          OBVIOUS
        <5> QED
          BY <4>1, <4>2, <5>1
      <4> QED
        BY <2>3, <4>1, <4>3
    <3> QED
      BY <2>3, <3>1
  <2>5. Upto(n + 1, g)
    <3> SUFFICES ASSUME NEW i \in 1 .. Len(seqs), i <= n + 1
                 PROVE  g[i] = IF i = 1 THEN seqs[i] ELSE g[i - 1] \o seqs[i]
      OBVIOUS
    <3>1. CASE i = 1
      BY <2>3, <3>1
    <3>2. CASE i # 1
      <4>1. i - 1 \in 1 .. Len(seqs) /\ i - 1 <= n /\ i - 1 # n + 1
        BY <1>0, <2>1, <3>2
      <4>2. g[i - 1] = f[i - 1]
        BY <2>2, <2>3, <4>1
      <4>3. g[i] = f[i - 1] \o seqs[i]
        <5>1. CASE i = n + 1
          BY <2>3, <3>2, <5>1
        <5>2. CASE i # n + 1
          <6>1. i <= n
            BY <2>1, <5>2
          <6> QED
            BY <2>2, <2>3, <3>2, <5>2, <6>1
        <5> QED
          BY <5>1, <5>2
      <4> QED
        BY <3>2, <4>2, <4>3
    <3> QED
      BY <3>1, <3>2
  <2>6. \E g_1 \in [1 .. Len(seqs) -> Seq(X)] : Upto(n + 1, g_1)
    <3> HIDE DEF Upto
    <3> QED
      BY <2>4, <2>5
  <2> HIDE DEF Upto
  <2> QED
    BY <2>1, <2>6
<1>3. \A n \in Nat : n \in P
  <2>1. P \in SUBSET Nat
    OBVIOUS
  <2> HIDE DEF P
  <2> QED
    BY <1>1, <1>2, <2>1, Induction
<1>4. PICK f \in [1 .. Len(seqs) -> Seq(X)] : Upto(Len(seqs), f)
  BY <1>0, <1>3
<1>5. f = FlatBody(seqs, f)
  <2>1. \A i \in 1 .. Len(seqs) : i <= Len(seqs)
    BY <1>0
  <2>2. \A i \in 1 .. Len(seqs) : f[i] = IF i = 1 THEN seqs[i] ELSE f[i - 1] \o seqs[i]
    BY <1>4, <2>1
  <2>3. f = [i \in 1 .. Len(seqs) |-> f[i]]
    OBVIOUS
  <2>4. f = [i \in 1 .. Len(seqs) |-> IF i = 1 THEN seqs[i] ELSE f[i - 1] \o seqs[i]]
    BY <2>2, <2>3, Zenon
  <2> QED
    BY <2>4 DEF FlatBody
<1> QED
  BY <1>5

LEMMA FlattenIsFlat ==
    ASSUME NEW X, NEW seqs \in Seq(Seq(X)), Len(seqs) # 0
    PROVE  \E f : IsFlat(seqs, f) /\ FlattenSeq(seqs) = f[Len(seqs)]
<1>1. PICK f : f = FlatBody(seqs, f)
  BY FlatExists
<1>2. PICK h : h = (CHOOSE g : g = FlatBody(seqs, g))
  OBVIOUS
<1>3. h = FlatBody(seqs, h)
  BY <1>1, <1>2, Zenon
<1>4. IsFlat(seqs, h)
  BY <1>3 DEF FlatBody, IsFlat
<1>5. FlattenSeq(seqs) = h[Len(seqs)]
  BY <1>2, FlattenUnfolds
<1> QED
  BY <1>4, <1>5

\* What one sequence more adds.
LEMMA FlattenAppends ==
    ASSUME NEW X, NEW seqs \in Seq(Seq(X)), NEW s \in Seq(X)
    PROVE  /\ Len(seqs) = 0 => FlattenSeq(Append(seqs, s)) = s
           /\ Len(seqs) # 0 => FlattenSeq(Append(seqs, s)) = FlattenSeq(seqs) \o s
<1>0. Append(seqs, s) \in Seq(Seq(X))
  OBVIOUS
<1>1. PICK t \in Seq(Seq(X)) : t = Append(seqs, s)
  BY <1>0
<1>2. PICK n : n = Len(seqs)
  OBVIOUS
<1>3. /\ n \in Nat /\ Len(t) = n + 1 /\ t[n + 1] = s /\ n + 1 \in 1 .. Len(t) /\ Len(t) # 0
      /\ \A i \in 1 .. n : t[i] = seqs[i] /\ i \in 1 .. Len(t)
  BY <1>1, <1>2
<1>4. PICK h : IsFlat(t, h) /\ FlattenSeq(t) = h[n + 1]
  BY <1>3, FlattenIsFlat
<1>5. CASE n = 0
  BY <1>1, <1>2, <1>3, <1>4, <1>5 DEF IsFlat
<1>6. CASE n # 0
  <2>1. PICK f : IsFlat(seqs, f) /\ FlattenSeq(seqs) = f[n]
    BY <1>2, <1>6, FlattenIsFlat
  <2>2. \A i \in 1 .. n : f[i] = h[i]
    <3> DEFINE P == {i \in Nat : i \in 1 .. n => f[i] = h[i]}
    <3>1. 0 \in P
      OBVIOUS
    <3>2. ASSUME NEW i \in P PROVE i + 1 \in P
      <4>1. i \in Nat /\ (i \in 1 .. n => f[i] = h[i])
        BY <3>2
      <4>2. ASSUME i + 1 \in 1 .. n PROVE f[i + 1] = h[i + 1]
        <5>1. t[i + 1] = seqs[i + 1] /\ i + 1 \in 1 .. Len(t) /\ i + 1 \in 1 .. Len(seqs)
          BY <1>2, <1>3, <4>2
        <5>2. /\ f[i + 1] = IF i + 1 = 1 THEN seqs[i + 1] ELSE f[(i + 1) - 1] \o seqs[i + 1]
              /\ h[i + 1] = IF i + 1 = 1 THEN t[i + 1] ELSE h[(i + 1) - 1] \o t[i + 1]
          BY <1>4, <2>1, <5>1 DEF IsFlat
        <5>3. (i + 1) - 1 = i /\ (i + 1 = 1 \/ i \in 1 .. n)
          BY <1>3, <4>1, <4>2
        <5> QED
          BY <4>1, <5>1, <5>2, <5>3
      <4> QED
        BY <4>1, <4>2
    <3>3. \A i \in Nat : i \in P
      <4>1. P \in SUBSET Nat
        OBVIOUS
      <4> HIDE DEF P
      <4> QED
        BY <3>1, <3>2, <4>1, Induction
    <3> QED
      BY <3>3
  <2>3. n \in 1 .. n /\ n + 1 # 1 /\ (n + 1) - 1 = n
    BY <1>3, <1>6
  <2>4. h[n + 1] = h[n] \o s
    <3>1. h[n + 1] = IF n + 1 = 1 THEN t[n + 1] ELSE h[(n + 1) - 1] \o t[n + 1]
      BY <1>3, <1>4 DEF IsFlat
    <3> QED
      BY <1>3, <2>3, <3>1
  <2> QED
    BY <1>1, <1>2, <1>4, <1>6, <2>1, <2>2, <2>3, <2>4
<1> QED
  BY <1>5, <1>6

(***************************************************************************)
(* What the operators of the model yield.                                   *)
(***************************************************************************)

LEMMA FramesPositive ==
    \A bytes \in Nat : EstimatedFrames(bytes) \in Nat /\ EstimatedFrames(bytes) >= 1
<1> SUFFICES ASSUME NEW bytes \in Nat
             PROVE  EstimatedFrames(bytes) \in Nat /\ EstimatedFrames(bytes) >= 1
  OBVIOUS
<1>1. PICK n \in Nat : n = bytes \div 1024
  OBVIOUS
<1>2. \E x \in {n, 1} : \A y \in {n, 1} : x >= y
  OBVIOUS
<1>3. Max({n, 1}) \in {n, 1} /\ \A y \in {n, 1} : Max({n, 1}) >= y
  BY <1>2, Zenon DEF Max
<1> QED
  BY <1>1, <1>3 DEF EstimatedFrames

LEMMA BufferSizes == \A chunks : BufferSize(chunks) = SizeOf(size, chunks)
  BY DEF BufferSize, SizeOf

Errors == [error_type : ErrorTypes, recovery_attempted : BOOLEAN]

SegmentsOf(n) == [chunks : Seq(1 .. n), segment_id : Nat,
                  timestamp : Nat, start_frame : Nat, end_frame : Nat]

LEMMA ErrorRecorded ==
    ASSUME NEW log \in Seq(Errors), NEW type \in ErrorTypes
    PROVE  /\ Recorded(log, type) \in Seq(Errors)
           /\ \A i \in DOMAIN Recorded(log, type) :
                 Recorded(log, type)[i].error_type = type \/ (i \in DOMAIN log /\ Recorded(log, type)[i] = log[i])
<1>1. PICK e \in Errors : e = [error_type |-> type, recovery_attempted |-> FALSE]
  BY DEF Errors
<1>2. e.error_type = type
  BY <1>1
<1>3. PICK n, r : n = Len(log) /\ r = Append(log, e)
  OBVIOUS
<1>4. /\ r \in Seq(Errors) /\ DOMAIN r = 1 .. n + 1 /\ DOMAIN log = 1 .. n /\ n \in Nat
      /\ r[n + 1] = e /\ \A i \in 1 .. n : r[i] = log[i]
  BY <1>3
<1>5. \A i \in 1 .. n + 1 : i \in 1 .. n \/ i = n + 1
  BY <1>4
<1>6. \A i \in DOMAIN r : r[i].error_type = type \/ (i \in DOMAIN log /\ r[i] = log[i])
  BY <1>2, <1>4, <1>5
<1>7. Recorded(log, type) = r
  BY <1>1, <1>3 DEF Recorded
<1> QED
  BY <1>4, <1>6, <1>7

LEMMA ErrorMarked ==
    ASSUME NEW log \in Seq(Errors), NEW i
    PROVE  /\ [log EXCEPT ![i].recovery_attempted = TRUE] \in Seq(Errors)
           /\ DOMAIN [log EXCEPT ![i].recovery_attempted = TRUE] = DOMAIN log
           /\ \A j \in DOMAIN log :
                 [log EXCEPT ![i].recovery_attempted = TRUE][j].error_type = log[j].error_type
<1>1. DOMAIN log = 1 .. Len(log) /\ Len(log) \in Nat /\ \A j \in DOMAIN log : log[j] \in Errors
  OBVIOUS
<1>2. PICK m : m = [log EXCEPT ![i].recovery_attempted = TRUE]
  OBVIOUS
<1>3. DOMAIN m = DOMAIN log /\ m = [j \in DOMAIN m |-> m[j]]
  BY <1>2
<1>4. ASSUME NEW j \in DOMAIN log PROVE m[j] \in Errors /\ m[j].error_type = log[j].error_type
  <2>1. log[j] \in Errors
    BY <1>1
  <2>2. CASE i = j
    <3>1. m[j] = [log[j] EXCEPT !.recovery_attempted = TRUE]
      BY <1>2, <2>2
    <3> QED
      BY <2>1, <3>1 DEF Errors
  <2>3. CASE i # j
    BY <1>2, <2>1, <2>3
  <2> QED
    BY <2>2, <2>3
<1>5. m \in [1 .. Len(log) -> Errors]
  BY <1>1, <1>3, <1>4
<1> QED
  BY <1>1, <1>2, <1>3, <1>4, <1>5

\* More chunks, the same ones among them.
LEMMA ChunksGrow ==
    ASSUME NEW n \in Nat, NEW m \in Nat, n <= m
    PROVE  Seq(1 .. n) \subseteq Seq(1 .. m) /\ Seq(SegmentsOf(n)) \subseteq Seq(SegmentsOf(m))
<1>1. 1 .. n \subseteq 1 .. m
  OBVIOUS
<1>2. Seq(1 .. n) \subseteq Seq(1 .. m)
  <2> SUFFICES ASSUME NEW s \in Seq(1 .. n) PROVE s \in Seq(1 .. m)
    OBVIOUS
  <2> QED
    BY <1>1
<1>3. SegmentsOf(n) \subseteq SegmentsOf(m)
  BY <1>2 DEF SegmentsOf
<1>4. ASSUME NEW s \in Seq(SegmentsOf(n)) PROVE s \in Seq(SegmentsOf(m))
  BY <1>3
<1> QED
  BY <1>2, <1>4

LEMMA SizesAreNats == ASSUME NEW s \in Seq(Sizes) PROVE s \in Seq(Nat)
<1>1. \A b \in Sizes : b \in Nat
  BY SegmenterOK
<1>2. Len(s) \in Nat /\ s \in [1 .. Len(s) -> Nat]
  BY <1>1
<1> QED
  BY <1>2

\* The error to recover from is one of the log.
LEMMA ErrorFound ==
    ASSUME error_log \in Seq(Errors), NeedsRecovery
    PROVE  SelectInSeq(error_log, LAMBDA e : ~e.recovery_attempted) \in DOMAIN error_log
<1>1. PICK n : n = Len(error_log)
  OBVIOUS
<1>2. n \in Nat /\ DOMAIN error_log = 1 .. n
  BY <1>1
<1>3. PICK I : I = {i \in 1 .. n : ~error_log[i].recovery_attempted}
  OBVIOUS
<1>4. I # {}
  <2> SUFFICES ASSUME I = {} PROVE FALSE
    OBVIOUS
  <2>1. {i \in 1 .. n : i > n - 5 /\ ~error_log[i].recovery_attempted} = {}
    BY <1>3
  <2>2. Cardinality({}) > 2
    BY <1>1, <2>1 DEF NeedsRecovery
  <2>3. Cardinality({}) = 0
    BY FS_EmptySet
  <2> QED
    BY <2>2, <2>3
<1>5. \E i \in I : \A j \in I : i <= j
  <2>1. I \in SUBSET Nat
    BY <1>2, <1>3
  <2>2. PICK m \in I : \A k \in Nat : k < m => k \notin I
    BY <1>4, <2>1, Least
  <2> QED
    BY <2>1, <2>2
<1>6. SelectInSeq(error_log, LAMBDA e : ~e.recovery_attempted)
        = (IF I # {} THEN CHOOSE i \in I : \A j \in I : i <= j ELSE 0)
  <2>1. SelectInSeq(error_log, LAMBDA e : ~e.recovery_attempted)
          = (IF {i \in 1 .. Len(error_log) : ~error_log[i].recovery_attempted} # {}
             THEN Min({i \in 1 .. Len(error_log) : ~error_log[i].recovery_attempted}) ELSE 0)
    BY DEF SelectInSeq
  <2>2. Min(I) = CHOOSE i \in I : \A j \in I : i <= j
    BY DEF Min
  <2> QED
    BY <1>1, <1>3, <2>1, <2>2, Zenon
<1> QED
  BY <1>2, <1>3, <1>4, <1>5, <1>6

(***************************************************************************)
(* What a step does to the buffer, the counters and the segments.           *)
(***************************************************************************)

Bytes == SizeOf(size, buffer)

Overflowed(log) == \E i \in DOMAIN log : log[i].error_type = "BufferOverflow"

\* What explains a loss.
Overfull == resumes > 0 \/ \E c \in DOMAIN size : Oversized(c)

Control ==
    /\ at \in {"new", "recover", "create", "input", "ready", "ended"}
    /\ error_log \in Seq(Errors)
    /\ recovery_mode \in BOOLEAN
    /\ target_size \in Nat \cup {None}
    /\ checkpoint # None => checkpoint.error_log \in Seq(Errors)
    /\ input \in {"open", "over"}
    /\ adjusts \in Nat /\ resumes \in Nat /\ adjusts + resumes \in 0 .. MaxCalls
    /\ stale \in BOOLEAN

Data ==
    /\ size \in Seq(Sizes)
    /\ buffer \in Seq(1 .. Len(size))
    /\ counters \in Counters
    /\ checkpoint # None => checkpoint.counters \in Counters
    /\ segments \in Seq(SegmentsOf(Len(size)))
    /\ lost \subseteq 1 .. Len(size)

\* The time is never after the frames counted, and there are frames counted for
\* what the buffer holds.
FrameInv ==
    /\ counters.current_timestamp <= counters.frame_counter
    /\ buffer # <<>> =>
          counters.current_timestamp + EstimatedFrames(Bytes) <= counters.frame_counter
    /\ checkpoint # None =>
          checkpoint.counters.current_timestamp <= checkpoint.counters.frame_counter

\* An overflow is logged, the buffer is too large and a chunk is lost only after a
\* chunk that was; the buffer is less than a segment when a chunk is taken.
OverflowInv ==
    /\ Overflowed(error_log) => Overfull
    /\ TooLarge(Bytes) => Overfull
    /\ lost # {} => Overfull
    /\ at = "input" => Bytes < SegmentSize
    /\ at = "ended" => buffer = <<>>

Base == Control /\ Data /\ FrameInv /\ OverflowInv

Waits ==
    /\ UNCHANGED <<buffer, counters, segments, size, lost, checkpoint, stale>>
    /\ \/ Phase' = Phase
       \/ Phase = "waiting" /\ Phase' = "open"
       \/ Phase = "open" /\ Phase' = "closed"

Saves ==
    /\ UNCHANGED <<at, buffer, counters, segments, size, lost, stale>>
    /\ checkpoint' = [counters |-> counters, error_log |-> error_log]

Clears ==
    /\ Overfull
    /\ buffer' = <<>>
    /\ lost' = lost \cup ToSet(buffer)
    /\ Phase' = Phase
    /\ UNCHANGED <<counters, segments, size, checkpoint, stale>>

Resumes ==
    /\ checkpoint # None
    /\ buffer' = <<>>
    /\ lost' = lost \cup ToSet(buffer)
    /\ counters' = checkpoint.counters
    /\ stale' = (stale \/ checkpoint.counters.segment_counter # counters.segment_counter)
    /\ UNCHANGED <<at, segments, size, checkpoint>>

Polling == at \notin {"new", "ended"} /\ at' \notin {"new", "ended"}

Skips ==
    /\ Polling
    /\ 0 \in Sizes
    /\ size' = Append(size, 0)
    /\ UNCHANGED <<buffer, counters, segments, lost, checkpoint, stale>>

Frames(bytes) == counters.frame_counter + EstimatedFrames(Bytes + bytes)

Grows == \E bytes \in Sizes \ {0} :
    /\ at = "input" /\ Polling
    /\ size' = Append(size, bytes)
    /\ buffer' = Append(buffer, Chunk)
    /\ counters' = [counters EXCEPT !.frame_counter = Frames(bytes)]
    /\ UNCHANGED <<segments, lost, checkpoint, stale>>

\* The buffer as a segment; without a chunk that is dropped, or with one.
Outputs ==
    /\ Polling
    /\ buffer # <<>> /\ ~TooLarge(Bytes)
    /\ CreateCurrentSegment(buffer, Bytes, counters.frame_counter)
    /\ \/ UNCHANGED <<size, lost>>
       \/ \E bytes \in Sizes \ {0} :
             /\ bytes > SegmentLimit - SegmentSize
             /\ size' = Append(size, bytes) /\ lost' = lost \cup {Chunk}
    /\ UNCHANGED <<checkpoint, stale>>

\* The buffer with the chunk as a segment.
OutputsAll == \E bytes \in Sizes \ {0} :
    /\ Polling
    /\ ~TooLarge(Bytes + bytes)
    /\ size' = Append(size, bytes)
    /\ CreateCurrentSegment(Append(buffer, Chunk), Bytes + bytes, Frames(bytes))
    /\ UNCHANGED <<lost, checkpoint, stale>>

Change == Waits \/ Saves \/ Clears \/ Resumes \/ Skips \/ Grows \/ Outputs \/ OutputsAll

LEMMA SizesNat ==
    ASSUME Data
    PROVE  /\ size \in Seq(Nat) /\ Len(size) \in Nat /\ Bytes \in Nat
           /\ DOMAIN size = 1 .. Len(size) /\ \A c \in DOMAIN size : size[c] \in Nat
           /\ BufferSize(buffer) = Bytes
<1>1. size \in Seq(Nat) /\ Len(size) \in Nat
  BY SizesAreNats DEF Data
<1> QED
  BY <1>1, SizeIsNat, BufferSizes DEF Data, Bytes

\* A buffer with bytes in it is not empty.
LEMMA BytesOfNothing ==
    ASSUME Data, Bytes # 0
    PROVE  buffer # <<>>
  BY SizesNat, SizeOfNothing DEF Bytes

LEMMA RecoverChange ==
    ASSUME Base, RecoverStep
    PROVE  Change
<1>1. at = "recover" /\ at' = "create" /\ Phase' = Phase
  BY DEF RecoverStep, Phase
<1>2. /\ counters' = counters /\ segments' = segments /\ size' = size
      /\ checkpoint' = checkpoint /\ stale' = stale
  BY DEF RecoverStep, ownerUnchanged
<1>3. CASE buffer' = buffer /\ lost' = lost
  BY <1>1, <1>2, <1>3 DEF Change, Waits
<1>4. CASE NeedsRecovery /\ AttemptRecovery /\ ~(buffer' = buffer /\ lost' = lost)
  <2>1. PICK i : i = SelectInSeq(error_log, LAMBDA e : ~e.recovery_attempted)
    OBVIOUS
  <2>2. i \in DOMAIN error_log
    BY <1>4, <2>1, ErrorFound DEF Base, Control
  <2>3. /\ error_log[i].error_type = "BufferOverflow"
        /\ buffer' = <<>> /\ lost' = lost \cup ToSet(buffer)
    BY <1>4, <2>1 DEF AttemptRecovery
  <2>4. Overfull
    BY <2>2, <2>3 DEF Base, OverflowInv, Overflowed
  <2> QED
    BY <1>1, <1>2, <2>3, <2>4 DEF Change, Clears
<1> QED
  BY <1>3, <1>4 DEF RecoverStep

LEMMA CreateChange ==
    ASSUME Base, CreateStep
    PROVE  Change
<1>1. /\ at = "create" /\ size' = size /\ lost' = lost /\ checkpoint' = checkpoint /\ stale' = stale
  BY DEF CreateStep, ownerUnchanged
<1>2. BufferSize(buffer) = Bytes /\ Bytes \in Nat /\ SegmentSize = 524288
  BY SizesNat DEF Base, SegmentSize
<1>3. CASE at' = "input" /\ UNCHANGED <<stream, segments>>
  BY <1>1, <1>3 DEF stream, Change, Waits, Phase
<1>4. CASE Bytes >= SegmentSize /\ CreateOrFail(buffer, Bytes, counters.frame_counter, error_log)
  <2>1. buffer # <<>>
    BY <1>2, <1>4, BytesOfNothing DEF Base
  <2>2. CASE ~TooLarge(Bytes) /\ CreateCurrentSegment(buffer, Bytes, counters.frame_counter)
    <3>1. Polling
      BY <1>1, <2>2 DEF CreateCurrentSegment, Polling
    <3> QED
      BY <1>1, <2>1, <2>2, <3>1 DEF Change, Outputs
  <2>3. CASE /\ CreationFails(error_log)
             /\ buffer' = buffer
             /\ counters' = [counters EXCEPT !.frame_counter = counters.frame_counter]
    <3>1. counters' = counters
      BY <2>3 DEF Base, Data, Counters
    <3>2. segments' = segments /\ Phase' = Phase
      BY <1>1, <2>3 DEF CreationFails, Phase
    <3> QED
      BY <1>1, <2>3, <3>1, <3>2 DEF Change, Waits
  <2> QED
    BY <1>4, <2>2, <2>3 DEF CreateOrFail
<1> QED
  BY <1>2, <1>3, <1>4 DEF CreateStep

LEMMA EndChange ==
    ASSUME Base, EndOfInput
    PROVE  Change
<1>1. /\ at = "input" /\ size' = size /\ lost' = lost /\ checkpoint' = checkpoint /\ stale' = stale
  BY DEF EndOfInput, ownerUnchanged
<1>2. /\ BufferSize(buffer) = Bytes /\ Bytes \in Nat /\ Bytes < SegmentSize
      /\ SegmentSize = 524288 /\ SegmentLimit = 5242880
  BY <1>1, SizesNat DEF Base, OverflowInv, SegmentSize, SegmentLimit
<1>3. ~TooLarge(Bytes)
  BY <1>2 DEF TooLarge
<1>4. CASE buffer = <<>> /\ at' = "ended" /\ UNCHANGED <<stream, segments>>
  BY <1>1, <1>4 DEF stream, Change, Waits, Phase
<1>5. CASE buffer # <<>> /\ CreateOrFail(buffer, Bytes, counters.frame_counter, error_log)
  <2>1. CreateCurrentSegment(buffer, Bytes, counters.frame_counter)
    BY <1>3, <1>5 DEF CreateOrFail
  <2>2. Polling
    BY <1>1, <2>1 DEF CreateCurrentSegment, Polling
  <2> QED
    BY <1>1, <1>3, <1>5, <2>1, <2>2 DEF Change, Outputs
<1> QED
  BY <1>2, <1>4, <1>5 DEF EndOfInput

LEMMA DropChange ==
    ASSUME Base, DropChunk
    PROVE  Change
<1>1. PICK bytes \in Sizes :
          /\ Overflows(bytes) /\ buffer # <<>>
          /\ Take(bytes)
          /\ CreateCurrentSegment(buffer, BufferSize(buffer), counters.frame_counter)
          /\ lost' = lost \cup {Chunk}
  BY DEF DropChunk
<1>2. /\ at = "input" /\ size' = Append(size, bytes) /\ checkpoint' = checkpoint /\ stale' = stale
  BY <1>1 DEF Take, ownerUnchanged
<1>3. /\ BufferSize(buffer) = Bytes /\ Bytes \in Nat /\ Bytes < SegmentSize /\ bytes \in Nat
      /\ SegmentSize = 524288 /\ SegmentLimit = 5242880 /\ BufferLimit = 52428800
  BY <1>2, SizesNat, SegmenterOK DEF Base, OverflowInv, SegmentSize, SegmentLimit, BufferLimit
<1>4. ~TooLarge(Bytes) /\ bytes # 0 /\ bytes > SegmentLimit - SegmentSize
  BY <1>1, <1>3 DEF TooLarge, Overflows
<1>5. Polling
  BY <1>1, <1>2 DEF CreateCurrentSegment, Polling
<1> QED
  BY <1>1, <1>2, <1>3, <1>4, <1>5 DEF Change, Outputs

LEMMA AppendChange ==
    ASSUME Base, AppendChunk
    PROVE  Change
<1>0. BufferSize(buffer) = Bytes
  BY SizesNat DEF Base
<1>1. PICK bytes \in Sizes \ {0} :
          /\ Take(bytes)
          /\ \E log :
                \/ /\ buffer' = Append(buffer, Chunk)
                   /\ counters' = [counters EXCEPT !.frame_counter = Frames(bytes)]
                   /\ at' = "recover"
                   /\ UNCHANGED <<recovery_mode, segments>>
                \/ CreateOrFail(Append(buffer, Chunk), Bytes + bytes, Frames(bytes), log)
          /\ UNCHANGED lost
  BY <1>0 DEF AppendChunk, Frames
<1>2. /\ at = "input" /\ size' = Append(size, bytes) /\ checkpoint' = checkpoint /\ stale' = stale
  BY <1>1 DEF Take, ownerUnchanged
<1>3. CASE /\ buffer' = Append(buffer, Chunk) /\ segments' = segments
           /\ counters' = [counters EXCEPT !.frame_counter = Frames(bytes)]
           /\ at' \in {"recover", "ready"}
  BY <1>1, <1>2, <1>3 DEF Change, Grows, Polling
<1>4. CASE ~TooLarge(Bytes + bytes) /\ CreateCurrentSegment(Append(buffer, Chunk), Bytes + bytes, Frames(bytes))
  <2>1. Polling
    BY <1>2, <1>4 DEF CreateCurrentSegment, Polling
  <2> QED
    BY <1>1, <1>2, <1>4, <2>1 DEF Change, OutputsAll
<1> QED
  BY <1>1, <1>3, <1>4 DEF CreateOrFail, CreationFails

LEMMA StepChange ==
    ASSUME Base, [Next]_vars
    PROVE  Change
<1>1. CASE UNCHANGED vars
  BY <1>1 DEF vars, stream, Change, Waits, Phase
<1>2. CASE Poll \/ AdjustForNetworkConditions \/ Pending
  BY <1>2 DEF Poll, AdjustForNetworkConditions, Pending, BetweenPolls, stream, ownerUnchanged, Change, Waits, Phase
<1>3. CASE SaveCheckpoint
  BY <1>3 DEF SaveCheckpoint, stream, Change, Saves
<1>4. CASE Resume
  BY <1>4 DEF Resume, Change, Resumes
<1>5. CASE EmptyChunk
  BY <1>5 DEF EmptyChunk, Take, ownerUnchanged, Change, Skips, Polling
<1> QED
  BY <1>1, <1>2, <1>3, <1>4, <1>5, RecoverChange, CreateChange, EndChange, DropChange, AppendChange
  DEF Next, InputStep

(***************************************************************************)
(* Every step preserves Base.                                               *)
(***************************************************************************)

\* A chunk more, in the buffer or not.
LEMMA SizeOfMore ==
    ASSUME NEW z \in Seq(Nat), NEW s \in Seq(1 .. Len(z)), NEW b \in Nat
    PROVE  /\ Append(z, b) \in Seq(Nat) /\ Len(Append(z, b)) = Len(z) + 1
           /\ SizeOf(Append(z, b), s) = SizeOf(z, s)
           /\ SizeOf(Append(z, b), Append(s, Len(z) + 1)) = SizeOf(z, s) + b
<1>1. PICK y, n : y = Append(z, b) /\ n = Len(z) + 1
  OBVIOUS
<1>2. y \in Seq(Nat) /\ Len(y) = n /\ y[n] = b /\ n \in 1 .. Len(y) /\ Len(z) \in Nat
  BY <1>1
<1>3. s \in Seq(1 .. Len(y))
  BY <1>1, <1>2, ChunksGrow
<1>4. SizeOf(y, s) = SizeOf(z, s)
  BY <1>1, SizeKept
<1>5. SizeOf(y, Append(s, n)) = SizeOf(y, s) + y[n]
  BY <1>2, <1>3, SizeAppends
<1> QED
  BY <1>1, <1>2, <1>4, <1>5

LEMMA OverfullKept ==
    ASSUME Base, [Next]_vars, Overfull
    PROVE  Overfull'
<1>1. resumes' \in Nat /\ resumes' >= resumes
  <2>1. resumes' = resumes \/ resumes' = resumes + 1
    BY DEF Next, Poll, AdjustForNetworkConditions, SaveCheckpoint, Resume, RecoverStep, CreateStep,
           Pending, InputStep, EmptyChunk, DropChunk, AppendChunk, EndOfInput, Take, ownerUnchanged, vars
  <2> QED
    BY <2>1 DEF Base, Control
<1>2. size' = size \/ \E bytes \in Sizes : size' = Append(size, bytes)
  BY StepChange DEF Change, Waits, Saves, Clears, Resumes, Skips, Grows, Outputs, OutputsAll
<1>3. \A c \in DOMAIN size : c \in DOMAIN size' /\ size'[c] = size[c]
  <2>1. ASSUME NEW bytes \in Sizes, size' = Append(size, bytes)
        PROVE  \A c \in DOMAIN size : c \in DOMAIN size' /\ size'[c] = size[c]
    BY <2>1 DEF Base, Data
  <2> QED
    BY <1>2, <2>1
<1> QED
  BY <1>1, <1>3 DEF Overfull, Oversized, Base, Control

\* A chunk that is too large explains what is lost.
LEMMA OverfullByChunk ==
    ASSUME Base, NEW bytes \in Sizes, bytes > SegmentLimit - SegmentSize, size' = Append(size, bytes)
    PROVE  Overfull'
<1>1. Len(size) + 1 \in DOMAIN size' /\ size'[Len(size) + 1] = bytes
  BY DEF Base, Data
<1> QED
  BY <1>1 DEF Overfull, Oversized

LEMMA DataKept ==
    ASSUME Base, Change
    PROVE  Data'
<1>0. /\ size \in Seq(Nat) /\ Len(size) \in Nat /\ Bytes \in Nat
      /\ size \in Seq(Sizes) /\ Sizes \subseteq Nat
      /\ buffer \in Seq(1 .. Len(size)) /\ segments \in Seq(SegmentsOf(Len(size)))
      /\ lost \subseteq 1 .. Len(size)
      /\ counters \in Counters /\ (checkpoint # None => checkpoint.counters \in Counters)
  BY SizesNat, SegmenterOK DEF Base, Data
<1>1. CASE Waits
  BY <1>0, <1>1 DEF Waits, Data
<1>2. CASE Saves
  BY <1>0, <1>2 DEF Saves, Data
<1>3. CASE Clears \/ Resumes
  <2>1. ToSet(buffer) \subseteq 1 .. Len(size)
    BY <1>0 DEF ToSet
  <2>2. <<>> \in Seq(1 .. Len(size))
    OBVIOUS
  <2> QED
    BY <1>0, <1>3, <2>1, <2>2 DEF Clears, Resumes, Data
<1>4. ASSUME NEW bytes \in Sizes, size' = Append(size, bytes)
      PROVE  /\ size' \in Seq(Sizes) /\ Len(size') = Len(size) + 1
             /\ buffer \in Seq(1 .. Len(size')) /\ Append(buffer, Chunk) \in Seq(1 .. Len(size'))
             /\ segments \in Seq(SegmentsOf(Len(size')))
             /\ lost \cup {Chunk} \subseteq 1 .. Len(size')
  <2>1. size' \in Seq(Sizes) /\ Len(size') = Len(size) + 1
    BY <1>0, <1>4
  <2>2. PICK n \in Nat : n = Len(size) + 1
    BY <1>0
  <2>3. buffer \in Seq(1 .. n) /\ segments \in Seq(SegmentsOf(n)) /\ n \in 1 .. n
    BY <1>0, <2>2, ChunksGrow
  <2>4. Append(buffer, n) \in Seq(1 .. n)
    BY <2>3
  <2>5. lost \cup {n} \subseteq 1 .. n
    <3>1. 1 .. Len(size) \subseteq 1 .. n /\ n \in 1 .. n
      BY <1>0, <2>2
    <3> QED
      BY <1>0, <3>1
  <2> QED
    BY <2>1, <2>2, <2>3, <2>4, <2>5 DEF Chunk
<1>5. CASE Skips
  BY <1>0, <1>4, <1>5 DEF Skips, Data
<1>6. CASE Grows
  <2>1. PICK bytes \in Sizes \ {0} :
            /\ size' = Append(size, bytes)
            /\ buffer' = Append(buffer, Chunk)
            /\ counters' = [counters EXCEPT !.frame_counter = Frames(bytes)]
            /\ UNCHANGED <<segments, lost, checkpoint, stale>>
    BY <1>6 DEF Grows
  <2>4. Bytes + bytes \in Nat /\ counters.frame_counter \in Nat
    BY <1>0 DEF Counters
  <2>5. EstimatedFrames(Bytes + bytes) \in Nat
    BY <2>4, FramesPositive
  <2>2. PICK f \in Nat : f = Frames(bytes)
    BY <2>4, <2>5 DEF Frames
  <2>3. counters' \in Counters
    BY <1>0, <2>1, <2>2 DEF Counters
  <2> QED
    BY <1>0, <1>4, <2>1, <2>3 DEF Data
<1>7. ASSUME NEW chunks, NEW bytes \in Nat, NEW f \in Nat, chunks \in Seq(1 .. Len(size')),
             segments \in Seq(SegmentsOf(Len(size'))), Len(size') \in Nat,
             CreateCurrentSegment(chunks, bytes, f), f >= EstimatedFrames(bytes)
      PROVE  /\ segments' \in Seq(SegmentsOf(Len(size')))
             /\ buffer' \in Seq(1 .. Len(size')) /\ counters' \in Counters
  <2>1. PICK frames \in Nat : frames = EstimatedFrames(bytes)
    BY FramesPositive
  <2>2. PICK first \in Nat : first = f - frames
    BY <1>7, <2>1
  <2>3. PICK s \in SegmentsOf(Len(size')) :
            s = [chunks      |-> chunks,
                 segment_id  |-> counters.segment_counter,
                 timestamp   |-> counters.current_timestamp,
                 start_frame |-> first,
                 end_frame   |-> f]
    BY <1>0, <1>7 DEF SegmentsOf, Counters
  <2>4. segments' = Append(segments, s)
    BY <1>7, <2>1, <2>2, <2>3 DEF CreateCurrentSegment
  <2>5. counters' = [current_timestamp |-> counters.current_timestamp + frames,
                     segment_counter   |-> counters.segment_counter + 1,
                     frame_counter     |-> f]
    BY <1>7, <2>1 DEF CreateCurrentSegment
  <2>6. buffer' = <<>>
    BY <1>7 DEF CreateCurrentSegment
  <2>7. segments' \in Seq(SegmentsOf(Len(size')))
    BY <1>7, <2>3, <2>4
  <2>8. counters' \in Counters
    BY <1>0, <2>1, <2>5 DEF Counters
  <2> QED
    BY <2>6, <2>7, <2>8
<1>8. CASE Outputs
  <2>1. /\ buffer # <<>> /\ CreateCurrentSegment(buffer, Bytes, counters.frame_counter)
        /\ UNCHANGED <<checkpoint, stale>>
    BY <1>8 DEF Outputs
  <2>2. /\ counters.frame_counter \in Nat /\ EstimatedFrames(Bytes) \in Nat
        /\ counters.frame_counter >= EstimatedFrames(Bytes)
    BY <1>0, <2>1, FramesPositive DEF Base, FrameInv, Counters
  <2>3. CASE UNCHANGED <<size, lost>>
    BY <1>0, <1>7, <2>1, <2>2, <2>3 DEF Data
  <2>4. CASE \E bytes \in Sizes : size' = Append(size, bytes) /\ lost' = lost \cup {Chunk}
    <3>1. /\ size' \in Seq(Sizes) /\ Len(size') \in Nat /\ buffer \in Seq(1 .. Len(size'))
          /\ segments \in Seq(SegmentsOf(Len(size'))) /\ lost' \subseteq 1 .. Len(size')
      BY <1>0, <1>4, <2>4
    <3> QED
      BY <1>0, <1>7, <2>1, <2>2, <3>1 DEF Data
  <2> QED
    BY <1>8, <2>3, <2>4 DEF Outputs
<1>9. CASE OutputsAll
  <2>1. PICK bytes \in Sizes \ {0} :
            /\ size' = Append(size, bytes)
            /\ CreateCurrentSegment(Append(buffer, Chunk), Bytes + bytes, Frames(bytes))
            /\ UNCHANGED <<lost, checkpoint, stale>>
    BY <1>9 DEF OutputsAll
  <2>2. PICK b \in Nat : b = Bytes + bytes
    BY <1>0
  <2>3. EstimatedFrames(b) \in Nat /\ counters.frame_counter \in Nat
    BY <1>0, FramesPositive DEF Counters
  <2>4. PICK f \in Nat : f = Frames(bytes)
    BY <2>2, <2>3 DEF Frames
  <2>5. f >= EstimatedFrames(b)
    BY <2>2, <2>3, <2>4 DEF Frames
  <2>6. /\ size' \in Seq(Sizes) /\ Len(size') \in Nat /\ Append(buffer, Chunk) \in Seq(1 .. Len(size'))
        /\ segments \in Seq(SegmentsOf(Len(size'))) /\ lost \subseteq 1 .. Len(size')
    BY <1>0, <1>4, <2>1
  <2>7. /\ segments' \in Seq(SegmentsOf(Len(size')))
        /\ buffer' \in Seq(1 .. Len(size')) /\ counters' \in Counters
    BY <1>7, <2>1, <2>2, <2>4, <2>5, <2>6
  <2> QED
    BY <1>0, <2>1, <2>6, <2>7 DEF Data
<1> QED
  BY <1>1, <1>2, <1>3, <1>5, <1>6, <1>8, <1>9 DEF Change

\* The bytes in the buffer after a step.
LEMMA BytesChange ==
    ASSUME Base, Change
    PROVE  \/ buffer' = <<>> /\ Bytes' = 0
           \/ buffer' = buffer /\ Bytes' = Bytes
           \/ /\ Grows /\ buffer' # <<>>
              /\ \A bytes \in Nat : size' = Append(size, bytes) => Bytes' = Bytes + bytes
<1>0. /\ size \in Seq(Nat) /\ Len(size) \in Nat /\ Bytes \in Nat /\ Sizes \subseteq Nat
      /\ buffer \in Seq(1 .. Len(size))
  BY SizesNat, SegmenterOK DEF Base, Data
<1>1. size' \in Seq(Nat)
  <2>1. size' \in Seq(Sizes)
    BY DataKept DEF Data
  <2> QED
    BY <2>1, SizesAreNats
<1>2. CASE buffer' = <<>>
  BY <1>1, <1>2, SizeOfNothing DEF Bytes
<1>3. CASE buffer' = buffer /\ size' = size
  BY <1>3 DEF Bytes
<1>4. CASE Skips
  <2>1. 0 \in Nat /\ size' = Append(size, 0) /\ buffer' = buffer
    BY <1>4 DEF Skips
  <2>2. SizeOf(Append(size, 0), buffer) = SizeOf(size, buffer)
    BY <1>0, SizeOfMore
  <2> QED
    BY <2>1, <2>2 DEF Bytes
<1>5. CASE Grows
  <2>1. buffer' = Append(buffer, Len(size) + 1)
    BY <1>5 DEF Grows, Chunk
  <2>2. buffer' # <<>>
    BY <1>0, <2>1
  <2>3. ASSUME NEW bytes \in Nat, size' = Append(size, bytes) PROVE Bytes' = Bytes + bytes
    <3>1. SizeOf(Append(size, bytes), Append(buffer, Len(size) + 1)) = SizeOf(size, buffer) + bytes
      BY <1>0, SizeOfMore
    <3> QED
      BY <2>1, <2>3, <3>1 DEF Bytes
  <2> QED
    BY <1>5, <2>2, <2>3
<1> QED
  BY <1>2, <1>3, <1>4, <1>5 DEF Change, Waits, Saves, Clears, Resumes, Outputs, OutputsAll, CreateCurrentSegment

LEMMA FrameKept ==
    ASSUME Base, Change
    PROVE  FrameInv'
<1>0. /\ Bytes \in Nat /\ Sizes \subseteq Nat /\ size \in Seq(Sizes) /\ buffer \in Seq(1 .. Len(size))
      /\ counters.current_timestamp \in Nat /\ counters.frame_counter \in Nat
      /\ counters.current_timestamp <= counters.frame_counter
      /\ checkpoint # None =>
            checkpoint.counters.current_timestamp <= checkpoint.counters.frame_counter
      /\ buffer # <<>> =>
            counters.current_timestamp + EstimatedFrames(Bytes) <= counters.frame_counter
  BY SizesNat, SegmenterOK DEF Base, Data, Counters, FrameInv
<1>1. CASE Waits
  BY <1>0, <1>1 DEF Waits, FrameInv, Bytes
<1>2. CASE Saves
  BY <1>0, <1>2 DEF Saves, FrameInv, Bytes
<1>3. CASE Clears \/ Resumes
  BY <1>0, <1>3 DEF Clears, Resumes, FrameInv
<1>4. CASE Skips
  BY <1>0, <1>4, BytesChange DEF Skips, FrameInv
<1>5. CASE Grows
  <2>1. PICK bytes \in Sizes \ {0} :
            /\ size' = Append(size, bytes)
            /\ counters' = [counters EXCEPT !.frame_counter = Frames(bytes)]
            /\ checkpoint' = checkpoint
            /\ buffer' = Append(buffer, Chunk)
    BY <1>5 DEF Grows
  <2>2. bytes \in Nat /\ Bytes + bytes \in Nat
    BY <1>0
  <2>3. EstimatedFrames(Bytes + bytes) \in Nat
    BY <2>2, FramesPositive
  <2>4. /\ counters'.frame_counter = counters.frame_counter + EstimatedFrames(Bytes + bytes)
        /\ counters'.current_timestamp = counters.current_timestamp
    BY <2>1 DEF Base, Data, Counters, Frames
  <2>6. buffer' # <<>>
    BY <1>0, <2>1
  <2>5. Bytes' = Bytes + bytes
    BY <1>5, <2>1, <2>2, <2>6, BytesChange, <1>0
  <2> QED
    BY <1>0, <2>1, <2>3, <2>4, <2>5 DEF FrameInv
<1>6. CASE Outputs
  <2>1. buffer # <<>> /\ CreateCurrentSegment(buffer, Bytes, counters.frame_counter) /\ checkpoint' = checkpoint
    BY <1>6 DEF Outputs
  <2>2. /\ counters'.current_timestamp = counters.current_timestamp + EstimatedFrames(Bytes)
        /\ counters'.frame_counter = counters.frame_counter /\ buffer' = <<>>
    BY <2>1 DEF CreateCurrentSegment
  <2> QED
    BY <1>0, <2>1, <2>2 DEF FrameInv
<1>7. CASE OutputsAll
  <2>1. PICK bytes \in Sizes \ {0} :
            /\ CreateCurrentSegment(Append(buffer, Chunk), Bytes + bytes, Frames(bytes))
            /\ checkpoint' = checkpoint
    BY <1>7 DEF OutputsAll
  <2>2. Bytes + bytes \in Nat
    BY <1>0
  <2>3. EstimatedFrames(Bytes + bytes) \in Nat
    BY <2>2, FramesPositive
  <2>4. /\ counters'.current_timestamp = counters.current_timestamp + EstimatedFrames(Bytes + bytes)
        /\ counters'.frame_counter = counters.frame_counter + EstimatedFrames(Bytes + bytes)
        /\ buffer' = <<>>
    BY <2>1 DEF CreateCurrentSegment, Frames
  <2> QED
    BY <1>0, <2>1, <2>3, <2>4 DEF FrameInv
<1> QED
  BY <1>1, <1>2, <1>3, <1>4, <1>5, <1>6, <1>7 DEF Change

LEMMA ControlKept ==
    ASSUME Base, [Next]_vars
    PROVE  Control'
<1>0. /\ at \in {"new", "recover", "create", "input", "ready", "ended"}
      /\ error_log \in Seq(Errors)
      /\ recovery_mode \in BOOLEAN
      /\ target_size \in Nat \cup {None}
      /\ checkpoint # None => checkpoint.error_log \in Seq(Errors)
      /\ input \in {"open", "over"}
      /\ adjusts \in Nat /\ resumes \in Nat /\ adjusts + resumes \in 0 .. MaxCalls
      /\ stale \in BOOLEAN /\ MaxCalls \in Nat
  BY SegmenterOK DEF Base, Control
<1>1. CASE UNCHANGED vars
  BY <1>0, <1>1 DEF vars, stream, Control
<1>2. CASE Poll \/ Pending
  BY <1>0, <1>2 DEF Poll, Pending, stream, ownerUnchanged, Control
<1>3. CASE AdjustForNetworkConditions
  <2>1. target_size' \in Nat
    BY <1>3 DEF AdjustForNetworkConditions
  <2> QED
    BY <1>0, <1>3, <2>1 DEF AdjustForNetworkConditions, MayCall, stream, Control
<1>4. CASE SaveCheckpoint
  <2>1. checkpoint'.error_log = error_log
    BY <1>4 DEF SaveCheckpoint
  <2> QED
    BY <1>0, <1>4, <2>1 DEF SaveCheckpoint, stream, Control
<1>5. CASE Resume
  BY <1>0, <1>5 DEF Resume, MayCall, Control
<1>6. CASE RecoverStep
  <2>1. error_log' \in Seq(Errors)
    <3>1. PICK i, marked : /\ i = SelectInSeq(error_log, LAMBDA e : ~e.recovery_attempted)
                           /\ marked = [error_log EXCEPT ![i].recovery_attempted = TRUE]
      OBVIOUS
    <3>2. marked \in Seq(Errors)
      BY <1>0, <3>1, ErrorMarked
    <3>3. error_log' = error_log \/ error_log' = marked \/ error_log' = Recorded(marked, "Recovery")
      BY <1>6, <3>1 DEF RecoverStep, AttemptRecovery
    <3> QED
      BY <1>0, <3>2, <3>3, ErrorRecorded DEF ErrorTypes
  <2> QED
    BY <1>0, <1>6, <2>1 DEF RecoverStep, ownerUnchanged, Control
<1>7. \A chunks, bytes, f, log : log \in Seq(Errors) /\ CreateOrFail(chunks, bytes, f, log) =>
          /\ error_log' \in Seq(Errors)
          /\ recovery_mode' \in BOOLEAN
          /\ at' \in {"ready", "recover"}
  <2> SUFFICES ASSUME NEW chunks, NEW bytes, NEW f, NEW log \in Seq(Errors), CreateOrFail(chunks, bytes, f, log)
               PROVE  /\ error_log' \in Seq(Errors)
                      /\ recovery_mode' \in BOOLEAN
                      /\ at' \in {"ready", "recover"}
    OBVIOUS
  <2>1. Recorded(log, "BufferOverflow") \in Seq(Errors)
    BY ErrorRecorded DEF ErrorTypes
  <2> QED
    BY <1>0, <2>1 DEF CreateOrFail, CreationFails, CreateCurrentSegment
<1>8. CASE CreateStep
  BY <1>0, <1>7, <1>8 DEF CreateStep, stream, ownerUnchanged, Control
<1>9. CASE EmptyChunk
  <2>1. Recorded(error_log, "EncodingError") \in Seq(Errors)
    BY <1>0, ErrorRecorded DEF ErrorTypes
  <2> QED
    BY <1>0, <1>9, <2>1 DEF EmptyChunk, Take, ownerUnchanged, Control
<1>10. CASE DropChunk
  <2>1. Recorded(error_log, "BufferOverflow") \in Seq(Errors)
    BY <1>0, ErrorRecorded DEF ErrorTypes
  <2> QED
    BY <1>0, <1>10, <2>1 DEF DropChunk, Take, CreateCurrentSegment, ownerUnchanged, Control
<1>11. CASE AppendChunk
  <2>1. Recorded(error_log, "BufferOverflow") \in Seq(Errors)
    BY <1>0, ErrorRecorded DEF ErrorTypes
  <2>2. PICK bytes, total, f, log, appended :
            /\ log \in {Recorded(error_log, "BufferOverflow"), error_log}
            /\ Take(bytes)
            /\ \/ /\ error_log' = log /\ at' = "recover" /\ recovery_mode' = recovery_mode
               \/ CreateOrFail(appended, total, f, log)
    BY <1>11 DEF AppendChunk
  <2>3. log \in Seq(Errors)
    BY <1>0, <2>1, <2>2
  <2>4. /\ error_log' \in Seq(Errors)
        /\ recovery_mode' \in BOOLEAN
        /\ at' \in {"ready", "recover"}
    BY <1>0, <1>7, <2>2, <2>3
  <2> QED
    BY <1>0, <2>2, <2>4 DEF Take, ownerUnchanged, Control
<1>12. CASE EndOfInput
  <2>1. /\ error_log' \in Seq(Errors)
        /\ recovery_mode' \in BOOLEAN
        /\ at' \in {"ready", "recover", "ended"}
    BY <1>0, <1>7, <1>12 DEF EndOfInput, stream
  <2> QED
    BY <1>0, <1>12, <2>1 DEF EndOfInput, ownerUnchanged, Control
<1> QED
  BY <1>1, <1>2, <1>3, <1>4, <1>5, <1>6, <1>8, <1>9, <1>10, <1>11, <1>12 DEF Next, InputStep

\* Nothing overflows in the log unless a chunk was too large.
LEMMA LogKept ==
    ASSUME Base, [Next]_vars, Overflowed(error_log)'
    PROVE  Overfull'
<1>0. /\ error_log \in Seq(Errors) /\ Bytes \in Nat /\ Sizes \subseteq Nat
      /\ BufferSize(buffer) = Bytes
      /\ SegmentSize = 524288 /\ SegmentLimit = 5242880 /\ BufferLimit = 52428800
      /\ (Overflowed(error_log) => Overfull) /\ (TooLarge(Bytes) => Overfull)
      /\ (at = "input" => Bytes < SegmentSize)
  BY SizesNat, SegmenterOK DEF Base, Control, OverflowInv, SegmentSize, SegmentLimit, BufferLimit
<1>1. CASE error_log' = error_log
  <2>1. Overflowed(error_log)
    BY <1>1 DEF Overflowed
  <2> QED
    BY <1>0, <2>1, OverfullKept
<1>2. ASSUME NEW type \in ErrorTypes, NEW log \in Seq(Errors), error_log' = Recorded(log, type), type # "BufferOverflow"
      PROVE  Overflowed(log)
  <2>1. PICK i \in DOMAIN error_log' : error_log'[i].error_type = "BufferOverflow"
    BY DEF Overflowed
  <2>2. i \in DOMAIN log /\ log[i] = error_log'[i]
    BY <1>2, <2>1, ErrorRecorded
  <2> QED
    BY <2>1, <2>2 DEF Overflowed
<1>3. CASE RecoverStep
  <2>0. PICK i : i = SelectInSeq(error_log, LAMBDA e : ~e.recovery_attempted)
    OBVIOUS
  <2>1. PICK marked : marked = [error_log EXCEPT ![i].recovery_attempted = TRUE]
    OBVIOUS
  <2>5. /\ marked \in Seq(Errors) /\ DOMAIN marked = DOMAIN error_log
        /\ \A j \in DOMAIN error_log : marked[j].error_type = error_log[j].error_type
    BY <1>0, <2>1, ErrorMarked
  <2>2. marked \in Seq(Errors) /\ (Overflowed(marked) => Overflowed(error_log))
    BY <2>5 DEF Overflowed
  <2>3. error_log' = error_log \/ error_log' = marked \/ error_log' = Recorded(marked, "Recovery")
    BY <1>3, <2>0, <2>1 DEF RecoverStep, AttemptRecovery
  <2>4. Overflowed(error_log) \/ Overflowed(marked)
    <3>1. CASE error_log' = error_log \/ error_log' = marked
      BY <3>1 DEF Overflowed
    <3>2. CASE error_log' = Recorded(marked, "Recovery")
      BY <1>2, <2>2, <3>2 DEF ErrorTypes
    <3> QED
      BY <2>3, <3>1, <3>2
  <2> QED
    BY <1>0, <2>2, <2>4, OverfullKept
<1>4. CASE EmptyChunk
  <2>1. error_log' = Recorded(error_log, "EncodingError")
    BY <1>4 DEF EmptyChunk
  <2>2. Overflowed(error_log)
    BY <1>0, <1>2, <2>1 DEF ErrorTypes
  <2> QED
    BY <1>0, <2>2, OverfullKept
<1>5. CASE Resume
  <2>1. resumes' = resumes + 1 /\ resumes \in Nat
    BY <1>5 DEF Resume, Base, Control
  <2> QED
    BY <2>1 DEF Overfull
<1>6. CASE CreateStep
  <2>1. CASE error_log' = error_log
    BY <1>1, <2>1
  <2>2. CASE TooLarge(Bytes)
    BY <1>0, <2>2, OverfullKept
  <2> QED
    BY <1>0, <1>6, <2>1, <2>2 DEF CreateStep, CreateOrFail, stream
<1>7. CASE EndOfInput
  <2>1. CASE error_log' = error_log
    BY <1>1, <2>1
  <2>2. CASE TooLarge(Bytes)
    BY <1>0, <2>2, OverfullKept
  <2> QED
    BY <1>0, <1>7, <2>1, <2>2 DEF EndOfInput, CreateOrFail, stream
<1>8. CASE DropChunk
  <2>1. PICK bytes \in Sizes : Overflows(bytes) /\ at = "input" /\ size' = Append(size, bytes)
    BY <1>8 DEF DropChunk, Take
  <2>2. bytes > SegmentLimit - SegmentSize
    BY <1>0, <2>1 DEF Overflows
  <2> QED
    BY <2>1, <2>2, OverfullByChunk
<1>9. CASE AppendChunk
  <2>1. PICK bytes \in Sizes \ {0} :
            /\ at = "input" /\ size' = Append(size, bytes)
            /\ error_log' = error_log \/ Overflows(bytes) \/ TooLarge(Bytes + bytes)
    BY <1>0, <1>9 DEF AppendChunk, Take, CreateOrFail
  <2>2. CASE error_log' = error_log
    BY <1>1, <2>2
  <2>3. CASE Overflows(bytes) \/ TooLarge(Bytes + bytes)
    <3>1. bytes > SegmentLimit - SegmentSize
      BY <1>0, <2>1, <2>3 DEF Overflows, TooLarge
    <3> QED
      BY <2>1, <3>1, OverfullByChunk
  <2> QED
    BY <2>1, <2>2, <2>3
<1> QED
  BY <1>1, <1>3, <1>4, <1>5, <1>6, <1>7, <1>8, <1>9
  DEF Next, InputStep, Poll, AdjustForNetworkConditions, SaveCheckpoint, Pending, stream, vars

LEMMA OverflowKept ==
    ASSUME Base, [Next]_vars
    PROVE  OverflowInv'
<1>0. /\ Bytes \in Nat /\ Sizes \subseteq Nat /\ Change
      /\ BufferSize(buffer) = Bytes
      /\ SegmentSize = 524288 /\ SegmentLimit = 5242880
      /\ (TooLarge(Bytes) => Overfull) /\ (lost # {} => Overfull)
      /\ (at = "input" => Bytes < SegmentSize) /\ (at = "ended" => buffer = <<>>)
  BY SizesNat, StepChange, SegmenterOK DEF Base, OverflowInv, SegmentSize, SegmentLimit
<1>1. (Overflowed(error_log) => Overfull)'
  BY LogKept
<1>2. ASSUME TooLarge(Bytes)' PROVE Overfull'
  <2>1. Bytes' > SegmentLimit
    BY <1>2 DEF TooLarge, SegmentLimit
  <2>2. CASE Bytes' = 0
    BY <1>0, <2>1, <2>2
  <2>3. CASE Bytes' = Bytes
    <3>1. TooLarge(Bytes)
      BY <2>1, <2>3 DEF TooLarge
    <3> QED
      BY <1>0, <3>1, OverfullKept
  <2>4. CASE Grows /\ \A bytes \in Nat : size' = Append(size, bytes) => Bytes' = Bytes + bytes
    <3>1. PICK bytes \in Sizes : at = "input" /\ size' = Append(size, bytes)
      BY <2>4 DEF Grows
    <3>2. bytes > SegmentLimit - SegmentSize
      BY <1>0, <2>1, <2>4, <3>1
    <3> QED
      BY <3>1, <3>2, OverfullByChunk
  <2> QED
    BY <1>0, <2>2, <2>3, <2>4, BytesChange
<1>3. ASSUME lost' # {} PROVE Overfull'
  <2>1. CASE lost' = lost
    BY <1>0, <1>3, <2>1, OverfullKept
  <2>2. CASE Clears
    BY <2>2, OverfullKept DEF Clears
  <2>3. CASE Resume
    <3>1. resumes' = resumes + 1 /\ resumes \in Nat
      BY <2>3 DEF Resume, Base, Control
    <3> QED
      BY <3>1 DEF Overfull
  <2>4. CASE Outputs /\ lost' # lost
    <3>1. PICK bytes \in Sizes : bytes > SegmentLimit - SegmentSize /\ size' = Append(size, bytes)
      BY <2>4 DEF Outputs
    <3> QED
      BY <3>1, OverfullByChunk
  <2>5. CASE ~Resume /\ Resumes
    <3>1. CASE RecoverStep \/ DropChunk
      <4>1. lost' = lost \/ at # at'
        BY <3>1 DEF RecoverStep, DropChunk, Take, CreateCurrentSegment
      <4> QED
        BY <2>1, <2>5, <4>1 DEF Resumes
    <3>2. CASE ~(RecoverStep \/ DropChunk)
      <4>1. lost' = lost
        BY <2>5, <3>2 DEF Next, InputStep, Poll, AdjustForNetworkConditions, SaveCheckpoint, Pending, CreateStep,
              EmptyChunk, AppendChunk, EndOfInput, vars
      <4> QED
        BY <2>1, <4>1
    <3> QED
      BY <3>1, <3>2
  <2> QED
    BY <1>0, <2>1, <2>2, <2>3, <2>4, <2>5 DEF Change, Waits, Saves, Skips, Grows, OutputsAll
<1>4. ASSUME at' = "input" PROVE Bytes' < SegmentSize
  <2>1. CASE at = "input" /\ buffer' = buffer /\ size' = size
    BY <1>0, <2>1 DEF Bytes
  <2>2. CASE CreateStep
    <3>1. Bytes < SegmentSize /\ buffer' = buffer /\ size' = size
      BY <1>0, <1>4, <2>2 DEF CreateStep, CreateOrFail, CreateCurrentSegment, CreationFails, stream
    <3> QED
      BY <3>1 DEF Bytes
  <2> QED
    BY <1>4, <2>1, <2>2
    DEF Next, InputStep, Poll, AdjustForNetworkConditions, SaveCheckpoint, Resume, RecoverStep, Pending, EmptyChunk,
        DropChunk, AppendChunk, EndOfInput, CreateOrFail, CreateCurrentSegment, CreationFails, MayCall, BetweenPolls,
        stream, vars
<1>5. ASSUME at' = "ended" PROVE buffer' = <<>>
  BY <1>0, <1>5
  DEF Next, InputStep, Poll, AdjustForNetworkConditions, SaveCheckpoint, Resume, RecoverStep, CreateStep, Pending, EmptyChunk,
      DropChunk, AppendChunk, EndOfInput, CreateOrFail, CreateCurrentSegment, CreationFails, MayCall, BetweenPolls,
      stream, vars
<1>6. (TooLarge(Bytes) => Overfull)' /\ (at = "input" => Bytes < SegmentSize)'
  BY <1>2, <1>4 DEF SegmentSize
<1> QED
  BY <1>1, <1>3, <1>5, <1>6 DEF OverflowInv

LEMMA BaseInit == ASSUME Init PROVE Base
<1>1. Control
  <2>1. <<>> \in Seq(Errors)
    OBVIOUS
  <2>2. 0 + 0 \in 0 .. MaxCalls
    BY SegmenterOK
  <2> QED
    BY <2>1, <2>2, SegmenterOK DEF Init, Control
<1>2. size = <<>> /\ buffer = <<>> /\ Len(size) = 0 /\ DOMAIN size = {}
  BY DEF Init
<1>3. Data
  BY <1>2 DEF Init, Data, Counters
<1>4. FrameInv
  BY <1>2 DEF Init, FrameInv
<1>5. Bytes = 0
  <2>1. <<>> \in Seq(Nat)
    OBVIOUS
  <2> QED
    BY <1>2, <2>1, SizeOfNothing DEF Bytes
<1>6. OverflowInv
  BY <1>5 DEF Init, OverflowInv, Overflowed, TooLarge, SegmentLimit
<1> QED
  BY <1>1, <1>3, <1>4, <1>6 DEF Base

LEMMA BaseNext == ASSUME Base, [Next]_vars PROVE Base'
  BY StepChange, DataKept, FrameKept, ControlKept, OverflowKept DEF Base

LEMMA BaseAlways == Spec => []Base
<1>1. Base /\ [Next]_vars => Base'
  BY BaseNext
<1> QED
  BY <1>1, BaseInit, PTL DEF Spec

LEMMA BaseTypes == ASSUME Base PROVE TypeOK
  BY DEF Base, Control, Data, TypeOK, SegmentsOf, Errors

\* What the stream keeps has its type: no chunk is one that was not taken, and no
\* segment begins before frame 0, whatever is lost, adjusted and resumed.
THEOREM TypeCorrect == Spec => []TypeOK
  BY BaseAlways, BaseTypes, PTL

(***************************************************************************)
(* The segments are in line.                                                *)
(***************************************************************************)

\* Where the segment after these begins.
NextTime(segs) ==
    IF segs = <<>> THEN 0
    ELSE segs[Len(segs)].timestamp + (segs[Len(segs)].end_frame - segs[Len(segs)].start_frame)

LastEnd(segs) == IF segs = <<>> THEN 0 ELSE segs[Len(segs)].end_frame

\* What SegmentsInLine says of one segment.
InLine(segs, i) ==
    LET s == segs[i] IN
    /\ s.segment_id = i - 1
    /\ s.timestamp <= s.start_frame /\ s.start_frame < s.end_frame
    /\ i = 1 => s.timestamp = 0
    /\ i > 1 =>
          LET before == segs[i - 1] IN
          /\ s.timestamp = before.timestamp + (before.end_frame - before.start_frame)
          /\ before.end_frame <= s.start_frame

Line(segs) == \A i \in DOMAIN segs : InLine(segs, i)

\* A stream that repeats nothing: the counters, and those of a checkpoint that is as
\* recent as the last segment, go on from that segment.
CountersInv == ~stale =>
    /\ Line(segments)
    /\ counters.segment_counter = Len(segments)
    /\ counters.current_timestamp = NextTime(segments)
    /\ LastEnd(segments) <= counters.frame_counter
    /\ buffer # <<>> => LastEnd(segments) + EstimatedFrames(Bytes) <= counters.frame_counter
    /\ checkpoint # None =>
          /\ checkpoint.counters.segment_counter <= Len(segments)
          /\ checkpoint.counters.segment_counter = Len(segments) =>
                /\ checkpoint.counters.current_timestamp = NextTime(segments)
                /\ LastEnd(segments) <= checkpoint.counters.frame_counter

LEMMA LineAppends ==
    ASSUME NEW X, NEW segs \in Seq(X), NEW s, s \in X, Line(segs), s.segment_id = Len(segs),
           s.timestamp = NextTime(segs), s.timestamp <= s.start_frame, s.start_frame < s.end_frame,
           LastEnd(segs) <= s.start_frame
    PROVE  /\ Line(Append(segs, s))
           /\ NextTime(Append(segs, s)) = s.timestamp + (s.end_frame - s.start_frame)
           /\ LastEnd(Append(segs, s)) = s.end_frame
           /\ Len(Append(segs, s)) = Len(segs) + 1
<1>1. PICK n, t : n = Len(segs) /\ t = Append(segs, s)
  OBVIOUS
<1>2. /\ n \in Nat /\ Len(t) = n + 1 /\ DOMAIN t = 1 .. n + 1 /\ DOMAIN segs = 1 .. n
      /\ t[n + 1] = s /\ \A i \in 1 .. n : t[i] = segs[i]
      /\ t # <<>> /\ (n = 0 <=> segs = <<>>)
  BY <1>1
<1>3. /\ NextTime(t) = s.timestamp + (s.end_frame - s.start_frame) /\ LastEnd(t) = s.end_frame
  BY <1>2 DEF NextTime, LastEnd
<1>4. ASSUME NEW i \in 1 .. n PROVE InLine(t, i)
  <2>1. InLine(segs, i) /\ t[i] = segs[i]
    BY <1>2 DEF Line
  <2>2. i > 1 => t[i - 1] = segs[i - 1]
    BY <1>2
  <2> QED
    BY <2>1, <2>2 DEF InLine
<1>5. InLine(t, n + 1)
  <2>1. CASE n = 0
    BY <1>1, <1>2, <2>1 DEF InLine, NextTime
  <2>2. CASE n # 0
    <3>1. t[(n + 1) - 1] = segs[n] /\ n + 1 > 1 /\ n + 1 # 1 /\ (n + 1) - 1 = n
      BY <1>2, <2>2
    <3>2. /\ NextTime(segs) = segs[n].timestamp + (segs[n].end_frame - segs[n].start_frame)
          /\ LastEnd(segs) = segs[n].end_frame
      BY <1>1, <1>2, <2>2 DEF NextTime, LastEnd
    <3> QED
      BY <1>1, <1>2, <3>1, <3>2 DEF InLine
  <2> QED
    BY <2>1, <2>2
<1>6. \A i \in 1 .. n + 1 : i \in 1 .. n \/ i = n + 1
  BY <1>2
<1>7. Line(t)
  BY <1>2, <1>4, <1>5, <1>6 DEF Line
<1> QED
  BY <1>1, <1>2, <1>3, <1>7

LEMMA LastEndNat ==
    ASSUME Base
    PROVE  LastEnd(segments) \in Nat
<1>1. segments \in Seq(SegmentsOf(Len(size)))
  BY DEF Base, Data
<1>2. CASE segments # <<>>
  <2>1. segments[Len(segments)] \in SegmentsOf(Len(size))
    BY <1>1, <1>2
  <2> QED
    BY <1>2, <2>1 DEF LastEnd, SegmentsOf
<1> QED
  BY <1>2 DEF LastEnd

\* The counters after a segment of so many bytes.
LEMMA CountersOutput ==
    ASSUME Base, CountersInv, ~stale, checkpoint' = checkpoint, stale' = stale,
           NEW chunks, NEW bytes \in Nat, NEW f \in Nat, CreateCurrentSegment(chunks, bytes, f),
           counters.current_timestamp + EstimatedFrames(bytes) <= f,
           LastEnd(segments) + EstimatedFrames(bytes) <= f
    PROVE  CountersInv'
<1>0. /\ counters.current_timestamp \in Nat /\ counters.segment_counter \in Nat
      /\ checkpoint # None => checkpoint.counters.segment_counter \in Nat
      /\ segments \in Seq(SegmentsOf(Len(size))) /\ Len(segments) \in Nat
  BY DEF Base, Data, Counters
<1>1. PICK frames \in Nat : frames = EstimatedFrames(bytes) /\ frames >= 1
  BY FramesPositive
<1>2. PICK s : s = [chunks      |-> chunks,
                    segment_id  |-> counters.segment_counter,
                    timestamp   |-> counters.current_timestamp,
                    start_frame |-> f - frames,
                    end_frame   |-> f]
  OBVIOUS
<1>3. /\ s.segment_id = counters.segment_counter /\ s.timestamp = counters.current_timestamp
      /\ s.start_frame = f - frames /\ s.end_frame = f
  BY <1>2
<1>4. /\ segments' = Append(segments, s) /\ buffer' = <<>>
      /\ counters' = [current_timestamp |-> counters.current_timestamp + frames,
                      segment_counter   |-> counters.segment_counter + 1,
                      frame_counter     |-> f]
  BY <1>1, <1>2 DEF CreateCurrentSegment
<1>5. LastEnd(segments) <= s.start_frame
  <2>1. LastEnd(segments) \in Nat
    BY LastEndNat
  <2> QED
    BY <1>1, <1>3, <2>1
<1>6. /\ Line(segments) /\ s.segment_id = Len(segments) /\ s.timestamp = NextTime(segments)
      /\ s.timestamp <= s.start_frame /\ s.start_frame < s.end_frame
  BY <1>0, <1>1, <1>3 DEF CountersInv
<1>7. PICK X : X = SegmentsOf(Len(size)) \cup {s}
  OBVIOUS
<1>8. segments \in Seq(X) /\ s \in X
  BY <1>0, <1>7
<1>9. /\ Line(segments') /\ LastEnd(segments') = f /\ Len(segments') = Len(segments) + 1
      /\ NextTime(segments') = counters.current_timestamp + frames
  <2>1. /\ Line(Append(segments, s)) /\ LastEnd(Append(segments, s)) = s.end_frame
        /\ Len(Append(segments, s)) = Len(segments) + 1
        /\ NextTime(Append(segments, s)) = s.timestamp + (s.end_frame - s.start_frame)
    BY <1>5, <1>6, <1>8, LineAppends
  <2>2. s.timestamp + (s.end_frame - s.start_frame) = counters.current_timestamp + frames
    BY <1>0, <1>1, <1>3
  <2> QED
    BY <1>3, <1>4, <2>1, <2>2
<1>10. checkpoint # None => checkpoint.counters.segment_counter <= Len(segments)
  BY DEF CountersInv
<1>11. counters'.segment_counter = Len(segments')
  BY <1>3, <1>4, <1>6, <1>9
<1>12. checkpoint' # None =>
          /\ checkpoint'.counters.segment_counter <= Len(segments')
          /\ checkpoint'.counters.segment_counter # Len(segments')
  BY <1>0, <1>9, <1>10
<1> QED
  BY <1>0, <1>4, <1>9, <1>11, <1>12 DEF CountersInv

LEMMA CountersKept ==
    ASSUME Base, Change, CountersInv
    PROVE  CountersInv'
<1>0. /\ Bytes \in Nat /\ Sizes \subseteq Nat
      /\ counters.current_timestamp \in Nat /\ counters.frame_counter \in Nat
      /\ stale \in BOOLEAN
  BY SizesNat, SegmenterOK DEF Base, Data, Control, Counters
<1>1. CASE Waits
  BY <1>1 DEF Waits, CountersInv, Bytes
<1>2. CASE Saves
  <2>1. checkpoint'.counters = counters
    BY <1>2 DEF Saves
  <2> QED
    BY <1>0, <1>2, <2>1 DEF Saves, CountersInv, Bytes
<1>3. CASE Clears
  BY <1>3 DEF Clears, CountersInv
<1>4. CASE Resumes
  BY <1>0, <1>4 DEF Resumes, CountersInv
<1>5. CASE Skips
  BY <1>5, <1>0, BytesChange DEF Skips, CountersInv
<1>6. CASE Grows
  <2>1. PICK bytes \in Sizes \ {0} :
            /\ size' = Append(size, bytes)
            /\ counters' = [counters EXCEPT !.frame_counter = Frames(bytes)]
            /\ segments' = segments /\ checkpoint' = checkpoint /\ stale' = stale
            /\ buffer' = Append(buffer, Chunk)
    BY <1>6 DEF Grows
  <2>2. bytes \in Nat /\ Bytes + bytes \in Nat
    BY <1>0
  <2>3. EstimatedFrames(Bytes + bytes) \in Nat
    BY <2>2, FramesPositive
  <2>4. /\ counters'.frame_counter = counters.frame_counter + EstimatedFrames(Bytes + bytes)
        /\ counters'.current_timestamp = counters.current_timestamp
        /\ counters'.segment_counter = counters.segment_counter
    BY <2>1 DEF Base, Data, Counters, Frames
  <2>5. buffer' # <<>>
    BY <2>1 DEF Base, Data
  <2>6. Bytes' = Bytes + bytes
    BY <1>0, <1>6, <2>1, <2>2, <2>5, BytesChange DEF Base, Data
  <2>7. LastEnd(segments) \in Nat
    BY LastEndNat
  <2>8. ~stale => /\ LastEnd(segments) <= counters'.frame_counter
                  /\ LastEnd(segments) + EstimatedFrames(Bytes') <= counters'.frame_counter
    BY <1>0, <2>3, <2>4, <2>6, <2>7 DEF CountersInv
  <2> QED
    BY <2>1, <2>4, <2>8 DEF CountersInv
<1>7. CASE stale'
  BY <1>7 DEF CountersInv
<1>8. CASE Outputs /\ ~stale'
  <2>1. /\ buffer # <<>> /\ CreateCurrentSegment(buffer, Bytes, counters.frame_counter)
        /\ checkpoint' = checkpoint /\ stale' = stale
    BY <1>8 DEF Outputs
  <2>2. /\ LastEnd(segments) + EstimatedFrames(Bytes) <= counters.frame_counter
        /\ counters.current_timestamp + EstimatedFrames(Bytes) <= counters.frame_counter
    BY <1>8, <2>1 DEF CountersInv, Base, FrameInv
  <2> QED
    BY <1>0, <1>8, <2>1, <2>2, CountersOutput
<1>9. CASE OutputsAll /\ ~stale'
  <2>1. PICK bytes \in Sizes \ {0} :
            /\ CreateCurrentSegment(Append(buffer, Chunk), Bytes + bytes, Frames(bytes))
            /\ checkpoint' = checkpoint /\ stale' = stale
    BY <1>9 DEF OutputsAll
  <2>2. PICK b \in Nat : b = Bytes + bytes
    BY <1>0
  <2>3. EstimatedFrames(b) \in Nat
    BY FramesPositive
  <2>4. PICK f \in Nat : f = Frames(bytes) /\ f = counters.frame_counter + EstimatedFrames(b)
    BY <1>0, <2>2, <2>3 DEF Frames
  <2>5. /\ LastEnd(segments) <= counters.frame_counter
        /\ counters.current_timestamp <= counters.frame_counter
    BY <1>9, <2>1 DEF CountersInv, Base, FrameInv
  <2>6. LastEnd(segments) \in Nat
    BY LastEndNat
  <2>7. /\ LastEnd(segments) + EstimatedFrames(b) <= f
        /\ counters.current_timestamp + EstimatedFrames(b) <= f
    BY <1>0, <2>3, <2>4, <2>5, <2>6
  <2>8. CreateCurrentSegment(Append(buffer, Chunk), b, f)
    BY <2>1, <2>2, <2>4
  <2> QED
    BY <1>9, <2>1, <2>7, <2>8, CountersOutput
<1> QED
  BY <1>1, <1>2, <1>3, <1>4, <1>5, <1>6, <1>7, <1>8, <1>9 DEF Change

LEMMA CountersInit == ASSUME Init PROVE CountersInv
  BY DEF Init, CountersInv, Line, NextTime, LastEnd

LEMMA CountersLine == ASSUME CountersInv PROVE SegmentsInLine
  BY DEF CountersInv, Line, InLine, SegmentsInLine

\* The segments of a stream that repeats nothing are numbered from 0, each begins
\* where the one before ended, and no frame belongs to two of them, for chunks of
\* any size, whatever is adjusted, cleared or resumed.
THEOREM SegmentsLine == Spec => []SegmentsInLine
<1>1. Base /\ CountersInv /\ [Next]_vars => CountersInv'
  BY StepChange, CountersKept
<1> QED
  BY <1>1, BaseAlways, CountersInit, CountersLine, PTL DEF Spec

(***************************************************************************)
(* Where the chunks are.                                                    *)
(***************************************************************************)

Chunks(segs) == [i \in DOMAIN segs |-> segs[i].chunks]

FlatOf(segs) == FlattenSeq(Chunks(segs))

Whole == Delivered \o buffer

Ascends(s) == \A i, j \in DOMAIN s : i < j => s[i] < s[j]

\* The chunks in s, with data and in their order, and those in L are all there are.
Accounts(s, L, z) ==
    /\ s \in Seq(1 .. Len(z)) /\ Ascends(s)
    /\ ToSet(s) \cup L = {c \in 1 .. Len(z) : z[c] # 0}
    /\ ToSet(s) \cap L = {}

ChunkInv ==
    /\ Delivered \in Seq(1 .. Len(size))
    /\ Accounts(Whole, lost, size)
    /\ \A i \in DOMAIN segments : ~TooLarge(SizeOf(size, segments[i].chunks))

LEMMA FlatOfNothing == FlatOf(<<>>) = <<>>
<1>1. Chunks(<<>>) = <<>> /\ Len(<<>>) = 0
  BY DEF Chunks
<1> QED
  BY <1>1, FlattenUnfolds DEF FlatOf

\* A segment more.
LEMMA FlatOfMore ==
    ASSUME NEW n \in Nat, NEW segs \in Seq(SegmentsOf(n)), FlatOf(segs) \in Seq(1 .. n),
           NEW s \in SegmentsOf(n)
    PROVE  FlatOf(Append(segs, s)) = FlatOf(segs) \o s.chunks
<1>1. PICK q, S, c : q = Chunks(segs) /\ S = Seq(1 .. n) /\ c = s.chunks
  OBVIOUS
<1>2. /\ q \in Seq(S) /\ Len(q) = Len(segs) /\ c \in S
      /\ Len(segs) \in Nat /\ (Len(segs) = 0 => segs = <<>>)
  <2>1. \A t \in SegmentsOf(n) : t.chunks \in S
    BY <1>1 DEF SegmentsOf
  <2>2. /\ DOMAIN segs = 1 .. Len(segs) /\ Len(segs) \in Nat /\ (Len(segs) = 0 => segs = <<>>)
        /\ \A i \in 1 .. Len(segs) : segs[i] \in SegmentsOf(n)
    OBVIOUS
  <2>3. q \in [1 .. Len(segs) -> S]
    BY <1>1, <2>1, <2>2 DEF Chunks
  <2>4. q \in Seq(S) /\ Len(q) = Len(segs)
    BY <2>2, <2>3
  <2> QED
    BY <1>1, <2>1, <2>2, <2>4
<1>3. Chunks(Append(segs, s)) = Append(q, c)
  <2>1. PICK m, t, u : m = Len(segs) /\ t = Append(segs, s) /\ u = Append(q, c)
    OBVIOUS
  <2>2. /\ m \in Nat /\ DOMAIN t = 1 .. m + 1 /\ t[m + 1] = s /\ \A i \in 1 .. m : t[i] = segs[i]
        /\ DOMAIN segs = 1 .. m
    BY <2>1
  <2>3. /\ u \in Seq(S) /\ DOMAIN u = 1 .. m + 1 /\ u[m + 1] = c
        /\ \A i \in 1 .. m : u[i] = q[i]
    BY <1>2, <2>1
  <2>4. \A i \in 1 .. m : q[i] = segs[i].chunks
    BY <1>1, <2>2 DEF Chunks
  <2>5. \A i \in 1 .. m + 1 : i \in 1 .. m \/ i = m + 1
    BY <2>2
  <2>6. \A i \in 1 .. m + 1 : u[i] = t[i].chunks
    BY <1>1, <2>2, <2>3, <2>4, <2>5
  <2>7. u = [i \in 1 .. m + 1 |-> u[i]]
    BY <2>3
  <2>8. u = [i \in 1 .. m + 1 |-> t[i].chunks]
    BY <2>6, <2>7, Zenon
  <2> QED
    BY <2>1, <2>2, <2>8 DEF Chunks
<1>4. CASE Len(q) = 0
  <2>1. segs = <<>>
    BY <1>2, <1>4
  <2>2. FlatOf(segs) = <<>>
    BY <2>1, FlatOfNothing
  <2>3. FlattenSeq(Append(q, c)) = c
    BY <1>1, <1>2, <1>4, FlattenAppends
  <2>4. <<>> \o c = c
    BY <1>1, <1>2
  <2> QED
    BY <1>1, <1>3, <2>2, <2>3, <2>4 DEF FlatOf
<1>5. CASE Len(q) # 0
  <2>1. FlattenSeq(Append(q, c)) = FlattenSeq(q) \o c
    BY <1>1, <1>2, <1>5, FlattenAppends
  <2> QED
    BY <1>1, <1>3, <2>1 DEF FlatOf
<1> QED
  BY <1>4, <1>5

LEMMA ToSetOf ==
    ASSUME NEW n \in Nat, NEW a \in Seq(1 .. n), NEW b \in Seq(1 .. n)
    PROVE  /\ ToSet(a) \subseteq 1 .. n
           /\ ToSet(a \o b) = ToSet(a) \cup ToSet(b) /\ a \o b \in Seq(1 .. n)
           /\ Ascends(a \o b) => Ascends(a) /\ ToSet(a) \cap ToSet(b) = {}
           /\ ToSet(<<>>) = {} /\ a \o <<>> = a
<1>1. PICK k, m, t : k = Len(a) /\ m = Len(b) /\ t = a \o b
  OBVIOUS
<1>2. /\ k \in Nat /\ m \in Nat /\ DOMAIN a = 1 .. k /\ DOMAIN b = 1 .. m /\ DOMAIN t = 1 .. k + m
      /\ t \in Seq(1 .. n)
      /\ \A i \in 1 .. k : a[i] \in 1 .. n /\ t[i] = a[i] /\ i \in 1 .. k + m
      /\ \A i \in 1 .. m : t[k + i] = b[i] /\ k + i \in 1 .. k + m
      /\ \A i \in 1 .. k + m : i \in 1 .. k \/ (i - k \in 1 .. m /\ k + (i - k) = i)
  BY <1>1
<1>3. ToSet(a) \subseteq 1 .. n
  BY <1>2 DEF ToSet
<1>4. ToSet(t) = ToSet(a) \cup ToSet(b)
  <2>1. ASSUME NEW x \in ToSet(t) PROVE x \in ToSet(a) \cup ToSet(b)
    <3>1. PICK i \in 1 .. k + m : t[i] = x
      BY <1>2, <2>1 DEF ToSet
    <3>2. CASE i \in 1 .. k
      BY <1>2, <3>1, <3>2 DEF ToSet
    <3>3. CASE i - k \in 1 .. m /\ k + (i - k) = i
      <4>1. b[i - k] = x
        BY <1>2, <3>1, <3>3
      <4> QED
        BY <1>2, <3>3, <4>1 DEF ToSet
    <3> QED
      BY <1>2, <3>2, <3>3
  <2>2. ASSUME NEW x \in ToSet(a) PROVE x \in ToSet(t)
    <3>1. PICK i \in 1 .. k : a[i] = x
      BY <1>2, <2>2 DEF ToSet
    <3> QED
      BY <1>2, <3>1 DEF ToSet
  <2>3. ASSUME NEW x \in ToSet(b) PROVE x \in ToSet(t)
    <3>1. PICK i \in 1 .. m : b[i] = x
      BY <1>2, <2>3 DEF ToSet
    <3> QED
      BY <1>2, <3>1 DEF ToSet
  <2> QED
    BY <2>1, <2>2, <2>3
<1>5. ASSUME Ascends(t) PROVE Ascends(a) /\ ToSet(a) \cap ToSet(b) = {}
  <2>1. Ascends(a)
    BY <1>2, <1>5 DEF Ascends
  <2>2. ASSUME NEW x \in ToSet(a), x \in ToSet(b) PROVE FALSE
    <3>1. PICK i \in 1 .. k : a[i] = x
      BY <1>2, <2>2 DEF ToSet
    <3>2. PICK j \in 1 .. m : b[j] = x
      BY <1>2, <2>2 DEF ToSet
    <3>3. /\ t[i] = x /\ t[k + j] = x /\ i < k + j /\ i \in DOMAIN t /\ k + j \in DOMAIN t
          /\ x \in 1 .. n
      BY <1>2, <3>1, <3>2
    <3>4. t[i] < t[k + j]
      BY <1>5, <3>3 DEF Ascends
    <3> QED
      BY <3>3, <3>4
  <2> QED
    BY <2>1, <2>2
<1>6. ToSet(<<>>) = {} /\ a \o <<>> = a
  BY DEF ToSet
<1> QED
  BY <1>1, <1>2, <1>3, <1>4, <1>5, <1>6

\* A chunk comes: it is kept, lost, or was empty.
LEMMA AccountsChunk ==
    ASSUME NEW z \in Seq(Nat), NEW b \in Nat, NEW s, NEW L, Accounts(s, L, z)
    PROVE  /\ b # 0 => /\ Accounts(Append(s, Len(z) + 1), L, Append(z, b))
                       /\ Accounts(s, L \cup {Len(z) + 1}, Append(z, b))
           /\ b = 0 => Accounts(s, L, Append(z, b))
<1>1. PICK n, y, t, d : n = Len(z) /\ y = Append(z, b) /\ t = Append(s, n + 1) /\ d = Len(s)
  OBVIOUS
<1>2. /\ n \in Nat /\ Len(y) = n + 1 /\ y[n + 1] = b /\ \A c \in 1 .. n : y[c] = z[c]
      /\ \A c \in 1 .. n + 1 : c \in 1 .. n \/ c = n + 1
      /\ \A c \in 1 .. n : c \in 1 .. n + 1 /\ c < n + 1
      /\ n + 1 \in 1 .. n + 1 /\ n + 1 \notin 1 .. n
  BY <1>1
<1>3. s \in Seq(1 .. n) /\ Ascends(s) /\ ToSet(s) \cup L = {c \in 1 .. n : z[c] # 0} /\ ToSet(s) \cap L = {}
  BY <1>1 DEF Accounts
<1>4. s \in Seq(1 .. n + 1) /\ n + 1 \notin ToSet(s) /\ n + 1 \notin L
  BY <1>2, <1>3, ChunksGrow
<1>5. {c \in 1 .. n + 1 : y[c] # 0} = {c \in 1 .. n : z[c] # 0} \cup (IF b = 0 THEN {} ELSE {n + 1})
  BY <1>2
<1>6. /\ d \in Nat /\ t \in Seq(1 .. n + 1) /\ DOMAIN s = 1 .. d /\ DOMAIN t = 1 .. d + 1
      /\ t[d + 1] = n + 1 /\ \A i \in 1 .. d : t[i] = s[i] /\ s[i] \in 1 .. n
      /\ \A i \in 1 .. d + 1 : i \in 1 .. d \/ i = d + 1
      /\ \A i \in 1 .. d : i \in 1 .. d + 1 /\ i < d + 1
      /\ d + 1 \in 1 .. d + 1
  BY <1>1, <1>3, <1>4
<1>7. ToSet(t) = ToSet(s) \cup {n + 1}
  <2>1. ASSUME NEW x \in ToSet(t) PROVE x \in ToSet(s) \cup {n + 1}
    <3>1. PICK i \in 1 .. d + 1 : t[i] = x
      BY <1>6, <2>1 DEF ToSet
    <3> QED
      BY <1>6, <3>1 DEF ToSet
  <2>2. ASSUME NEW x \in ToSet(s) PROVE x \in ToSet(t)
    <3>1. PICK i \in 1 .. d : s[i] = x
      BY <1>6, <2>2 DEF ToSet
    <3> QED
      BY <1>6, <3>1 DEF ToSet
  <2>3. n + 1 \in ToSet(t)
    BY <1>6 DEF ToSet
  <2> QED
    BY <2>1, <2>2, <2>3
<1>8. Ascends(t)
  <2> SUFFICES ASSUME NEW i \in 1 .. d + 1, NEW j \in 1 .. d + 1, i < j PROVE t[i] < t[j]
    BY <1>6 DEF Ascends
  <2>1. i \in 1 .. d
    BY <1>6
  <2>2. CASE j = d + 1
    BY <1>2, <1>6, <2>1, <2>2
  <2>3. CASE j \in 1 .. d
    BY <1>3, <1>6, <2>1, <2>3 DEF Ascends
  <2> QED
    BY <1>6, <2>2, <2>3
<1>9. ASSUME b # 0 PROVE Accounts(t, L, y) /\ Accounts(s, L \cup {n + 1}, y)
  BY <1>2, <1>3, <1>4, <1>5, <1>6, <1>7, <1>8, <1>9 DEF Accounts
<1>10. ASSUME b = 0 PROVE Accounts(s, L, y)
  BY <1>2, <1>3, <1>4, <1>5, <1>10 DEF Accounts
<1> QED
  BY <1>1, <1>9, <1>10

\* What is behind a is lost.
LEMMA AccountsLoss ==
    ASSUME NEW z \in Seq(Nat), NEW a \in Seq(1 .. Len(z)), NEW b \in Seq(1 .. Len(z)), NEW L,
           Accounts(a \o b, L, z)
    PROVE  Accounts(a, L \cup ToSet(b), z)
<1>1. Len(z) \in Nat
  OBVIOUS
<1>2. /\ ToSet(a \o b) = ToSet(a) \cup ToSet(b) /\ Ascends(a) /\ ToSet(a) \cap ToSet(b) = {}
  BY <1>1, ToSetOf DEF Accounts
<1> QED
  BY <1>2 DEF Accounts

NoneTooLarge == \A i \in DOMAIN segments : ~TooLarge(SizeOf(size, segments[i].chunks))

LEMMA AppendLater ==
    ASSUME NEW n \in Nat, NEW a \in Seq(1 .. n), NEW b \in Seq(1 .. n)
    PROVE  a \o Append(b, n + 1) = Append(a \o b, n + 1)
<1>1. a \in Seq(Nat) /\ b \in Seq(Nat) /\ n + 1 \in Nat
  OBVIOUS
<1>2. PICK x, s, t : x = n + 1 /\ s = a \o Append(b, x) /\ t = Append(a \o b, x)
  OBVIOUS
<1>3. /\ s \in Seq(Nat) /\ t \in Seq(Nat) /\ Len(s) = Len(t)
      /\ \A i \in 1 .. Len(s) : s[i] = t[i]
  BY <1>1, <1>2
<1> QED
  BY <1>2, <1>3

\* What a change delivers.
LEMMA DeliveredChange ==
    ASSUME Base, Change, Delivered \in Seq(1 .. Len(size))
    PROVE  /\ Outputs => Delivered' = Delivered \o buffer
           /\ OutputsAll => Delivered' = Delivered \o Append(buffer, Chunk)
           /\ ~Outputs /\ ~OutputsAll => Delivered' = Delivered
<1>0. /\ Delivered = FlatOf(segments) /\ Delivered' = FlatOf(segments')
      /\ Len(size) \in Nat /\ segments \in Seq(SegmentsOf(Len(size))) /\ buffer \in Seq(1 .. Len(size))
      /\ Bytes \in Nat /\ Sizes \subseteq Nat
      /\ counters.current_timestamp \in Nat /\ counters.segment_counter \in Nat
      /\ counters.frame_counter \in Nat
  BY SizesNat, SegmenterOK DEF Delivered, FlatOf, Chunks, Base, Data, Counters
<1>1. ASSUME NEW n \in Nat, Len(size) <= n, NEW chunks \in Seq(1 .. n), NEW bytes \in Nat, NEW f \in Nat,
             CreateCurrentSegment(chunks, bytes, f), EstimatedFrames(bytes) <= f
      PROVE  Delivered' = Delivered \o chunks
  <2>1. PICK first \in Nat : first = f - EstimatedFrames(bytes)
    BY <1>1, FramesPositive
  <2>2. PICK s : s = [chunks      |-> chunks,
                      segment_id  |-> counters.segment_counter,
                      timestamp   |-> counters.current_timestamp,
                      start_frame |-> first,
                      end_frame   |-> f]
    OBVIOUS
  <2>3. segments' = Append(segments, s)
    BY <1>1, <2>1, <2>2 DEF CreateCurrentSegment
  <2>4. s \in SegmentsOf(n) /\ s.chunks = chunks
    BY <1>0, <1>1, <2>1, <2>2 DEF SegmentsOf
  <2>5. segments \in Seq(SegmentsOf(n)) /\ FlatOf(segments) \in Seq(1 .. n)
    BY <1>0, <1>1, ChunksGrow
  <2> QED
    BY <1>0, <2>3, <2>4, <2>5, FlatOfMore
<1>2. ASSUME Outputs PROVE Delivered' = Delivered \o buffer
  <2>1. /\ CreateCurrentSegment(buffer, Bytes, counters.frame_counter)
        /\ EstimatedFrames(Bytes) \in Nat
        /\ counters.current_timestamp + EstimatedFrames(Bytes) <= counters.frame_counter
    BY <1>0, <1>2, FramesPositive DEF Outputs, Base, FrameInv
  <2>2. EstimatedFrames(Bytes) <= counters.frame_counter /\ Len(size) <= Len(size)
    BY <1>0, <2>1
  <2> QED
    BY <1>0, <1>1, <2>1, <2>2
<1>3. ASSUME OutputsAll PROVE Delivered' = Delivered \o Append(buffer, Chunk)
  <2>1. PICK bytes \in Sizes \ {0} :
            /\ size' = Append(size, bytes)
            /\ CreateCurrentSegment(Append(buffer, Chunk), Bytes + bytes, Frames(bytes))
    BY <1>3 DEF OutputsAll
  <2>2. PICK b \in Nat : b = Bytes + bytes
    BY <1>0
  <2>3. EstimatedFrames(b) \in Nat
    BY FramesPositive
  <2>4. PICK f \in Nat : f = Frames(bytes) /\ f = counters.frame_counter + EstimatedFrames(b)
    BY <1>0, <2>2, <2>3 DEF Frames
  <2>5. PICK n \in Nat : n = Len(size) + 1
    BY <1>0
  <2>6. Append(buffer, Chunk) \in Seq(1 .. n) /\ Len(size) <= n
    <3>1. buffer \in Seq(1 .. n) /\ n \in 1 .. n
      BY <1>0, <2>5, ChunksGrow
    <3> QED
      BY <2>5, <3>1 DEF Chunk
  <2>7. EstimatedFrames(b) <= f
    BY <1>0, <2>3, <2>4
  <2>8. CreateCurrentSegment(Append(buffer, Chunk), b, f)
    BY <2>1, <2>2, <2>4
  <2> QED
    BY <1>0, <1>1, <2>6, <2>7, <2>8
<1>4. CASE ~Outputs /\ ~OutputsAll
  <2>1. segments' = segments
    BY <1>4 DEF Change, Waits, Saves, Clears, Resumes, Skips, Grows
  <2> QED
    BY <1>0, <1>4, <2>1
<1> QED
  BY <1>2, <1>3, <1>4

\* What a change makes of the whole, and of what is lost.
LEMMA WholeKept ==
    ASSUME Base, Change, Delivered \in Seq(1 .. Len(size)), Accounts(Whole, lost, size)
    PROVE  Delivered' \in Seq(1 .. Len(size')) /\ Accounts(Whole, lost, size)'
<1>0. /\ size \in Seq(Nat) /\ Len(size) \in Nat /\ buffer \in Seq(1 .. Len(size)) /\ Sizes \subseteq Nat
      /\ Data' /\ Len(size') \in Nat
  BY SizesNat, SegmenterOK, DataKept DEF Base, Data
<1>1. PICK d : d = Delivered
  OBVIOUS
<1>2. d \in Seq(1 .. Len(size)) /\ Accounts(d \o buffer, lost, size)
  BY <1>1 DEF Whole
<1>3. /\ Outputs => Delivered' = d \o buffer
      /\ OutputsAll => Delivered' = d \o Append(buffer, Chunk)
      /\ ~Outputs /\ ~OutputsAll => Delivered' = d
  BY <1>1, DeliveredChange
<1>4. ASSUME NEW bytes \in Nat, size' = Append(size, bytes)
      PROVE  d \in Seq(1 .. Len(size')) /\ d \o buffer \in Seq(1 .. Len(size'))
  <2>1. Len(size') = Len(size) + 1
    BY <1>0, <1>4
  <2>2. d \o buffer \in Seq(1 .. Len(size))
    BY <1>0, <1>2, ToSetOf
  <2>3. Seq(1 .. Len(size)) \subseteq Seq(1 .. Len(size'))
    BY <1>0, <2>1, ChunksGrow
  <2> QED
    BY <1>2, <2>2, <2>3
<1>5. d \o <<>> = d /\ (d \o buffer) \o <<>> = d \o buffer /\ d \o buffer \in Seq(1 .. Len(size))
  BY <1>0, <1>2, ToSetOf
<1>6. d \o Append(buffer, Chunk) = Append(d \o buffer, Len(size) + 1)
  BY <1>0, <1>2, AppendLater DEF Chunk
<1>7. CASE Waits \/ Saves
  <2>1. UNCHANGED <<segments, buffer, size, lost>>
    BY <1>7 DEF Waits, Saves
  <2>2. Delivered' = d
    BY <1>1, <2>1 DEF Delivered
  <2> QED
    BY <1>1, <1>2, <2>1, <2>2 DEF Whole
<1>8. CASE Clears \/ Resumes
  <2>1. UNCHANGED <<segments, size>> /\ buffer' = <<>> /\ lost' = lost \cup ToSet(buffer)
    BY <1>8 DEF Clears, Resumes
  <2>2. Delivered' = d
    BY <1>1, <2>1 DEF Delivered
  <2>3. Accounts(d, lost \cup ToSet(buffer), size)
    BY <1>0, <1>2, AccountsLoss
  <2> QED
    BY <1>2, <1>5, <2>1, <2>2, <2>3 DEF Whole
<1>9. CASE Skips
  <2>1. UNCHANGED <<segments, buffer, lost>> /\ size' = Append(size, 0)
    BY <1>9 DEF Skips
  <2>2. Delivered' = d
    BY <1>1, <2>1 DEF Delivered
  <2>3. Accounts(d \o buffer, lost, Append(size, 0))
    BY <1>0, <1>2, AccountsChunk
  <2> QED
    BY <1>4, <2>1, <2>2, <2>3 DEF Whole
<1>10. CASE Grows
  <2>1. PICK bytes \in Sizes \ {0} : size' = Append(size, bytes) /\ buffer' = Append(buffer, Chunk)
            /\ UNCHANGED <<segments, lost>>
    BY <1>10 DEF Grows
  <2>2. Delivered' = d
    BY <1>1, <2>1 DEF Delivered
  <2>3. Accounts(Append(d \o buffer, Len(size) + 1), lost, Append(size, bytes))
    BY <1>0, <1>2, <2>1, AccountsChunk
  <2>4. Whole' = Append(d \o buffer, Len(size) + 1)
    BY <1>6, <2>1, <2>2 DEF Whole
  <2> QED
    BY <1>0, <1>4, <2>1, <2>2, <2>3, <2>4
<1>11. CASE Outputs
  <2>1. Delivered' = d \o buffer /\ buffer' = <<>>
    BY <1>3, <1>11 DEF Outputs, CreateCurrentSegment
  <2>2. Whole' = d \o buffer
    BY <1>5, <2>1 DEF Whole
  <2>3. CASE UNCHANGED <<size, lost>>
    BY <1>2, <1>5, <2>1, <2>2, <2>3
  <2>4. CASE \E bytes \in Sizes \ {0} : size' = Append(size, bytes) /\ lost' = lost \cup {Chunk}
    <3>1. PICK bytes \in Sizes \ {0} : size' = Append(size, bytes) /\ lost' = lost \cup {Chunk}
      BY <2>4
    <3>2. Accounts(d \o buffer, lost \cup {Len(size) + 1}, Append(size, bytes))
      BY <1>0, <1>2, <3>1, AccountsChunk
    <3> QED
      BY <1>0, <1>4, <2>1, <2>2, <3>1, <3>2 DEF Chunk
  <2> QED
    BY <1>11, <2>3, <2>4 DEF Outputs
<1>12. CASE OutputsAll
  <2>1. PICK bytes \in Sizes \ {0} : size' = Append(size, bytes) /\ buffer' = <<>> /\ lost' = lost
    BY <1>12 DEF OutputsAll, CreateCurrentSegment
  <2>2. Delivered' = Append(d \o buffer, Len(size) + 1)
    BY <1>3, <1>6, <1>12
  <2>3. Accounts(Append(d \o buffer, Len(size) + 1), lost, Append(size, bytes))
    BY <1>0, <1>2, <2>1, AccountsChunk
  <2>4. Delivered' \in Seq(1 .. Len(size'))
    BY <2>1, <2>2, <2>3 DEF Accounts
  <2>5. Whole' = Delivered'
    BY <1>0, <2>1, <2>4 DEF Whole
  <2> QED
    BY <2>1, <2>2, <2>3, <2>4, <2>5
<1> QED
  BY <1>7, <1>8, <1>9, <1>10, <1>11, <1>12 DEF Change

LEMMA LimitKept ==
    ASSUME Base, Change, NoneTooLarge
    PROVE  NoneTooLarge'
<1>0. /\ size \in Seq(Nat) /\ Len(size) \in Nat /\ buffer \in Seq(1 .. Len(size)) /\ Sizes \subseteq Nat
      /\ segments \in Seq(SegmentsOf(Len(size))) /\ Bytes \in Nat
      /\ \A i \in DOMAIN segments : segments[i].chunks \in Seq(1 .. Len(size))
  <2>1. segments \in Seq(SegmentsOf(Len(size)))
    BY DEF Base, Data
  <2>2. \A i \in DOMAIN segments : segments[i] \in SegmentsOf(Len(size))
    BY <2>1
  <2>3. \A s \in SegmentsOf(Len(size)) : s.chunks \in Seq(1 .. Len(size))
    BY DEF SegmentsOf
  <2> QED
    BY <2>1, <2>2, <2>3, SizesNat, SegmenterOK DEF Base, Data
<1>1. size' = size \/ \E bytes \in Nat : size' = Append(size, bytes)
  BY <1>0 DEF Change, Waits, Saves, Clears, Resumes, Skips, Grows, Outputs, OutputsAll
<1>2. \A i \in DOMAIN segments : SizeOf(size', segments[i].chunks) = SizeOf(size, segments[i].chunks)
  BY <1>0, <1>1, SizeKept
<1>3. \A i \in DOMAIN segments : ~TooLarge(SizeOf(size', segments[i].chunks))
  BY <1>2 DEF NoneTooLarge
<1>4. ASSUME NEW s, segments' = Append(segments, s), ~TooLarge(SizeOf(size', s.chunks))
      PROVE  NoneTooLarge'
  <2>1. PICK n, t : n = Len(segments) /\ t = Append(segments, s)
    OBVIOUS
  <2>2. /\ DOMAIN t = 1 .. n + 1 /\ t[n + 1] = s /\ n \in Nat
        /\ \A i \in 1 .. n : t[i] = segments[i] /\ i \in DOMAIN segments
        /\ \A i \in 1 .. n + 1 : i \in 1 .. n \/ i = n + 1
    BY <1>0, <2>1
  <2>3. \A i \in DOMAIN t : ~TooLarge(SizeOf(size', t[i].chunks))
    BY <1>3, <1>4, <2>2
  <2>4. segments' = t
    BY <1>4, <2>1
  <2> QED
    BY <2>3, <2>4 DEF NoneTooLarge, TooLarge, SegmentLimit
<1>5. CASE segments' = segments
  BY <1>3, <1>5 DEF NoneTooLarge, TooLarge, SegmentLimit
<1>6. CASE Outputs
  <2>1. PICK s : segments' = Append(segments, s) /\ s.chunks = buffer
    BY <1>6 DEF Outputs, CreateCurrentSegment
  <2>2. SizeOf(size', buffer) = Bytes
    BY <1>0, <1>1, SizeKept DEF Bytes
  <2>3. ~TooLarge(Bytes)
    BY <1>6 DEF Outputs
  <2> QED
    BY <1>4, <2>1, <2>2, <2>3
<1>7. CASE OutputsAll
  <2>1. PICK bytes \in Sizes \ {0} :
            /\ ~TooLarge(Bytes + bytes)
            /\ size' = Append(size, bytes)
            /\ CreateCurrentSegment(Append(buffer, Chunk), Bytes + bytes, Frames(bytes))
    BY <1>7 DEF OutputsAll
  <2>2. PICK s : segments' = Append(segments, s) /\ s.chunks = Append(buffer, Chunk)
    BY <2>1 DEF CreateCurrentSegment
  <2>3. SizeOf(size', Append(buffer, Chunk)) = Bytes + bytes
    BY <1>0, <2>1, SizeOfMore DEF Bytes, Chunk
  <2> QED
    BY <1>4, <2>1, <2>2, <2>3
<1> QED
  BY <1>5, <1>6, <1>7 DEF Change, Waits, Saves, Clears, Resumes, Skips, Grows

LEMMA ChunkInit == ASSUME Init PROVE ChunkInv
<1>1. size = <<>> /\ buffer = <<>> /\ segments = <<>> /\ lost = {} /\ Len(size) = 0
  BY DEF Init
<1>2. Delivered = <<>>
  BY <1>1, FlatOfNothing DEF Delivered, FlatOf, Chunks
<1>3. Whole = <<>>
  BY <1>1, <1>2 DEF Whole
<1>4. Accounts(<<>>, {}, <<>>)
  BY DEF Accounts, Ascends, ToSet
<1> QED
  BY <1>1, <1>2, <1>3, <1>4 DEF ChunkInv

LEMMA ChunkNext == ASSUME Base, ChunkInv, [Next]_vars PROVE ChunkInv'
  BY StepChange, WholeKept, LimitKept DEF ChunkInv, NoneTooLarge

LEMMA ChunksAreAccounted == ASSUME Base, ChunkInv PROVE ChunksAccounted
<1>0. /\ Len(size) \in Nat /\ DOMAIN size = 1 .. Len(size) /\ buffer \in Seq(1 .. Len(size))
      /\ Delivered \in Seq(1 .. Len(size))
  BY SizesNat DEF Base, Data, ChunkInv
<1>1. PICK d, k : d = ToSet(Delivered) /\ k = ToSet(buffer)
  OBVIOUS
<1>2. ToSet(Whole) = d \cup k /\ d \cap k = {}
  BY <1>0, <1>1, ToSetOf DEF Whole, ChunkInv, Accounts
<1>3. /\ d \cup k \cup lost = {c \in DOMAIN size : size[c] # 0}
      /\ (d \cup k) \cap lost = {}
  BY <1>0, <1>2 DEF ChunkInv, Accounts
<1>4. lost # {} => resumes > 0 \/ \E c \in DOMAIN size : Oversized(c)
  BY DEF Base, OverflowInv, Overfull
<1>5. \A i \in DOMAIN segments : ~TooLarge(BufferSize(segments[i].chunks))
  BY BufferSizes DEF ChunkInv
<1>6. at = "ended" => k = {}
  BY <1>0, <1>1, ToSetOf DEF Base, OverflowInv
<1> QED
  BY <1>1, <1>2, <1>3, <1>4, <1>5, <1>6 DEF ChunksAccounted

\* Every chunk with data is in the buffer, in one segment or lost, and none is lost
\* without a reason; no segment is larger than its limit: for chunks of any size,
\* whatever is adjusted, cleared or resumed.
THEOREM ChunksWhere == Spec => []ChunksAccounted
<1>1. Base /\ ChunkInv /\ [Next]_vars => ChunkInv'
  BY ChunkNext
<1> QED
  BY <1>1, BaseAlways, ChunkInit, ChunksAreAccounted, PTL DEF Spec

(***************************************************************************)
(* Refinement: what the segments deliver.                                   *)
(***************************************************************************)

LEMMA StreamBegins == ASSUME Init PROVE File!Init
<1>1. Delivered = <<>>
  BY FlatOfNothing DEF Init, Delivered, FlatOf, Chunks
<1>2. Len(size) = 0 /\ Phase = "waiting"
  BY DEF Init, Phase
<1> QED
  BY <1>1, <1>2 DEF File!Init

\* A segment extends what was delivered.
LEMMA Delivering ==
    ASSUME Base, ChunkInv, ChunkInv', Change, Outputs \/ OutputsAll
    PROVE  File!Extends(Delivered', Delivered, Len(size'))
<1>0. /\ Len(size) \in Nat /\ buffer \in Seq(1 .. Len(size))
      /\ Delivered \in Seq(1 .. Len(size)) /\ Delivered' \in Seq(1 .. Len(size'))
  BY SizesNat DEF Base, Data, ChunkInv
<1>1. PICK m, s : m \in Nat /\ s \in Seq(1 .. m) /\ s # <<>> /\ Delivered' = Delivered \o s
  <2>1. CASE Outputs
    BY <1>0, <2>1, DeliveredChange DEF Outputs
  <2>2. CASE OutputsAll
    <3>1. PICK n \in Nat : n = Len(size) + 1
      BY <1>0
    <3>2. buffer \in Seq(1 .. n) /\ n \in 1 .. n
      BY <1>0, <3>1, ChunksGrow
    <3>3. Append(buffer, n) \in Seq(1 .. n) /\ Append(buffer, n) # <<>>
      BY <3>2
    <3>4. Delivered' = Delivered \o Append(buffer, n)
      BY <1>0, <2>2, <3>1, DeliveredChange DEF Chunk
    <3> QED
      BY <3>3, <3>4
  <2> QED
    BY <2>1, <2>2
<1>2. PICK a, b : a = Delivered /\ b = Delivered'
  OBVIOUS
<1>3. /\ Len(b) = Len(a) + Len(s) /\ Len(a) \in Nat /\ Len(s) \in Nat /\ Len(s) # 0
      /\ SubSeq(b, 1, Len(a)) = a
  <2>1. a \in Seq(Nat) /\ s \in Seq(Nat)
    BY <1>0, <1>1, <1>2
  <2>2. b = a \o s
    BY <1>1, <1>2
  <2> QED
    BY <1>1, <2>1, <2>2
<1>4. \A i \in DOMAIN b : b[i] \in 1 .. Len(size')
  BY <1>0, <1>2
<1>5. Ascends(b)
  <2>1. buffer' = <<>>
    BY DEF Outputs, OutputsAll, CreateCurrentSegment
  <2>2. Whole' = b
    BY <1>0, <1>2, <2>1 DEF Whole
  <2>3. Ascends(Whole)'
    BY DEF ChunkInv, Accounts
  <2> QED
    BY <2>2, <2>3 DEF Ascends
<1> QED
  BY <1>2, <1>3, <1>4, <1>5 DEF File!Extends, File!Ascending, Ascends

\* A step of the stream is one of Delivery, or changes nothing there.
LEMMA StreamStep ==
    ASSUME Base, ChunkInv, ChunkInv', Change
    PROVE  [File!Next]_(File!vars)
<1>0. /\ Len(size) \in Nat /\ Sizes \subseteq Nat /\ Delivered \in Seq(1 .. Len(size))
      /\ \A bytes : size' = Append(size, bytes) => Len(size') = Len(size) + 1
  BY SizesNat, SegmenterOK DEF Base, Data, ChunkInv
<1>1. Polling => Phase = "open" /\ Phase' = "open"
  BY DEF Polling, Phase
<1>2. CASE ~Outputs /\ ~OutputsAll /\ Len(size') = Len(size) /\ Phase' = Phase
  <2>1. Delivered' = Delivered
    BY <1>0, <1>2, DeliveredChange
  <2> QED
    BY <1>2, <2>1 DEF File!vars
<1>3. CASE Waits /\ Phase' # Phase
  <2>1. Delivered' = Delivered /\ Len(size') = Len(size)
    BY <1>3 DEF Waits, Delivered
  <2>2. CASE Phase = "waiting" /\ Phase' = "open"
    <3>1. File!Open("file")
      BY <2>1, <2>2 DEF File!Open
    <3> QED
      BY <3>1 DEF File!Next
  <2>3. CASE Phase = "open" /\ Phase' = "closed"
    <3>1. File!Close("file")
      BY <2>1, <2>3 DEF File!Close
    <3> QED
      BY <3>1 DEF File!Next
  <2> QED
    BY <1>3, <2>2, <2>3 DEF Waits
<1>4. CASE (Skips \/ Grows) /\ ~Outputs /\ ~OutputsAll
  <2>1. Delivered' = Delivered /\ Len(size') = Len(size) + 1 /\ Phase' = Phase
    BY <1>0, <1>1, <1>4, DeliveredChange DEF Skips, Grows
  <2>2. File!Produce("file")
    BY <2>1 DEF File!Produce
  <2> QED
    BY <2>2 DEF File!Next
<1>5. CASE Outputs \/ OutputsAll
  <2>1. Phase = "open" /\ Phase' = "open"
    BY <1>1, <1>5 DEF Outputs, OutputsAll
  <2>2. Len(size') \in {Len(size), Len(size) + 1}
    BY <1>0, <1>5 DEF Outputs, OutputsAll
  <2>3. File!Extends(Delivered', Delivered, Len(size'))
    BY <1>5, Delivering
  <2>4. File!Deliver("file")
    BY <2>1, <2>2, <2>3 DEF File!Deliver
  <2> QED
    BY <2>4 DEF File!Next
<1>6. CASE (Saves \/ Clears \/ Resumes \/ Waits) /\ Phase' = Phase /\ ~Outputs /\ ~OutputsAll
  <2>1. size' = size
    BY <1>6 DEF Saves, Clears, Resumes, Waits
  <2> QED
    BY <1>2, <1>6, <2>1
<1>7. (Saves \/ Clears \/ Resumes) => Phase' = Phase
  BY DEF Saves, Clears, Resumes, Phase
<1> QED
  BY <1>3, <1>4, <1>5, <1>6, <1>7 DEF Change

\* The segments of a file are what Delivery allows: its chunks come out at most once,
\* in their order and not before they were taken, and none after the end.
THEOREM SegmentsDeliver == Spec => File!Init /\ [][File!Next]_(File!vars)
<1>1. Base /\ Base' /\ ChunkInv /\ ChunkInv' /\ [Next]_vars => [File!Next]_(File!vars)
  BY StepChange, StreamStep
<1>2. Base /\ ChunkInv /\ [Next]_vars => ChunkInv'
  BY ChunkNext
<1> QED
  BY <1>1, <1>2, BaseAlways, ChunkInit, StreamBegins, PTL DEF Spec

=============================================================================
