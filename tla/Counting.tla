------------------------------- MODULE Counting -------------------------------
(***************************************************************************)
(* Facts that several proofs need: how many members of a finite set of     *)
(* integers are below one of them, least natural numbers, and what the     *)
(* concatenation of sequences has.                                         *)
(***************************************************************************)
EXTENDS SequencesExt, Functions, Ordered, Integers, FiniteSetTheorems, TLAPS

Below(S, i) == {j \in S : j < i}

(* What is below a member is finite, and less than all.                     *)
LEMMA BelowSize ==
  ASSUME NEW S \in SUBSET Int, IsFiniteSet(S), NEW i \in S
  PROVE  /\ IsFiniteSet(Below(S, i)) /\ Cardinality(Below(S, i)) \in Nat
         /\ Cardinality(S) \in Nat /\ Cardinality(Below(S, i)) < Cardinality(S)
<1>1. Below(S, i) \in SUBSET (S \ {i})
  BY DEF Below
<1>2. /\ IsFiniteSet(S \ {i})
      /\ Cardinality(S \ {i}) = Cardinality(S) - 1
  BY FS_RemoveElement
<1>3. IsFiniteSet(Below(S, i)) /\ Cardinality(Below(S, i)) <= Cardinality(S \ {i})
  BY <1>1, <1>2, FS_Subset
<1>4. Cardinality(Below(S, i)) \in Nat /\ Cardinality(S) \in Nat
  BY <1>3, FS_CardinalityType
<1> QED
  BY <1>2, <1>3, <1>4

(* Of two members, the greater has more below it.                           *)
LEMMA BelowGrows ==
  ASSUME NEW S \in SUBSET Int, IsFiniteSet(S), NEW i \in S, NEW j \in S, i < j
  PROVE  Cardinality(Below(S, i)) < Cardinality(Below(S, j))
<1>1. IsFiniteSet(Below(S, i)) /\ Cardinality(Below(S, i)) \in Nat
  BY BelowSize
<1>2. IsFiniteSet(Below(S, j)) /\ Cardinality(Below(S, j)) \in Nat
  BY BelowSize
<1>3. i \notin Below(S, i)
  BY DEF Below
<1>4. Below(S, i) \cup {i} \in SUBSET Below(S, j)
  <2>1. i \in Int /\ j \in Int
    OBVIOUS
  <2>2. \A x \in Below(S, i) : x \in S /\ x < j
    BY <2>1 DEF Below
  <2> QED
    BY <2>2 DEF Below
<1>5. Cardinality(Below(S, i) \cup {i}) = Cardinality(Below(S, i)) + 1
  BY <1>1, <1>3, FS_AddElement
<1>6. Cardinality(Below(S, i) \cup {i}) <= Cardinality(Below(S, j))
  BY <1>2, <1>4, FS_Subset
<1> QED
  BY <1>1, <1>2, <1>5, <1>6

(* So every number of members below occurs, up to all but one.              *)
LEMMA RanksOccur ==
  ASSUME NEW S \in SUBSET Int, IsFiniteSet(S), NEW k \in 1 .. Cardinality(S)
  PROVE  \E i \in S : Cardinality(Below(S, i)) = k - 1
<1> DEFINE n == Cardinality(S)
           rank == [i \in S |-> Cardinality(Below(S, i))]
<1>1. n \in Nat
  BY FS_CardinalityType
<1>2. IsFiniteSet(0 .. n - 1) /\ Cardinality(0 .. n - 1) = n
  <2>1. n - 1 \in Int /\ 0 \in Int
    BY <1>1
  <2>2. /\ IsFiniteSet(0 .. n - 1)
        /\ Cardinality(0 .. n - 1) = IF 0 > n - 1 THEN 0 ELSE n - 1 - 0 + 1
    BY <2>1, FS_Interval
  <2> QED
    BY <1>1, <2>2
<1>3. \A i \in S : rank[i] \in 0 .. n - 1
  <2> TAKE i \in S
  <2>1. Cardinality(Below(S, i)) \in Nat /\ Cardinality(Below(S, i)) < Cardinality(S)
    BY BelowSize
  <2> QED
    BY <1>1, <2>1
<1>4. \A i, j \in S : rank[i] = rank[j] => i = j
  <2> SUFFICES ASSUME NEW i \in S, NEW j \in S, i < j PROVE rank[i] # rank[j]
    OBVIOUS
  <2>1. Cardinality(Below(S, i)) < Cardinality(Below(S, j))
    BY BelowGrows
  <2>2. rank[i] \in Int /\ rank[j] \in Int
    BY <1>3
  <2> QED
    BY <2>1, <2>2
<1>5. rank \in Injection(S, 0 .. n - 1)
  BY <1>3, <1>4 DEF Injection, IsInjective
<1>6. rank \in Surjection(S, 0 .. n - 1)
  BY <1>2, <1>5, FS_Injection
<1>7. k - 1 \in 0 .. n - 1
  BY <1>1
<1>8. \E i \in S : rank[i] = k - 1
  BY <1>6, <1>7 DEF Surjection
<1> QED
  BY <1>8

(* A set with a member has a least one.                                     *)
LEMMA LeastOccurs ==
  ASSUME NEW S \in SUBSET Int, IsFiniteSet(S), S # {}
  PROVE  \E i \in S : \A j \in S : i <= j
<1>1. Cardinality(S) \in Nat /\ Cardinality(S) # 0
  BY FS_CardinalityType, FS_EmptySet
<1>2. 1 \in 1 .. Cardinality(S)
  BY <1>1
<1>3. PICK i \in S : Cardinality(Below(S, i)) = 1 - 1
  BY <1>2, RanksOccur
<1>4. Below(S, i) = {}
  BY <1>3, BelowSize, FS_EmptySet
<1>5. \A j \in S : i <= j
  BY <1>4 DEF Below
<1> QED
  BY <1>5

(* So has any set of natural numbers.                                       *)
LEMMA LeastNatural ==
  ASSUME NEW S \in SUBSET Nat, NEW k \in S
  PROVE  \E i \in S : \A j \in S : i <= j
<1> DEFINE T == S \cap 0 .. k
<1>1. T \in SUBSET Int /\ k \in T
  OBVIOUS
<1>2. IsFiniteSet(T)
  <2>1. IsFiniteSet(0 .. k)
    BY FS_Interval
  <2> QED
    BY <2>1, FS_Subset
<1>3. PICK i \in T : \A j \in T : i <= j
  BY <1>1, <1>2, LeastOccurs
<1>4. \A j \in S : i <= j
  <2> TAKE j \in S
  <2>1. CASE j \in T
    BY <1>3, <2>1
  <2>2. CASE j \notin T
    BY <1>3, <2>2
  <2> QED
    BY <2>1, <2>2
<1> QED
  BY <1>3, <1>4

(* A set that has 0 and with a number up to N the next one has them all.    *)
LEMMA CountsUp ==
  ASSUME NEW N \in Nat, NEW S, 0 \in S, \A n \in 0 .. N - 1 : n \in S => n + 1 \in S
  PROVE  0 .. N \subseteq S
<1> SUFFICES ASSUME NEW k \in 0 .. N, k \notin S PROVE FALSE
  OBVIOUS
<1> DEFINE T == {n \in 0 .. N : n \notin S}
<1>1. PICK m \in T : \A n \in T : m <= n
  <2>1. T \in SUBSET Nat /\ k \in T
    OBVIOUS
  <2> HIDE DEF T
  <2> QED
    BY <2>1, LeastNatural
<1>2. m # 0 /\ m \in 0 .. N
  OBVIOUS
<1>3. m - 1 \in 0 .. N - 1 /\ m - 1 \notin T
  BY <1>1, <1>2
<1>4. m - 1 \in S
  BY <1>3
<1>5. m \in S
  BY <1>2, <1>3, <1>4
<1> QED
  BY <1>1, <1>5

-----------------------------------------------------------------------------
(* Concatenation *)

(* The concatenations of the first few, each from the one before.           *)
Unrolled(seqs, flat, n) ==
  flat = [i \in 1 .. n |-> IF i = 1 THEN seqs[i] ELSE flat[i - 1] \o seqs[i]]

(* A partial concatenation can be taken one step further.                   *)
LEMMA UnrollsFurther ==
  ASSUME NEW seqs, NEW n \in Nat, NEW f, Unrolled(seqs, f, n)
  PROVE  \E g : Unrolled(seqs, g, n + 1)
<1> PICK g : g = [i \in 1 .. n + 1 |->
                    IF i <= n THEN f[i]
                    ELSE IF i = 1 THEN seqs[i] ELSE f[i - 1] \o seqs[i]]
  OBVIOUS
<1>1. \A i \in 1 .. n : f[i] = IF i = 1 THEN seqs[i] ELSE f[i - 1] \o seqs[i]
  BY DEF Unrolled
<1>2. /\ \A i \in 1 .. n : g[i] = f[i]
      /\ g[n + 1] = IF n + 1 = 1 THEN seqs[n + 1] ELSE f[n] \o seqs[n + 1]
  <2>1. n + 1 \in 1 .. n + 1 /\ ~(n + 1 <= n) /\ (n + 1) - 1 = n
    OBVIOUS
  <2>2. \A i \in 1 .. n : i \in 1 .. n + 1 /\ i <= n
    OBVIOUS
  <2> QED
    BY <2>1, <2>2
<1>3. \A i \in 1 .. n + 1 : g[i] = IF i = 1 THEN seqs[i] ELSE g[i - 1] \o seqs[i]
  <2> TAKE i \in 1 .. n + 1
  <2>1. i # 1 => i - 1 \in 1 .. n
    OBVIOUS
  <2>2. i # 1 => g[i - 1] = f[i - 1]
    BY <1>2, <2>1
  <2>3. CASE i \in 1 .. n
    BY <1>1, <1>2, <2>2, <2>3
  <2>4. CASE i = n + 1
    <3>1. i - 1 = n
      BY <2>4
    <3> QED
      BY <1>2, <2>2, <2>4, <3>1
  <2> QED
    BY <2>3, <2>4
<1>4. g = [i \in 1 .. n + 1 |-> g[i]]
  OBVIOUS
<1>5. [i \in 1 .. n + 1 |-> g[i]]
      = [i \in 1 .. n + 1 |-> IF i = 1 THEN seqs[i] ELSE g[i - 1] \o seqs[i]]
  BY <1>3
<1>6. Unrolled(seqs, g, n + 1)
  BY <1>4, <1>5 DEF Unrolled
<1> QED
  BY <1>6

(* FlattenSeq unrolls.                                                      *)
LEMMA Flattened ==
  ASSUME NEW seqs, Len(seqs) \in Nat, Len(seqs) # 0
  PROVE  \E flat : /\ FlattenSeq(seqs) = flat[Len(seqs)]
                   /\ flat[1] = seqs[1]
                   /\ \A i \in 2 .. Len(seqs) : flat[i] = flat[i - 1] \o seqs[i]
<1> PICK N \in Nat : N = Len(seqs)
  OBVIOUS
<1> DEFINE S == {n \in Nat : \E f : Unrolled(seqs, f, n)}
<1>1. 0 \in S
  <2>1. Unrolled(seqs, <<>>, 0)
    BY DEF Unrolled
  <2> QED
    BY <2>1
<1>2. ASSUME NEW n \in 0 .. N - 1, n \in S PROVE n + 1 \in S
  BY <1>2, UnrollsFurther
<1>3. N \in S
  <2> HIDE DEF S
  <2>1. 0 .. N \subseteq S
    BY <1>1, <1>2, CountsUp
  <2> QED
    BY <2>1
<1> DEFINE flat == CHOOSE f : Unrolled(seqs, f, N)
<1>4. Unrolled(seqs, flat, N)
  BY <1>3
<1>5. FlattenSeq(seqs) = flat[N]
  BY DEF FlattenSeq, Unrolled
<1> HIDE DEF flat
<1>6. \A i \in 1 .. N : flat[i] = IF i = 1 THEN seqs[i] ELSE flat[i - 1] \o seqs[i]
  BY <1>4 DEF Unrolled
<1>7. 1 \in 1 .. N /\ \A i \in 2 .. N : i \in 1 .. N /\ i # 1
  OBVIOUS
<1> QED
  BY <1>5, <1>6, <1>7

(* What a concatenation has, as sets of elements.                           *)
LEMMA ConcatHas ==
  ASSUME NEW S, NEW s \in Seq(S), NEW t \in Seq(S)
  PROVE  /\ s \o t \in Seq(S)
         /\ ToSet(s) \subseteq ToSet(s \o t) /\ ToSet(t) \subseteq ToSet(s \o t)
<1>1. s \o t \in Seq(S) /\ Len(s \o t) = Len(s) + Len(t)
  OBVIOUS
<1>2. DOMAIN (s \o t) = 1 .. Len(s) + Len(t)
  BY <1>1
<1>3. /\ \A i \in 1 .. Len(s) : i \in DOMAIN (s \o t) /\ (s \o t)[i] = s[i]
      /\ \A i \in 1 .. Len(t) : Len(s) + i \in DOMAIN (s \o t) /\ (s \o t)[Len(s) + i] = t[i]
  BY <1>2
<1>4. DOMAIN s = 1 .. Len(s) /\ DOMAIN t = 1 .. Len(t)
  OBVIOUS
<1> QED
  BY <1>1, <1>3, <1>4 DEF ToSet

(* The concatenation of sequences over S is one, and has what each has.     *)
LEMMA FlattenProperties ==
  ASSUME NEW S, NEW seqs \in Seq(Seq(S))
  PROVE  /\ FlattenSeq(seqs) \in Seq(S)
         /\ \A i \in DOMAIN seqs : ToSet(seqs[i]) \subseteq ToSet(FlattenSeq(seqs))
<1>1. CASE Len(seqs) = 0
  <2>1. seqs = <<>> /\ FlattenSeq(seqs) = seqs
    BY <1>1 DEF FlattenSeq
  <2>2. <<>> \in Seq(S) /\ DOMAIN <<>> = {}
    OBVIOUS
  <2> QED
    BY <2>1, <2>2
<1>2. CASE Len(seqs) # 0
  <2> PICK N \in Nat : N = Len(seqs)
    OBVIOUS
  <2>1. PICK flat : /\ FlattenSeq(seqs) = flat[N]
                    /\ flat[1] = seqs[1]
                    /\ \A i \in 2 .. N : flat[i] = flat[i - 1] \o seqs[i]
    BY <1>2, Flattened
  <2> DEFINE Has(n) == /\ flat[n] \in Seq(S)
                       /\ \A i \in 1 .. n : ToSet(seqs[i]) \subseteq ToSet(flat[n])
             T == {n \in 0 .. N : n = 0 \/ Has(n)}
  <2>2. ASSUME NEW n \in 0 .. N - 1, n \in T PROVE n + 1 \in T
    <3>0. seqs[n + 1] \in Seq(S) /\ n + 1 \in 0 .. N
      OBVIOUS
    <3> SUFFICES Has(n + 1)
      BY <3>0
    <3>1. CASE n = 0
      <4>1. \A i \in 1 .. 0 + 1 : i = 1
        OBVIOUS
      <4> QED
        BY <2>1, <3>0, <3>1, <4>1
    <3>2. CASE n # 0
      <4>1. Has(n)
        BY <2>2, <3>2
      <4>2. n + 1 \in 2 .. N /\ (n + 1) - 1 = n
        BY <3>2
      <4>3. flat[n + 1] = flat[n] \o seqs[n + 1]
        BY <2>1, <4>2
      <4>4. /\ flat[n + 1] \in Seq(S) /\ ToSet(flat[n]) \subseteq ToSet(flat[n + 1])
            /\ ToSet(seqs[n + 1]) \subseteq ToSet(flat[n + 1])
        BY <3>0, <4>1, <4>3, ConcatHas
      <4>5. \A i \in 1 .. n + 1 : i \in 1 .. n \/ i = n + 1
        OBVIOUS
      <4> QED
        BY <4>1, <4>4, <4>5
    <3> QED
      BY <3>1, <3>2
  <2>3. N \in T
    <3>1. 0 \in T
      OBVIOUS
    <3> HIDE DEF T
    <3>2. 0 .. N \subseteq T
      BY <2>2, <3>1, CountsUp
    <3> QED
      BY <3>2
  <2>4. Has(N) /\ DOMAIN seqs = 1 .. N
    BY <1>2, <2>3
  <2> QED
    BY <2>1, <2>4
<1> QED
  BY <1>1, <1>2

-----------------------------------------------------------------------------
(* Positions in order *)

(* A finite set of integers in order has each of them once.                 *)
LEMMA InOrderIs ==
  ASSUME NEW S \in SUBSET Int, IsFiniteSet(S)
  PROVE  /\ Cardinality(S) \in Nat /\ InOrder(S) \in [1 .. Cardinality(S) -> S]
         /\ \A x \in S : \E n \in 1 .. Cardinality(S) : InOrder(S)[n] = x
         /\ \A m, n \in 1 .. Cardinality(S) : m < n => InOrder(S)[m] < InOrder(S)[n]
<1> DEFINE N == Cardinality(S)
           At(n) == CHOOSE x \in S : Cardinality(Below(S, x)) = n - 1
<1>1. N \in Nat
  BY FS_CardinalityType
<1>2. InOrder(S) = [n \in 1 .. N |-> At(n)]
  BY DEF InOrder, Below
<1>3. ASSUME NEW n \in 1 .. N PROVE At(n) \in S /\ Cardinality(Below(S, At(n))) = n - 1
  <2>1. \E x \in S : Cardinality(Below(S, x)) = n - 1
    BY RanksOccur
  <2> QED
    BY <2>1
<1> HIDE DEF At
<1>4. ASSUME NEW x \in S PROVE \E n \in 1 .. N : At(n) = x
  <2> DEFINE n == Cardinality(Below(S, x)) + 1
  <2>1. n \in 1 .. N /\ Cardinality(Below(S, x)) = n - 1
    BY <1>1, BelowSize
  <2>2. At(n) \in S /\ Cardinality(Below(S, At(n))) = n - 1
    BY <1>3, <2>1
  <2>3. ASSUME NEW y \in S, Cardinality(Below(S, y)) = Cardinality(Below(S, x)) PROVE y = x
    <3>1. y < x => Cardinality(Below(S, y)) < Cardinality(Below(S, x))
      BY BelowGrows
    <3>2. x < y => Cardinality(Below(S, x)) < Cardinality(Below(S, y))
      BY BelowGrows
    <3>3. Cardinality(Below(S, x)) \in Nat /\ y \in Int /\ x \in Int
      BY BelowSize
    <3> QED
      BY <2>3, <3>1, <3>2, <3>3
  <2>4. At(n) = x
    BY <2>1, <2>2, <2>3
  <2> QED
    BY <2>1, <2>4
<1>5. ASSUME NEW m \in 1 .. N, NEW n \in 1 .. N, m < n PROVE At(m) < At(n)
  <2>1. /\ At(m) \in S /\ Cardinality(Below(S, At(m))) = m - 1
        /\ At(n) \in S /\ Cardinality(Below(S, At(n))) = n - 1
    BY <1>3
  <2>2. At(m) # At(n)
    BY <2>1, <1>1, <1>5
  <2>3. ~(At(n) < At(m))
    <3>1. At(n) < At(m) => Cardinality(Below(S, At(n))) < Cardinality(Below(S, At(m)))
      BY <2>1, BelowGrows
    <3> QED
      BY <1>1, <1>5, <2>1, <3>1
  <2>4. At(m) \in Int /\ At(n) \in Int
    BY <2>1
  <2> QED
    BY <2>2, <2>3, <2>4
<1> QED
  BY <1>1, <1>2, <1>3, <1>4, <1>5

(* Where the picked elements of a sequence are.                             *)
PickedPlaces(I, q, s, at) ==
  /\ at \in [1 .. Len(q) -> I]
  /\ \A n \in 1 .. Len(q) : q[n] = s[at[n]]
  /\ \A i \in I : \E n \in 1 .. Len(q) : at[n] = i
  /\ \A m, n \in 1 .. Len(q) : m < n => at[m] < at[n]

(* Picked elements are those of the positions, in their order.              *)
LEMMA PickedIs ==
  ASSUME NEW s, NEW I \in SUBSET Int, IsFiniteSet(I)
  PROVE  /\ Len(Picked(s, I)) = Cardinality(I) /\ Len(Picked(s, I)) \in Nat
         /\ Picked(s, I) = [n \in 1 .. Len(Picked(s, I)) |-> Picked(s, I)[n]]
         /\ PickedPlaces(I, Picked(s, I), s, InOrder(I))
<1> DEFINE N == Cardinality(I)
           q == Picked(s, I)
<1>1. /\ N \in Nat /\ InOrder(I) \in [1 .. N -> I]
      /\ \A x \in I : \E n \in 1 .. N : InOrder(I)[n] = x
      /\ \A m, n \in 1 .. N : m < n => InOrder(I)[m] < InOrder(I)[n]
  BY InOrderIs
<1>2. q = [n \in 1 .. N |-> s[InOrder(I)[n]]]
  BY <1>1 DEF Picked
<1> HIDE DEF q, N
<1>3. Len(q) = N /\ DOMAIN q = 1 .. N
  BY <1>1, <1>2
<1>4. \A n \in 1 .. N : q[n] = s[InOrder(I)[n]]
  BY <1>2
<1>5. q = [n \in 1 .. N |-> q[n]]
  BY <1>2
<1>6. PickedPlaces(I, q, s, InOrder(I))
  BY <1>1, <1>3, <1>4 DEF PickedPlaces
<1> QED
  BY <1>1, <1>3, <1>5, <1>6 DEF q, N

(* Each place in the order has as many before it.                           *)
LEMMA InOrderAt ==
  ASSUME NEW S \in SUBSET Int, IsFiniteSet(S)
  PROVE  /\ \A k \in 1 .. Cardinality(S) :
              InOrder(S)[k] \in S /\ Cardinality(Below(S, InOrder(S)[k])) = k - 1
         /\ \A k \in 1 .. Cardinality(S), x \in S :
              Cardinality(Below(S, x)) = k - 1 => InOrder(S)[k] = x
<1> DEFINE N == Cardinality(S)
           At(n) == CHOOSE x \in S : Cardinality(Below(S, x)) = n - 1
<1>1. InOrder(S) = [n \in 1 .. N |-> At(n)]
  BY DEF InOrder, Below
<1>2. ASSUME NEW k \in 1 .. N PROVE At(k) \in S /\ Cardinality(Below(S, At(k))) = k - 1
  <2>1. \E x \in S : Cardinality(Below(S, x)) = k - 1
    BY RanksOccur
  <2> QED
    BY <2>1
<1> HIDE DEF At
<1>3. ASSUME NEW x \in S, NEW y \in S, Cardinality(Below(S, x)) = Cardinality(Below(S, y))
      PROVE  x = y
  <2>1. y < x => Cardinality(Below(S, y)) < Cardinality(Below(S, x))
    BY BelowGrows
  <2>2. x < y => Cardinality(Below(S, x)) < Cardinality(Below(S, y))
    BY BelowGrows
  <2>3. Cardinality(Below(S, x)) \in Nat /\ y \in Int /\ x \in Int
    BY BelowSize
  <2> QED
    BY <1>3, <2>1, <2>2, <2>3
<1> QED
  BY <1>1, <1>2, <1>3

(* One position more, behind the others.                                    *)
OneMore(s, t, I, n) ==
  /\ Picked(t, I) = Picked(s, I)
  /\ Len(Picked(t, I \cup {n})) = Len(Picked(s, I)) + 1
  /\ \A k \in 1 .. Len(Picked(s, I)) : Picked(t, I \cup {n})[k] = Picked(s, I)[k]
  /\ Picked(t, I \cup {n})[Len(Picked(s, I)) + 1] = t[n]
LEMMA PickedMore ==
  ASSUME NEW s, NEW t, NEW I \in SUBSET Int, IsFiniteSet(I), NEW n \in Int,
         \A i \in I : i < n /\ t[i] = s[i]
  PROVE  OneMore(s, t, I, n)
<1> DEFINE N == Cardinality(I)
           J == I \cup {n}
<1>1. J \in SUBSET Int /\ n \notin I /\ n \in J
  OBVIOUS
<1>2. IsFiniteSet(J) /\ Cardinality(J) = N + 1 /\ N \in Nat
  BY <1>1, FS_AddElement, FS_CardinalityType
<1>3. /\ InOrder(I) \in [1 .. N -> I]
      /\ \A k \in 1 .. N : InOrder(I)[k] \in I /\ Cardinality(Below(I, InOrder(I)[k])) = k - 1
  BY InOrderAt, InOrderIs
<1>4. /\ InOrder(J) \in [1 .. Cardinality(J) -> J]
      /\ \A k \in 1 .. Cardinality(J), x \in J :
           Cardinality(Below(J, x)) = k - 1 => InOrder(J)[k] = x
  BY <1>1, <1>2, InOrderAt, InOrderIs
<1>5. Below(J, n) = I /\ \A x \in I : Below(J, x) = Below(I, x)
  <2>1. \A x \in I : x < n /\ x \in Int /\ ~(n < x)
    OBVIOUS
  <2>2. ~(n < n)
    OBVIOUS
  <2>3. \A y : y \in J <=> y \in I \/ y = n
    OBVIOUS
  <2> HIDE DEF J
  <2> QED
    BY <2>1, <2>2, <2>3, Zenon DEF Below
<1> HIDE DEF J
<1>6. \A k \in 1 .. N : InOrder(J)[k] = InOrder(I)[k]
  <2> TAKE k \in 1 .. N
  <2>1. InOrder(I)[k] \in I /\ Cardinality(Below(I, InOrder(I)[k])) = k - 1
    BY <1>3
  <2>2. InOrder(I)[k] \in J /\ Cardinality(Below(J, InOrder(I)[k])) = k - 1
    BY <1>5, <2>1 DEF J
  <2>3. k \in 1 .. Cardinality(J)
    BY <1>2
  <2> QED
    BY <1>4, <2>2, <2>3
<1>7. InOrder(J)[N + 1] = n
  <2>1. N + 1 \in 1 .. Cardinality(J) /\ Cardinality(Below(J, n)) = (N + 1) - 1
    BY <1>2, <1>5
  <2> QED
    BY <1>1, <1>4, <2>1
<1>8. /\ Picked(s, I) = [k \in 1 .. N |-> s[InOrder(I)[k]]]
      /\ Picked(t, I) = [k \in 1 .. N |-> t[InOrder(I)[k]]]
  BY <1>3 DEF Picked
<1>9. Picked(t, J) = [k \in 1 .. N + 1 |-> t[InOrder(J)[k]]]
  BY <1>2, <1>4 DEF Picked
<1>10. Len(Picked(s, I)) = N /\ Len(Picked(t, J)) = N + 1
  BY <1>1, <1>2, PickedIs
<1>11. \A k \in 1 .. N : t[InOrder(I)[k]] = s[InOrder(I)[k]]
  BY <1>3
<1>12. Picked(t, I) = Picked(s, I)
  BY <1>8, <1>11
<1>13. ASSUME NEW k \in 1 .. N PROVE Picked(t, J)[k] = Picked(s, I)[k]
  <2>1. k \in 1 .. N + 1
    BY <1>2
  <2>2. Picked(t, J)[k] = t[InOrder(J)[k]]
    BY <1>9, <2>1
  <2>3. Picked(s, I)[k] = s[InOrder(I)[k]]
    BY <1>8
  <2> QED
    BY <1>6, <1>11, <2>2, <2>3
<1>14. Picked(t, J)[N + 1] = t[n]
  <2>1. N + 1 \in 1 .. N + 1
    BY <1>2
  <2> QED
    BY <1>7, <1>9, <2>1
<1> QED
  BY <1>10, <1>12, <1>13, <1>14 DEF J, OneMore

-----------------------------------------------------------------------------
(* Sums over finite sets *)

SumOver(f, S) == FoldFunctionOnSet(LAMBDA x, y : x + y, 0, f, S)

(* What adds up f over the subsets of S that have at most n members.        *)
Small(S, n) == {s \in SUBSET S : IsFiniteSet(s) /\ Cardinality(s) <= n}
AddsUp(h, f, D) ==
  h = [s \in D |-> IF s = {} THEN 0
                   ELSE LET x == CHOOSE x \in s : TRUE IN f[x] + h[s \ {x}]]

(* Sums of small subsets exist.                                             *)
LEMMA AddsUpOccurs ==
  ASSUME NEW S, NEW f, NEW N \in Nat
  PROVE  \E h : AddsUp(h, f, Small(S, N))
<1> DEFINE T == {n \in Nat : \E h : AddsUp(h, f, Small(S, n))}
<1>1. 0 \in T
  <2> DEFINE h == [s \in Small(S, 0) |-> 0]
  <2>1. \A s \in Small(S, 0) : s = {}
    BY FS_CardinalityType, FS_EmptySet DEF Small
  <2>2. h = [s \in Small(S, 0) |-> IF s = {} THEN 0
                   ELSE LET x == CHOOSE x \in s : TRUE IN f[x] + h[s \ {x}]]
    BY <2>1
  <2>3. AddsUp(h, f, Small(S, 0))
    BY <2>2 DEF AddsUp
  <2> QED
    BY <2>3
<1>2. ASSUME NEW n \in 0 .. N - 1, n \in T PROVE n + 1 \in T
  <2>1. PICK g : AddsUp(g, f, Small(S, n))
    BY <1>2
  <2> DEFINE Part(s) == LET x == CHOOSE x \in s : TRUE IN f[x] + g[s \ {x}]
             h == [s \in Small(S, n + 1) |-> IF s \in Small(S, n) THEN g[s] ELSE Part(s)]
  <2>2. \A s \in Small(S, n) : s \in Small(S, n + 1)
    BY FS_CardinalityType DEF Small
  <2>3. \A s \in Small(S, n) : h[s] = g[s]
    BY <2>2
  <2>4. ASSUME NEW s \in Small(S, n + 1), s # {}
        PROVE  s \ {CHOOSE x \in s : TRUE} \in Small(S, n)
    <3>1. PICK x \in s : x = CHOOSE y \in s : TRUE
      BY <2>4
    <3>2. IsFiniteSet(s) /\ Cardinality(s) <= n + 1 /\ s \subseteq S /\ Cardinality(s) \in Nat
      BY FS_CardinalityType DEF Small
    <3>3. IsFiniteSet(s \ {x}) /\ Cardinality(s \ {x}) = Cardinality(s) - 1
      BY <3>2, FS_RemoveElement
    <3> QED
      BY <3>1, <3>2, <3>3 DEF Small
  <2>5. {} \in Small(S, n)
    BY FS_EmptySet DEF Small
  <2>6. \A s \in Small(S, n) : g[s] = IF s = {} THEN 0 ELSE Part(s)
    BY <2>1 DEF AddsUp
  <2>7. ASSUME NEW s \in Small(S, n + 1), s # {}
        PROVE  Part(s) = LET x == CHOOSE x \in s : TRUE IN f[x] + h[s \ {x}]
    BY <2>3, <2>4, <2>7
  <2>8. ASSUME NEW s \in Small(S, n + 1)
        PROVE  h[s] = IF s = {} THEN 0 ELSE Part(s)
    BY <2>5, <2>6
  <2> HIDE DEF h, Part
  <2>9. \A s \in Small(S, n + 1) :
          h[s] = IF s = {} THEN 0 ELSE LET x == CHOOSE x \in s : TRUE IN f[x] + h[s \ {x}]
    BY <2>7, <2>8
  <2>10. h = [s \in Small(S, n + 1) |-> h[s]]
    BY DEF h
  <2>11. [s \in Small(S, n + 1) |-> h[s]]
         = [s \in Small(S, n + 1) |->
              IF s = {} THEN 0 ELSE LET x == CHOOSE x \in s : TRUE IN f[x] + h[s \ {x}]]
    BY <2>9
  <2>12. AddsUp(h, f, Small(S, n + 1))
    BY <2>10, <2>11 DEF AddsUp
  <2> QED
    BY <2>12
<1>3. N \in T
  <2> HIDE DEF T
  <2> QED
    BY <1>1, <1>2, CountsUp
<1> QED
  BY <1>3

(* What adds up two sets of subsets is the same on those in both.           *)
LEMMA AddsUpSame ==
  ASSUME NEW S, NEW R \in SUBSET S, IsFiniteSet(S), NEW f, NEW g, NEW h,
         AddsUp(g, f, SUBSET S), AddsUp(h, f, SUBSET R)
  PROVE  \A s \in SUBSET R : g[s] = h[s]
<1> DEFINE T == {n \in Nat : \A s \in SUBSET R : Cardinality(s) <= n => g[s] = h[s]}
           N == Cardinality(S)
<1>0. N \in Nat /\ \A s \in SUBSET S : IsFiniteSet(s) /\ Cardinality(s) \in Nat /\ Cardinality(s) <= N
  BY FS_Subset, FS_CardinalityType
<1>1. /\ \A s \in SUBSET S : g[s] = IF s = {} THEN 0
                   ELSE LET x == CHOOSE x \in s : TRUE IN f[x] + g[s \ {x}]
      /\ \A s \in SUBSET R : h[s] = IF s = {} THEN 0
                   ELSE LET x == CHOOSE x \in s : TRUE IN f[x] + h[s \ {x}]
  BY DEF AddsUp
<1>2. 0 \in T
  <2>1. \A s \in SUBSET R : Cardinality(s) <= 0 => s = {}
    BY <1>0, FS_EmptySet
  <2> QED
    BY <1>1, <2>1
<1>3. ASSUME NEW n \in 0 .. N - 1, n \in T PROVE n + 1 \in T
  <2>1. ASSUME NEW s \in SUBSET R, Cardinality(s) <= n + 1, s # {} PROVE g[s] = h[s]
    <3>1. PICK x \in s : x = CHOOSE y \in s : TRUE
      BY <2>1
    <3>2. IsFiniteSet(s) /\ Cardinality(s) \in Nat
      BY <1>0
    <3>3. Cardinality(s \ {x}) = Cardinality(s) - 1
      BY <3>2, FS_RemoveElement
    <3>4. g[s \ {x}] = h[s \ {x}]
      BY <1>3, <2>1, <3>2, <3>3
    <3>5. g[s] = f[x] + g[s \ {x}] /\ h[s] = f[x] + h[s \ {x}]
      BY <1>1, <2>1, <3>1
    <3> QED
      BY <3>4, <3>5
  <2>2. g[{}] = h[{}]
    BY <1>1
  <2> QED
    BY <2>1, <2>2
<1>4. N \in T
  <2> HIDE DEF T, N
  <2> QED
    BY <1>0, <1>2, <1>3, CountsUp
<1> QED
  BY <1>0, <1>4

(* A sum takes one member and the sum of the rest.                          *)
LEMMA SumTakes ==
  ASSUME NEW S, IsFiniteSet(S), NEW f
  PROVE  /\ S = {} => SumOver(f, S) = 0
         /\ S # {} => \E x \in S : SumOver(f, S) = f[x] + SumOver(f, S \ {x})
<1> DEFINE Iter(R) == CHOOSE h : AddsUp(h, f, SUBSET R)
<1>1. ASSUME NEW R \in SUBSET S PROVE AddsUp(Iter(R), f, SUBSET R) /\ SumOver(f, R) = Iter(R)[R]
  <2>1. IsFiniteSet(R) /\ Cardinality(R) \in Nat
    BY FS_Subset, FS_CardinalityType
  <2>2. SUBSET R = Small(R, Cardinality(R))
    BY <2>1, FS_Subset DEF Small
  <2>3. \E h : AddsUp(h, f, SUBSET R)
    <3>1. \E h : AddsUp(h, f, Small(R, Cardinality(R)))
      BY <2>1, AddsUpOccurs
    <3> QED
      BY <2>2, <3>1
  <2>4. SumOver(f, R) = Iter(R)[R]
    BY DEF SumOver, FoldFunctionOnSet, MapThenFoldSet, AddsUp
  <2> QED
    BY <2>3, <2>4
<1>2. ASSUME NEW R \in SUBSET S
      PROVE  Iter(R)[R] = IF R = {} THEN 0
                          ELSE LET x == CHOOSE x \in R : TRUE IN f[x] + Iter(R)[R \ {x}]
  <2>1. AddsUp(Iter(R), f, SUBSET R) /\ R \in SUBSET R
    BY <1>1
  <2> HIDE DEF Iter
  <2> QED
    BY <2>1 DEF AddsUp
<1>3. ASSUME NEW x \in S PROVE Iter(S)[S \ {x}] = Iter(S \ {x})[S \ {x}]
  <2>1. AddsUp(Iter(S), f, SUBSET S) /\ AddsUp(Iter(S \ {x}), f, SUBSET (S \ {x}))
    BY <1>1
  <2> HIDE DEF Iter
  <2> DEFINE R == S \ {x}
  <2>0. R \in SUBSET S /\ AddsUp(Iter(R), f, SUBSET R)
    BY <2>1
  <2> HIDE DEF R
  <2>2. \A s \in SUBSET R : Iter(S)[s] = Iter(R)[s]
    BY <2>0, <2>1, AddsUpSame
  <2> USE DEF R
  <2> QED
    BY <2>2
<1> HIDE DEF Iter
<1>4. S = {} => SumOver(f, S) = 0
  BY <1>1, <1>2
<1>5. ASSUME S # {} PROVE \E x \in S : SumOver(f, S) = f[x] + SumOver(f, S \ {x})
  <2>1. PICK x \in S : x = CHOOSE y \in S : TRUE
    BY <1>5
  <2>2. Iter(S)[S] = f[x] + Iter(S)[S \ {x}]
    BY <1>2, <1>5, <2>1
  <2>3. SumOver(f, S \ {x}) = Iter(S \ {x})[S \ {x}] /\ SumOver(f, S) = Iter(S)[S]
    BY <1>1
  <2>4. Iter(S)[S \ {x}] = Iter(S \ {x})[S \ {x}]
    BY <1>3
  <2> QED
    BY <2>2, <2>3, <2>4
<1> QED
  BY <1>4, <1>5

(* The members of a finite set can be taken one by one.                     *)
LEMMA SetsGrow ==
  ASSUME NEW S, IsFiniteSet(S), NEW U, {} \in U,
         \A R \in SUBSET S : \A x \in S \ R : R \in U => R \cup {x} \in U
  PROVE  S \in U
<1> DEFINE T == {n \in Nat : \A R \in SUBSET S : Cardinality(R) <= n => R \in U}
           N == Cardinality(S)
<1>0. N \in Nat /\ \A s \in SUBSET S : IsFiniteSet(s) /\ Cardinality(s) \in Nat /\ Cardinality(s) <= N
  BY FS_Subset, FS_CardinalityType
<1>1. 0 \in T
  <2>1. \A s \in SUBSET S : Cardinality(s) <= 0 => s = {}
    BY <1>0, FS_EmptySet
  <2> QED
    BY <2>1
<1>2. ASSUME NEW n \in 0 .. N - 1, n \in T PROVE n + 1 \in T
  <2>1. ASSUME NEW s \in SUBSET S, Cardinality(s) <= n + 1, s # {} PROVE s \in U
    <3>1. PICK x \in s : TRUE
      BY <2>1
    <3>2. IsFiniteSet(s) /\ Cardinality(s) \in Nat
      BY <1>0
    <3>3. Cardinality(s \ {x}) = Cardinality(s) - 1
      BY <3>2, FS_RemoveElement
    <3>4. s \ {x} \in U
      BY <1>2, <2>1, <3>2, <3>3
    <3>5. (s \ {x}) \cup {x} = s /\ x \in S \ (s \ {x}) /\ s \ {x} \in SUBSET S
      OBVIOUS
    <3> QED
      BY <3>4, <3>5
  <2> QED
    BY <2>1
<1>3. N \in T
  <2> HIDE DEF T, N
  <2> QED
    BY <1>0, <1>1, <1>2, CountsUp
<1> QED
  BY <1>0, <1>3

(* A sum of natural numbers is one, and takes any of its members apart.     *)
LEMMA SumApart ==
  ASSUME NEW S, IsFiniteSet(S), NEW f, \A x \in S : f[x] \in Nat
  PROVE  /\ SumOver(f, S) \in Nat
         /\ \A x \in S : SumOver(f, S) = f[x] + SumOver(f, S \ {x})
<1> DEFINE Apart(R) == /\ SumOver(f, R) \in Nat
                       /\ \A x \in R : SumOver(f, R) = f[x] + SumOver(f, R \ {x})
           T == {n \in Nat : \A R \in SUBSET S : Cardinality(R) <= n => Apart(R)}
           N == Cardinality(S)
<1>0. N \in Nat /\ \A s \in SUBSET S : IsFiniteSet(s) /\ Cardinality(s) \in Nat /\ Cardinality(s) <= N
  BY FS_Subset, FS_CardinalityType
<1>1. 0 \in T
  <2>1. \A s \in SUBSET S : Cardinality(s) <= 0 => s = {}
    BY <1>0, FS_EmptySet
  <2>2. Apart({})
    BY SumTakes, FS_EmptySet
  <2> HIDE DEF Apart
  <2> QED
    BY <2>1, <2>2
<1>2. ASSUME NEW n \in 0 .. N - 1, n \in T PROVE n + 1 \in T
  <2>1. ASSUME NEW R \in SUBSET S, Cardinality(R) <= n + 1, R # {} PROVE Apart(R)
    <3>0. IsFiniteSet(R) /\ Cardinality(R) \in Nat
      BY <1>0
    <3>1. ASSUME NEW x \in R PROVE Cardinality(R \ {x}) <= n /\ Apart(R \ {x})
      <4>1. Cardinality(R \ {x}) = Cardinality(R) - 1
        BY <3>0, FS_RemoveElement
      <4>2. Cardinality(R \ {x}) <= n /\ R \ {x} \in SUBSET S
        BY <2>1, <3>0, <4>1
      <4> HIDE DEF Apart
      <4> QED
        BY <1>2, <4>2
    <3>2. PICK y \in R : SumOver(f, R) = f[y] + SumOver(f, R \ {y})
      BY <2>1, <3>0, SumTakes
    <3>3. SumOver(f, R) \in Nat
      <4>1. SumOver(f, R \ {y}) \in Nat /\ f[y] \in Nat
        BY <3>1
      <4> QED
        BY <3>2, <4>1
    <3>4. ASSUME NEW x \in R PROVE SumOver(f, R) = f[x] + SumOver(f, R \ {x})
      <4>1. CASE x = y
        BY <3>2, <4>1
      <4>2. CASE x # y
        <5>1. SumOver(f, R \ {y}) = f[x] + SumOver(f, (R \ {y}) \ {x})
          BY <3>1, <4>2
        <5>2. SumOver(f, R \ {x}) = f[y] + SumOver(f, (R \ {x}) \ {y})
          BY <3>1, <4>2
        <5>3. (R \ {y}) \ {x} = (R \ {x}) \ {y}
          OBVIOUS
        <5>4. SumOver(f, (R \ {x}) \ {y}) \in Nat
          <6>1. Cardinality((R \ {x}) \ {y}) <= n /\ (R \ {x}) \ {y} \in SUBSET S
            <7>1. IsFiniteSet(R \ {x}) /\ Cardinality(R \ {x}) \in Nat /\ R \ {x} \in SUBSET S
              BY <1>0
            <7>2. Cardinality((R \ {x}) \ {y}) <= Cardinality(R \ {x})
              BY <7>1, FS_Subset
            <7>3. Cardinality((R \ {x}) \ {y}) \in Nat
              BY <1>0
            <7>4. Cardinality(R \ {x}) <= n
              BY <3>1
            <7>5. n \in Int
              BY <1>0
            <7>6. (R \ {x}) \ {y} \in SUBSET S
              OBVIOUS
            <7> QED
              BY <7>1, <7>2, <7>3, <7>4, <7>5, <7>6
          <6>2. Apart((R \ {x}) \ {y})
            <7> HIDE DEF Apart
            <7> QED
              BY <1>2, <6>1
          <6> QED
            BY <6>2
        <5>5. f[x] \in Nat /\ f[y] \in Nat
          OBVIOUS
        <5>6. SumOver(f, R) = f[y] + (f[x] + SumOver(f, (R \ {x}) \ {y}))
          BY <3>2, <5>1, <5>3
        <5>7. \A a, b, c \in Nat : a + (b + c) = b + (a + c)
          OBVIOUS
        <5>8. f[y] + (f[x] + SumOver(f, (R \ {x}) \ {y}))
              = f[x] + (f[y] + SumOver(f, (R \ {x}) \ {y}))
          BY <5>4, <5>5, <5>7
        <5> QED
          BY <5>2, <5>6, <5>8
      <4> QED
        BY <4>1, <4>2
    <3> QED
      BY <3>3, <3>4
  <2>2. Apart({})
    BY SumTakes, FS_EmptySet
  <2> HIDE DEF Apart
  <2> QED
    BY <2>1, <2>2
<1>3. N \in T
  <2> HIDE DEF T, N
  <2> QED
    BY <1>0, <1>1, <1>2, CountsUp
<1> QED
  BY <1>0, <1>3

(* A sum over a set that is one larger.                                     *)
LEMMA SumAdds ==
  ASSUME NEW S, IsFiniteSet(S), NEW f, NEW x, x \notin S, \A y \in S \cup {x} : f[y] \in Nat
  PROVE  /\ SumOver(f, S) \in Nat /\ SumOver(f, S \cup {x}) \in Nat
         /\ SumOver(f, S \cup {x}) = f[x] + SumOver(f, S)
<1> DEFINE T == S \cup {x}
<1>1. IsFiniteSet(T) /\ x \in T /\ T \ {x} = S
  BY FS_AddElement
<1>2. \A y \in T : f[y] \in Nat
  OBVIOUS
<1> HIDE DEF T
<1>3. SumOver(f, T) \in Nat /\ SumOver(f, T) = f[x] + SumOver(f, T \ {x})
  BY <1>1, <1>2, SumApart
<1>4. SumOver(f, S) \in Nat
  BY SumApart
<1> QED
  BY <1>1, <1>3, <1>4 DEF T

(* A sum is no more than one that has as much somewhere else for each of its*)
(* members.                                                                 *)
LEMMA SumInjected ==
  ASSUME NEW S, IsFiniteSet(S), NEW f, NEW T, IsFiniteSet(T), NEW g, NEW m \in [S -> T],
         \A x \in S : f[x] \in Nat /\ f[x] <= g[m[x]],
         \A x \in T : g[x] \in Nat,
         \A x, y \in S : m[x] = m[y] => x = y
  PROVE  SumOver(f, S) <= SumOver(g, T)
<1> DEFINE U == {R \in SUBSET S : \A V \in SUBSET T :
                   (\A x \in R : m[x] \in V) => SumOver(f, R) <= SumOver(g, V)}
<1>1. \A V \in SUBSET T : IsFiniteSet(V) /\ SumOver(g, V) \in Nat
  <2> TAKE V \in SUBSET T
  <2>1. IsFiniteSet(V)
    BY FS_Subset
  <2>2. \A x \in V : g[x] \in Nat
    OBVIOUS
  <2> QED
    BY <2>1, <2>2, SumApart
<1>2. {} \in U
  <2>1. SumOver(f, {}) = 0
    BY SumTakes, FS_EmptySet
  <2> QED
    BY <1>1, <2>1
<1>3. ASSUME NEW R \in SUBSET S, NEW x \in S \ R, R \in U PROVE R \cup {x} \in U
  <2>1. ASSUME NEW V \in SUBSET T, \A y \in R \cup {x} : m[y] \in V
        PROVE  SumOver(f, R \cup {x}) <= SumOver(g, V)
    <3>1. IsFiniteSet(R) /\ x \notin R /\ \A y \in R \cup {x} : f[y] \in Nat
      BY FS_Subset
    <3>2. SumOver(f, R) \in Nat /\ SumOver(f, R \cup {x}) = f[x] + SumOver(f, R)
      BY <3>1, SumAdds
    <3>3. m[x] \in V /\ \A y \in V : g[y] \in Nat
      BY <2>1
    <3>4. SumOver(g, V) = g[m[x]] + SumOver(g, V \ {m[x]})
      BY <1>1, <3>3, SumApart
    <3>5. \A y \in R : m[y] \in V \ {m[x]}
      BY <2>1
    <3>6. SumOver(f, R) <= SumOver(g, V \ {m[x]}) /\ SumOver(g, V \ {m[x]}) \in Nat
      BY <1>1, <1>3, <3>5
    <3>7. f[x] \in Nat /\ g[m[x]] \in Nat /\ f[x] <= g[m[x]]
      OBVIOUS
    <3> QED
      BY <3>2, <3>4, <3>6, <3>7
  <2> QED
    BY <2>1
<1>4. S \in U
  <2> HIDE DEF U
  <2> QED
    BY <1>2, <1>3, SetsGrow
<1> QED
  BY <1>4

(* A sum over both of two sets is no more than the two sums.                *)
LEMMA SumOfBoth ==
  ASSUME NEW S, IsFiniteSet(S), NEW T, IsFiniteSet(T), NEW f, \A x \in S \cup T : f[x] \in Nat
  PROVE  /\ SumOver(f, S \cup T) \in Nat /\ SumOver(f, S) \in Nat /\ SumOver(f, T) \in Nat
         /\ SumOver(f, S \cup T) <= SumOver(f, S) + SumOver(f, T)
<1> DEFINE U == {R \in SUBSET S : SumOver(f, R \cup T) <= SumOver(f, R) + SumOver(f, T)}
<1>1. \A R \in SUBSET S : /\ IsFiniteSet(R) /\ IsFiniteSet(R \cup T)
                          /\ SumOver(f, R) \in Nat /\ SumOver(f, R \cup T) \in Nat
  <2> TAKE R \in SUBSET S
  <2>1. IsFiniteSet(R)
    BY FS_Subset
  <2>2. IsFiniteSet(R \cup T)
    BY <2>1, FS_Union
  <2>3. (\A x \in R : f[x] \in Nat) /\ (\A x \in R \cup T : f[x] \in Nat)
    OBVIOUS
  <2> QED
    BY <2>1, <2>2, <2>3, SumApart
<1>2. SumOver(f, T) \in Nat
  <2>1. \A x \in T : f[x] \in Nat
    OBVIOUS
  <2> QED
    BY <2>1, SumApart
<1>3. {} \in U
  <2>1. SumOver(f, {}) = 0 /\ {} \cup T = T
    BY SumTakes, FS_EmptySet
  <2> QED
    BY <1>2, <2>1
<1>4. ASSUME NEW R \in SUBSET S, NEW x \in S \ R, R \in U PROVE R \cup {x} \in U
  <2>0. f[x] \in Nat /\ SumOver(f, R) \in Nat /\ SumOver(f, R \cup T) \in Nat
    BY <1>1
  <2>1. SumOver(f, R \cup {x}) = f[x] + SumOver(f, R)
    <3>1. x \notin R /\ \A y \in R \cup {x} : f[y] \in Nat
      OBVIOUS
    <3> QED
      BY <1>1, <3>1, SumAdds
  <2>4. SumOver(f, R \cup T) <= SumOver(f, R) + SumOver(f, T)
    BY <1>4
  <2> SUFFICES SumOver(f, (R \cup {x}) \cup T) <= SumOver(f, R \cup {x}) + SumOver(f, T)
    OBVIOUS
  <2> HIDE DEF U
  <2>2. CASE x \in T
    <3>1. (R \cup {x}) \cup T = R \cup T
      BY <2>2
    <3> QED
      BY <1>2, <2>0, <2>1, <2>4, <3>1
  <2>3. CASE x \notin T
    <3>1. (R \cup {x}) \cup T = (R \cup T) \cup {x}
      OBVIOUS
    <3>2. x \notin R \cup T /\ \A y \in (R \cup T) \cup {x} : f[y] \in Nat
      BY <2>3
    <3>3. SumOver(f, (R \cup T) \cup {x}) = f[x] + SumOver(f, R \cup T)
      BY <1>1, <3>2, SumAdds
    <3>4. SumOver(f, (R \cup {x}) \cup T) = f[x] + SumOver(f, R \cup T)
      BY <3>1, <3>3
    <3>5. \A a, b, c, d \in Nat : b <= c + d => a + b <= (a + c) + d
      OBVIOUS
    <3>6. f[x] + SumOver(f, R \cup T) <= (f[x] + SumOver(f, R)) + SumOver(f, T)
      BY <1>2, <2>0, <2>4, <3>5
    <3> QED
      BY <2>1, <3>4, <3>6
  <2> QED
    BY <2>2, <2>3
<1>5. S \in U
  <2> HIDE DEF U
  <2> QED
    BY <1>3, <1>4, SetsGrow
<1> QED
  BY <1>1, <1>2, <1>5

(* A sum of at most c each.                                                 *)
LEMMA SumBounded ==
  ASSUME NEW S, IsFiniteSet(S), NEW f, NEW c \in Nat, \A x \in S : f[x] \in 0 .. c
  PROVE  Cardinality(S) \in Nat /\ SumOver(f, S) \in Nat /\ SumOver(f, S) <= c * Cardinality(S)
<1> DEFINE U == {R \in SUBSET S : SumOver(f, R) <= c * Cardinality(R)}
<1>1. \A R \in SUBSET S : IsFiniteSet(R) /\ Cardinality(R) \in Nat /\ SumOver(f, R) \in Nat
  <2> TAKE R \in SUBSET S
  <2>1. IsFiniteSet(R) /\ \A x \in R : f[x] \in Nat
    BY FS_Subset
  <2> QED
    BY <2>1, SumApart, FS_CardinalityType
<1>2. {} \in U
  <2>1. SumOver(f, {}) = 0 /\ Cardinality({}) = 0 /\ c * 0 = 0
    BY SumTakes, FS_EmptySet
  <2> QED
    BY <2>1
<1>3. ASSUME NEW R \in SUBSET S, NEW x \in S \ R, R \in U PROVE R \cup {x} \in U
  <2>1. x \notin R /\ \A y \in R \cup {x} : f[y] \in Nat
    OBVIOUS
  <2>2. SumOver(f, R \cup {x}) = f[x] + SumOver(f, R) /\ f[x] \in 0 .. c
    BY <1>1, <2>1, SumAdds
  <2>3. Cardinality(R \cup {x}) = Cardinality(R) + 1
    BY <1>1, <2>1, FS_AddElement
  <2>4. ASSUME NEW n \in Nat PROVE c * (n + 1) = c * n + c /\ c * n \in Nat
    OBVIOUS
  <2>5. /\ c * (Cardinality(R) + 1) = c * Cardinality(R) + c
        /\ c * Cardinality(R) \in Nat /\ SumOver(f, R) <= c * Cardinality(R) /\ SumOver(f, R) \in Nat
    BY <1>1, <1>3, <2>4
  <2>6. SumOver(f, R \cup {x}) <= c * Cardinality(R \cup {x})
    BY <2>2, <2>3, <2>5
  <2> QED
    BY <2>6
<1>4. S \in U
  <2> HIDE DEF U
  <2> QED
    BY <1>2, <1>3, SetsGrow
<1> QED
  BY <1>1, <1>4

-----------------------------------------------------------------------------
(* Folds *)

(* The greatest of a set, that has one.                                     *)
LEMMA MaxIs ==
  ASSUME NEW S, NEW x \in S, \A y \in S : y <= x /\ y \in Int
  PROVE  Max(S) = x
<1>1. x >= x /\ \A y \in S : x >= y
  OBVIOUS
<1>2. Max(S) \in S /\ \A y \in S : Max(S) >= y
  BY <1>1 DEF Max
<1>3. Max(S) >= x /\ x >= Max(S) /\ Max(S) \in Int /\ x \in Int
  BY <1>2
<1> QED
  BY <1>3

(* A set that is covered by the values on a finite set has no more members. *)
LEMMA CoveredBy ==
  ASSUME NEW S, IsFiniteSet(S), NEW f, NEW T, \A y \in T : \E x \in S : f[x] = y
  PROVE  /\ IsFiniteSet(T) /\ Cardinality(T) <= Cardinality(S)
         /\ Cardinality(T) \in Nat /\ Cardinality(S) \in Nat
<1> DEFINE I == {f[x] : x \in S}
           g == [x \in S |-> f[x]]
<1>1. g \in Surjection(S, I)
  BY DEF Surjection
<1>2. IsFiniteSet(I) /\ Cardinality(I) <= Cardinality(S)
  BY <1>1, FS_Surjection
<1>3. T \in SUBSET I
  OBVIOUS
<1> HIDE DEF I
<1>4. IsFiniteSet(T) /\ Cardinality(T) <= Cardinality(I)
  BY <1>2, <1>3, FS_Subset
<1>5. Cardinality(T) \in Nat /\ Cardinality(S) \in Nat /\ Cardinality(I) \in Nat
  BY <1>2, <1>4, FS_CardinalityType
<1> QED
  BY <1>2, <1>4, <1>5
=============================================================================
