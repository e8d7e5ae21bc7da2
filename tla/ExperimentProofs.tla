--------------------------- MODULE ExperimentProofs ---------------------------
(***************************************************************************)
(* Proofs about Experiment: what a snapshot's cache holds is what a draw   *)
(* of exactly that length would give, and the rows a chunk binds are       *)
(* prefixes of the rows of its whole design point, however the study was   *)
(* cut into chunks and however often a chunk was extended; so a trial has  *)
(* the outcome it would have had on rows long enough from the start, and   *)
(* is rerun only as often as that takes.                                   *)
(*                                                                         *)
(* The invariant, ExperimentInv, says of every step of a call what the     *)
(* next one relies on: the request it works for, the groups cut from it,   *)
(* the chunk planned within the memory limit, the blocks as planned and    *)
(* bound, and the cache sound.  The folds of the model are unrolled step   *)
(* by step first, then each helper gets its lemma, then each action.       *)
(* OutcomesInv, further down, adds what is known of a trial's outcome from *)
(* its run in a block to the results of a call.                            *)
(* ReportsInv adds that what a trial saw is generated again from what it   *)
(* consumed, and is found where the report looks for it.                   *)
(***************************************************************************)
EXTENDS ExperimentProps, Counting, SequenceTheorems

-----------------------------------------------------------------------------
(* The folds of the model, step by step *)

(* Rows added to a cache.                                                  *)
AddedFolds(h, memory, base, seq, D) ==
  h = [s \in D |-> IF s = {} THEN base ELSE Added(h[s \ {Max(s)}], seq[Max(s)], memory)]
AddedSteps(f, memory, base, seq, N) ==
  /\ f[0] = base /\ AddedAll(base, seq, memory) = f[N]
  /\ \A n \in 1 .. N : f[n] = Added(f[n - 1], seq[n], memory)
LEMMA AddedFold ==
  ASSUME NEW base, NEW seq, NEW memory, NEW N \in Nat, DOMAIN seq = 1 .. N
  PROVE  \E f : AddedSteps(f, memory, base, seq, N)
<1> DEFINE T == {n \in Nat : \E h : AddedFolds(h, memory, base, seq, SUBSET (1 .. n))}
<1>1. 0 \in T
  <2> DEFINE h == [s \in SUBSET (1 .. 0) |-> base]
  <2>1. h = [s \in SUBSET (1 .. 0) |->
               IF s = {} THEN base ELSE Added(h[s \ {Max(s)}], seq[Max(s)], memory)]
    OBVIOUS
  <2>2. AddedFolds(h, memory, base, seq, SUBSET (1 .. 0))
    BY <2>1 DEF AddedFolds
  <2> QED
    BY <2>2
<1>2. ASSUME NEW n \in 0 .. N - 1, n \in T PROVE n + 1 \in T
  <2>1. PICK g : AddedFolds(g, memory, base, seq, SUBSET (1 .. n))
    BY <1>2
  <2> DEFINE D == SUBSET (1 .. n + 1)
             Next1(s) == Added(g[s \ {n + 1}], seq[n + 1], memory)
             h == [s \in D |-> IF n + 1 \in s THEN Next1(s) ELSE g[s]]
             Value(s) == IF s = {} THEN base ELSE Added(h[s \ {Max(s)}], seq[Max(s)], memory)
  <2>2. ASSUME NEW s \in D, n + 1 \in s PROVE h[s] = Value(s)
    <3>1. Max(s) = n + 1 /\ s # {}
      <4>1. n + 1 \in s /\ \A y \in s : y <= n + 1 /\ y \in Int
        BY <2>2
      <4> QED
        BY <4>1, MaxIs
    <3>2. s \ {n + 1} \in D /\ n + 1 \notin s \ {n + 1}
      OBVIOUS
    <3>3. h[s \ {n + 1}] = g[s \ {n + 1}]
      BY <3>2
    <3>4. h[s] = Next1(s)
      BY <2>2
    <3> HIDE DEF h
    <3> QED
      BY <3>1, <3>3, <3>4
  <2>3. ASSUME NEW s \in D, n + 1 \notin s PROVE h[s] = Value(s)
    <3>0. s \in SUBSET (1 .. n)
      BY <2>3
    <3>1. h[s] = g[s]
      BY <2>3
    <3>2. g[s] = IF s = {} THEN base ELSE Added(g[s \ {Max(s)}], seq[Max(s)], memory)
      BY <2>1, <3>0 DEF AddedFolds
    <3>3. s \ {Max(s)} \in D /\ n + 1 \notin s \ {Max(s)}
      BY <2>3
    <3>4. h[s \ {Max(s)}] = g[s \ {Max(s)}]
      BY <3>3
    <3> HIDE DEF h
    <3> QED
      BY <3>1, <3>2, <3>4
  <2>4. \A s \in D : h[s] = Value(s)
    BY <2>2, <2>3
  <2>5. h = [s \in D |-> h[s]]
    OBVIOUS
  <2> HIDE DEF h
  <2>6. [s \in D |-> h[s]] = [s \in D |-> Value(s)]
    BY <2>4
  <2>7. AddedFolds(h, memory, base, seq, SUBSET (1 .. n + 1))
    BY <2>5, <2>6 DEF AddedFolds
  <2> QED
    BY <2>7
<1>3. N \in T
  <2> HIDE DEF T
  <2>1. 0 .. N \subseteq T
    BY <1>1, <1>2, CountsUp
  <2> QED
    BY <2>1
<1> DEFINE h == CHOOSE h : AddedFolds(h, memory, base, seq, SUBSET DOMAIN seq)
<1>4. AddedFolds(h, memory, base, seq, SUBSET (1 .. N))
  BY <1>3
<1>5. AddedAll(base, seq, memory) = h[1 .. N]
  BY DEF AddedAll, FoldLeft, MapThenFoldSet, AddedFolds
<1> HIDE DEF h
<1> DEFINE f == [n \in 0 .. N |-> h[1 .. n]]
<1>6. f[0] = base
  <2>1. h[{}] = base
    BY <1>4 DEF AddedFolds
  <2>2. 1 .. 0 = {} /\ 0 \in 0 .. N
    OBVIOUS
  <2> QED
    BY <2>1, <2>2
<1>7. ASSUME NEW n \in 1 .. N PROVE f[n] = Added(f[n - 1], seq[n], memory)
  <2>1. 1 .. n # {} /\ 1 .. n \in SUBSET (1 .. N)
    <3>1. n \in 1 .. n /\ \A y \in 1 .. n : y \in 1 .. N
      OBVIOUS
    <3> QED
      BY <3>1
  <2>2. Max(1 .. n) = n
    <3>1. n \in 1 .. n /\ \A y \in 1 .. n : y <= n /\ y \in Int
      OBVIOUS
    <3> QED
      BY <3>1, MaxIs
  <2>3. (1 .. n) \ {n} = 1 .. n - 1
    OBVIOUS
  <2>4. h[1 .. n] = Added(h[1 .. n - 1], seq[n], memory)
    BY <1>4, <2>1, <2>2, <2>3 DEF AddedFolds
  <2>5. f[n] = h[1 .. n] /\ f[n - 1] = h[1 .. n - 1]
    OBVIOUS
  <2> QED
    BY <2>4, <2>5
<1>8. f[N] = h[1 .. N]
  OBVIOUS
<1> HIDE DEF f
<1>9. AddedSteps(f, memory, base, seq, N)
  BY <1>5, <1>6, <1>7, <1>8 DEF AddedSteps
<1> QED
  BY <1>9

(* The rows of a chunk, one row group after the other.                     *)
WithRowsFolds(h, memory, base, seq, D) ==
  h = [s \in D |-> IF s = {} THEN base ELSE WithRows(h[s \ {Max(s)}], seq[Max(s)], memory)]
WithRowsSteps(f, memory, base, seq, N) ==
  /\ f[0] = base /\ WithAllRows(base, seq, memory) = f[N]
  /\ \A n \in 1 .. N : f[n] = WithRows(f[n - 1], seq[n], memory)
LEMMA WithRowsFold ==
  ASSUME NEW base, NEW seq, NEW memory, NEW N \in Nat, DOMAIN seq = 1 .. N
  PROVE  \E f : WithRowsSteps(f, memory, base, seq, N)
<1> DEFINE T == {n \in Nat : \E h : WithRowsFolds(h, memory, base, seq, SUBSET (1 .. n))}
<1>1. 0 \in T
  <2> DEFINE h == [s \in SUBSET (1 .. 0) |-> base]
  <2>1. h = [s \in SUBSET (1 .. 0) |->
               IF s = {} THEN base ELSE WithRows(h[s \ {Max(s)}], seq[Max(s)], memory)]
    OBVIOUS
  <2>2. WithRowsFolds(h, memory, base, seq, SUBSET (1 .. 0))
    BY <2>1 DEF WithRowsFolds
  <2> QED
    BY <2>2
<1>2. ASSUME NEW n \in 0 .. N - 1, n \in T PROVE n + 1 \in T
  <2>1. PICK g : WithRowsFolds(g, memory, base, seq, SUBSET (1 .. n))
    BY <1>2
  <2> DEFINE D == SUBSET (1 .. n + 1)
             Next1(s) == WithRows(g[s \ {n + 1}], seq[n + 1], memory)
             h == [s \in D |-> IF n + 1 \in s THEN Next1(s) ELSE g[s]]
             Value(s) == IF s = {} THEN base ELSE WithRows(h[s \ {Max(s)}], seq[Max(s)], memory)
  <2>2. ASSUME NEW s \in D, n + 1 \in s PROVE h[s] = Value(s)
    <3>1. Max(s) = n + 1 /\ s # {}
      <4>1. n + 1 \in s /\ \A y \in s : y <= n + 1 /\ y \in Int
        BY <2>2
      <4> QED
        BY <4>1, MaxIs
    <3>2. s \ {n + 1} \in D /\ n + 1 \notin s \ {n + 1}
      OBVIOUS
    <3>3. h[s \ {n + 1}] = g[s \ {n + 1}]
      BY <3>2
    <3>4. h[s] = Next1(s)
      BY <2>2
    <3> HIDE DEF h
    <3> QED
      BY <3>1, <3>3, <3>4
  <2>3. ASSUME NEW s \in D, n + 1 \notin s PROVE h[s] = Value(s)
    <3>0. s \in SUBSET (1 .. n)
      BY <2>3
    <3>1. h[s] = g[s]
      BY <2>3
    <3>2. g[s] = IF s = {} THEN base ELSE WithRows(g[s \ {Max(s)}], seq[Max(s)], memory)
      BY <2>1, <3>0 DEF WithRowsFolds
    <3>3. s \ {Max(s)} \in D /\ n + 1 \notin s \ {Max(s)}
      BY <2>3
    <3>4. h[s \ {Max(s)}] = g[s \ {Max(s)}]
      BY <3>3
    <3> HIDE DEF h
    <3> QED
      BY <3>1, <3>2, <3>4
  <2>4. \A s \in D : h[s] = Value(s)
    BY <2>2, <2>3
  <2>5. h = [s \in D |-> h[s]]
    OBVIOUS
  <2> HIDE DEF h
  <2>6. [s \in D |-> h[s]] = [s \in D |-> Value(s)]
    BY <2>4
  <2>7. WithRowsFolds(h, memory, base, seq, SUBSET (1 .. n + 1))
    BY <2>5, <2>6 DEF WithRowsFolds
  <2> QED
    BY <2>7
<1>3. N \in T
  <2> HIDE DEF T
  <2>1. 0 .. N \subseteq T
    BY <1>1, <1>2, CountsUp
  <2> QED
    BY <2>1
<1> DEFINE h == CHOOSE h : WithRowsFolds(h, memory, base, seq, SUBSET DOMAIN seq)
<1>4. WithRowsFolds(h, memory, base, seq, SUBSET (1 .. N))
  BY <1>3
<1>5. WithAllRows(base, seq, memory) = h[1 .. N]
  BY DEF WithAllRows, FoldLeft, MapThenFoldSet, WithRowsFolds
<1> HIDE DEF h
<1> DEFINE f == [n \in 0 .. N |-> h[1 .. n]]
<1>6. f[0] = base
  <2>1. h[{}] = base
    BY <1>4 DEF WithRowsFolds
  <2>2. 1 .. 0 = {} /\ 0 \in 0 .. N
    OBVIOUS
  <2> QED
    BY <2>1, <2>2
<1>7. ASSUME NEW n \in 1 .. N PROVE f[n] = WithRows(f[n - 1], seq[n], memory)
  <2>1. 1 .. n # {} /\ 1 .. n \in SUBSET (1 .. N)
    <3>1. n \in 1 .. n /\ \A y \in 1 .. n : y \in 1 .. N
      OBVIOUS
    <3> QED
      BY <3>1
  <2>2. Max(1 .. n) = n
    <3>1. n \in 1 .. n /\ \A y \in 1 .. n : y <= n /\ y \in Int
      OBVIOUS
    <3> QED
      BY <3>1, MaxIs
  <2>3. (1 .. n) \ {n} = 1 .. n - 1
    OBVIOUS
  <2>4. h[1 .. n] = WithRows(h[1 .. n - 1], seq[n], memory)
    BY <1>4, <2>1, <2>2, <2>3 DEF WithRowsFolds
  <2>5. f[n] = h[1 .. n] /\ f[n - 1] = h[1 .. n - 1]
    OBVIOUS
  <2> QED
    BY <2>4, <2>5
<1>8. f[N] = h[1 .. N]
  OBVIOUS
<1> HIDE DEF f
<1>9. WithRowsSteps(f, memory, base, seq, N)
  BY <1>5, <1>6, <1>7, <1>8 DEF WithRowsSteps
<1> QED
  BY <1>9

(* The rows of a trial that are doubled.                                   *)
DoubledFolds(h, b, memory, base, seq, D) ==
  h = [s \in D |-> IF s = {} THEN base ELSE Doubled(b, h[s \ {Max(s)}], seq[Max(s)], memory)]
DoubledSteps(f, b, memory, base, seq, N) ==
  /\ f[0] = base /\ AllDoubled(b, base, seq, memory) = f[N]
  /\ \A n \in 1 .. N : f[n] = Doubled(b, f[n - 1], seq[n], memory)
LEMMA DoubledFold ==
  ASSUME NEW base, NEW seq, NEW b, NEW memory, NEW N \in Nat, DOMAIN seq = 1 .. N
  PROVE  \E f : DoubledSteps(f, b, memory, base, seq, N)
<1> DEFINE T == {n \in Nat : \E h : DoubledFolds(h, b, memory, base, seq, SUBSET (1 .. n))}
<1>1. 0 \in T
  <2> DEFINE h == [s \in SUBSET (1 .. 0) |-> base]
  <2>1. h = [s \in SUBSET (1 .. 0) |->
               IF s = {} THEN base ELSE Doubled(b, h[s \ {Max(s)}], seq[Max(s)], memory)]
    OBVIOUS
  <2>2. DoubledFolds(h, b, memory, base, seq, SUBSET (1 .. 0))
    BY <2>1 DEF DoubledFolds
  <2> QED
    BY <2>2
<1>2. ASSUME NEW n \in 0 .. N - 1, n \in T PROVE n + 1 \in T
  <2>1. PICK g : DoubledFolds(g, b, memory, base, seq, SUBSET (1 .. n))
    BY <1>2
  <2> DEFINE D == SUBSET (1 .. n + 1)
             Next1(s) == Doubled(b, g[s \ {n + 1}], seq[n + 1], memory)
             h == [s \in D |-> IF n + 1 \in s THEN Next1(s) ELSE g[s]]
             Value(s) == IF s = {} THEN base ELSE Doubled(b, h[s \ {Max(s)}], seq[Max(s)], memory)
  <2>2. ASSUME NEW s \in D, n + 1 \in s PROVE h[s] = Value(s)
    <3>1. Max(s) = n + 1 /\ s # {}
      <4>1. n + 1 \in s /\ \A y \in s : y <= n + 1 /\ y \in Int
        BY <2>2
      <4> QED
        BY <4>1, MaxIs
    <3>2. s \ {n + 1} \in D /\ n + 1 \notin s \ {n + 1}
      OBVIOUS
    <3>3. h[s \ {n + 1}] = g[s \ {n + 1}]
      BY <3>2
    <3>4. h[s] = Next1(s)
      BY <2>2
    <3> HIDE DEF h
    <3> QED
      BY <3>1, <3>3, <3>4
  <2>3. ASSUME NEW s \in D, n + 1 \notin s PROVE h[s] = Value(s)
    <3>0. s \in SUBSET (1 .. n)
      BY <2>3
    <3>1. h[s] = g[s]
      BY <2>3
    <3>2. g[s] = IF s = {} THEN base ELSE Doubled(b, g[s \ {Max(s)}], seq[Max(s)], memory)
      BY <2>1, <3>0 DEF DoubledFolds
    <3>3. s \ {Max(s)} \in D /\ n + 1 \notin s \ {Max(s)}
      BY <2>3
    <3>4. h[s \ {Max(s)}] = g[s \ {Max(s)}]
      BY <3>3
    <3> HIDE DEF h
    <3> QED
      BY <3>1, <3>2, <3>4
  <2>4. \A s \in D : h[s] = Value(s)
    BY <2>2, <2>3
  <2>5. h = [s \in D |-> h[s]]
    OBVIOUS
  <2> HIDE DEF h
  <2>6. [s \in D |-> h[s]] = [s \in D |-> Value(s)]
    BY <2>4
  <2>7. DoubledFolds(h, b, memory, base, seq, SUBSET (1 .. n + 1))
    BY <2>5, <2>6 DEF DoubledFolds
  <2> QED
    BY <2>7
<1>3. N \in T
  <2> HIDE DEF T
  <2>1. 0 .. N \subseteq T
    BY <1>1, <1>2, CountsUp
  <2> QED
    BY <2>1
<1> DEFINE h == CHOOSE h : DoubledFolds(h, b, memory, base, seq, SUBSET DOMAIN seq)
<1>4. DoubledFolds(h, b, memory, base, seq, SUBSET (1 .. N))
  BY <1>3
<1>5. AllDoubled(b, base, seq, memory) = h[1 .. N]
  BY DEF AllDoubled, FoldLeft, MapThenFoldSet, DoubledFolds
<1> HIDE DEF h
<1> DEFINE f == [n \in 0 .. N |-> h[1 .. n]]
<1>6. f[0] = base
  <2>1. h[{}] = base
    BY <1>4 DEF DoubledFolds
  <2>2. 1 .. 0 = {} /\ 0 \in 0 .. N
    OBVIOUS
  <2> QED
    BY <2>1, <2>2
<1>7. ASSUME NEW n \in 1 .. N PROVE f[n] = Doubled(b, f[n - 1], seq[n], memory)
  <2>1. 1 .. n # {} /\ 1 .. n \in SUBSET (1 .. N)
    <3>1. n \in 1 .. n /\ \A y \in 1 .. n : y \in 1 .. N
      OBVIOUS
    <3> QED
      BY <3>1
  <2>2. Max(1 .. n) = n
    <3>1. n \in 1 .. n /\ \A y \in 1 .. n : y <= n /\ y \in Int
      OBVIOUS
    <3> QED
      BY <3>1, MaxIs
  <2>3. (1 .. n) \ {n} = 1 .. n - 1
    OBVIOUS
  <2>4. h[1 .. n] = Doubled(b, h[1 .. n - 1], seq[n], memory)
    BY <1>4, <2>1, <2>2, <2>3 DEF DoubledFolds
  <2>5. f[n] = h[1 .. n] /\ f[n - 1] = h[1 .. n - 1]
    OBVIOUS
  <2> QED
    BY <2>4, <2>5
<1>8. f[N] = h[1 .. N]
  OBVIOUS
<1> HIDE DEF f
<1>9. DoubledSteps(f, b, memory, base, seq, N)
  BY <1>5, <1>6, <1>7, <1>8 DEF DoubledSteps
<1> QED
  BY <1>9

(* The reads of a trial.                                                   *)
SteppedFolds(h, base, seq, D) ==
  h = [s \in D |-> IF s = {} THEN base ELSE Step(h[s \ {Max(s)}], seq[Max(s)])]
SteppedSteps(f, base, seq, N) ==
  /\ f[0] = base /\ Stepped(base, seq) = f[N]
  /\ \A n \in 1 .. N : f[n] = Step(f[n - 1], seq[n])
LEMMA SteppedFold ==
  ASSUME NEW base, NEW seq, NEW N \in Nat, DOMAIN seq = 1 .. N
  PROVE  \E f : SteppedSteps(f, base, seq, N)
<1> DEFINE T == {n \in Nat : \E h : SteppedFolds(h, base, seq, SUBSET (1 .. n))}
<1>1. 0 \in T
  <2> DEFINE h == [s \in SUBSET (1 .. 0) |-> base]
  <2>1. h = [s \in SUBSET (1 .. 0) |->
               IF s = {} THEN base ELSE Step(h[s \ {Max(s)}], seq[Max(s)])]
    OBVIOUS
  <2>2. SteppedFolds(h, base, seq, SUBSET (1 .. 0))
    BY <2>1 DEF SteppedFolds
  <2> QED
    BY <2>2
<1>2. ASSUME NEW n \in 0 .. N - 1, n \in T PROVE n + 1 \in T
  <2>1. PICK g : SteppedFolds(g, base, seq, SUBSET (1 .. n))
    BY <1>2
  <2> DEFINE D == SUBSET (1 .. n + 1)
             Next1(s) == Step(g[s \ {n + 1}], seq[n + 1])
             h == [s \in D |-> IF n + 1 \in s THEN Next1(s) ELSE g[s]]
             Value(s) == IF s = {} THEN base ELSE Step(h[s \ {Max(s)}], seq[Max(s)])
  <2>2. ASSUME NEW s \in D, n + 1 \in s PROVE h[s] = Value(s)
    <3>1. Max(s) = n + 1 /\ s # {}
      <4>1. n + 1 \in s /\ \A y \in s : y <= n + 1 /\ y \in Int
        BY <2>2
      <4> QED
        BY <4>1, MaxIs
    <3>2. s \ {n + 1} \in D /\ n + 1 \notin s \ {n + 1}
      OBVIOUS
    <3>3. h[s \ {n + 1}] = g[s \ {n + 1}]
      BY <3>2
    <3>4. h[s] = Next1(s)
      BY <2>2
    <3> HIDE DEF h
    <3> QED
      BY <3>1, <3>3, <3>4
  <2>3. ASSUME NEW s \in D, n + 1 \notin s PROVE h[s] = Value(s)
    <3>0. s \in SUBSET (1 .. n)
      BY <2>3
    <3>1. h[s] = g[s]
      BY <2>3
    <3>2. g[s] = IF s = {} THEN base ELSE Step(g[s \ {Max(s)}], seq[Max(s)])
      BY <2>1, <3>0 DEF SteppedFolds
    <3>3. s \ {Max(s)} \in D /\ n + 1 \notin s \ {Max(s)}
      BY <2>3
    <3>4. h[s \ {Max(s)}] = g[s \ {Max(s)}]
      BY <3>3
    <3> HIDE DEF h
    <3> QED
      BY <3>1, <3>2, <3>4
  <2>4. \A s \in D : h[s] = Value(s)
    BY <2>2, <2>3
  <2>5. h = [s \in D |-> h[s]]
    OBVIOUS
  <2> HIDE DEF h
  <2>6. [s \in D |-> h[s]] = [s \in D |-> Value(s)]
    BY <2>4
  <2>7. SteppedFolds(h, base, seq, SUBSET (1 .. n + 1))
    BY <2>5, <2>6 DEF SteppedFolds
  <2> QED
    BY <2>7
<1>3. N \in T
  <2> HIDE DEF T
  <2>1. 0 .. N \subseteq T
    BY <1>1, <1>2, CountsUp
  <2> QED
    BY <2>1
<1> DEFINE h == CHOOSE h : SteppedFolds(h, base, seq, SUBSET DOMAIN seq)
<1>4. SteppedFolds(h, base, seq, SUBSET (1 .. N))
  BY <1>3
<1>5. Stepped(base, seq) = h[1 .. N]
  BY DEF Stepped, FoldLeft, MapThenFoldSet, SteppedFolds
<1> HIDE DEF h
<1> DEFINE f == [n \in 0 .. N |-> h[1 .. n]]
<1>6. f[0] = base
  <2>1. h[{}] = base
    BY <1>4 DEF SteppedFolds
  <2>2. 1 .. 0 = {} /\ 0 \in 0 .. N
    OBVIOUS
  <2> QED
    BY <2>1, <2>2
<1>7. ASSUME NEW n \in 1 .. N PROVE f[n] = Step(f[n - 1], seq[n])
  <2>1. 1 .. n # {} /\ 1 .. n \in SUBSET (1 .. N)
    <3>1. n \in 1 .. n /\ \A y \in 1 .. n : y \in 1 .. N
      OBVIOUS
    <3> QED
      BY <3>1
  <2>2. Max(1 .. n) = n
    <3>1. n \in 1 .. n /\ \A y \in 1 .. n : y <= n /\ y \in Int
      OBVIOUS
    <3> QED
      BY <3>1, MaxIs
  <2>3. (1 .. n) \ {n} = 1 .. n - 1
    OBVIOUS
  <2>4. h[1 .. n] = Step(h[1 .. n - 1], seq[n])
    BY <1>4, <2>1, <2>2, <2>3 DEF SteppedFolds
  <2>5. f[n] = h[1 .. n] /\ f[n - 1] = h[1 .. n - 1]
    OBVIOUS
  <2> QED
    BY <2>4, <2>5
<1>8. f[N] = h[1 .. N]
  OBVIOUS
<1> HIDE DEF f
<1>9. SteppedSteps(f, base, seq, N)
  BY <1>5, <1>6, <1>7, <1>8 DEF SteppedSteps
<1> QED
  BY <1>9

(* The lengths of rows.                                                    *)
LengthsFolds(h, seq, D) ==
  h = [s \in D |-> IF s = {} THEN 0 ELSE h[s \ {Max(s)}] + seq[Max(s)].length]
LengthsSteps(f, seq, N) ==
  /\ f[0] = 0 /\ Lengths(seq) = f[N]
  /\ \A n \in 1 .. N : f[n] = f[n - 1] + seq[n].length
LEMMA LengthsFold ==
  ASSUME NEW seq, NEW N \in Nat, DOMAIN seq = 1 .. N
  PROVE  \E f : LengthsSteps(f, seq, N)
<1> DEFINE T == {n \in Nat : \E h : LengthsFolds(h, seq, SUBSET (1 .. n))}
<1>1. 0 \in T
  <2> DEFINE h == [s \in SUBSET (1 .. 0) |-> 0]
  <2>1. h = [s \in SUBSET (1 .. 0) |->
               IF s = {} THEN 0 ELSE h[s \ {Max(s)}] + seq[Max(s)].length]
    OBVIOUS
  <2>2. LengthsFolds(h, seq, SUBSET (1 .. 0))
    BY <2>1 DEF LengthsFolds
  <2> QED
    BY <2>2
<1>2. ASSUME NEW n \in 0 .. N - 1, n \in T PROVE n + 1 \in T
  <2>1. PICK g : LengthsFolds(g, seq, SUBSET (1 .. n))
    BY <1>2
  <2> DEFINE D == SUBSET (1 .. n + 1)
             Next1(s) == g[s \ {n + 1}] + seq[n + 1].length
             h == [s \in D |-> IF n + 1 \in s THEN Next1(s) ELSE g[s]]
             Value(s) == IF s = {} THEN 0 ELSE h[s \ {Max(s)}] + seq[Max(s)].length
  <2>2. ASSUME NEW s \in D, n + 1 \in s PROVE h[s] = Value(s)
    <3>1. Max(s) = n + 1 /\ s # {}
      <4>1. n + 1 \in s /\ \A y \in s : y <= n + 1 /\ y \in Int
        BY <2>2
      <4> QED
        BY <4>1, MaxIs
    <3>2. s \ {n + 1} \in D /\ n + 1 \notin s \ {n + 1}
      OBVIOUS
    <3>3. h[s \ {n + 1}] = g[s \ {n + 1}]
      BY <3>2
    <3>4. h[s] = Next1(s)
      BY <2>2
    <3> HIDE DEF h
    <3> QED
      BY <3>1, <3>3, <3>4
  <2>3. ASSUME NEW s \in D, n + 1 \notin s PROVE h[s] = Value(s)
    <3>0. s \in SUBSET (1 .. n)
      BY <2>3
    <3>1. h[s] = g[s]
      BY <2>3
    <3>2. g[s] = IF s = {} THEN 0 ELSE g[s \ {Max(s)}] + seq[Max(s)].length
      BY <2>1, <3>0 DEF LengthsFolds
    <3>3. s \ {Max(s)} \in D /\ n + 1 \notin s \ {Max(s)}
      BY <2>3
    <3>4. h[s \ {Max(s)}] = g[s \ {Max(s)}]
      BY <3>3
    <3> HIDE DEF h
    <3> QED
      BY <3>1, <3>2, <3>4
  <2>4. \A s \in D : h[s] = Value(s)
    BY <2>2, <2>3
  <2>5. h = [s \in D |-> h[s]]
    OBVIOUS
  <2> HIDE DEF h
  <2>6. [s \in D |-> h[s]] = [s \in D |-> Value(s)]
    BY <2>4
  <2>7. LengthsFolds(h, seq, SUBSET (1 .. n + 1))
    BY <2>5, <2>6 DEF LengthsFolds
  <2> QED
    BY <2>7
<1>3. N \in T
  <2> HIDE DEF T
  <2>1. 0 .. N \subseteq T
    BY <1>1, <1>2, CountsUp
  <2> QED
    BY <2>1
<1> DEFINE h == CHOOSE h : LengthsFolds(h, seq, SUBSET DOMAIN seq)
<1>4. LengthsFolds(h, seq, SUBSET (1 .. N))
  BY <1>3
<1>5. Lengths(seq) = h[1 .. N]
  BY DEF Lengths, FoldLeft, MapThenFoldSet, LengthsFolds
<1> HIDE DEF h
<1> DEFINE f == [n \in 0 .. N |-> h[1 .. n]]
<1>6. f[0] = 0
  <2>1. h[{}] = 0
    BY <1>4 DEF LengthsFolds
  <2>2. 1 .. 0 = {} /\ 0 \in 0 .. N
    OBVIOUS
  <2> QED
    BY <2>1, <2>2
<1>7. ASSUME NEW n \in 1 .. N PROVE f[n] = f[n - 1] + seq[n].length
  <2>1. 1 .. n # {} /\ 1 .. n \in SUBSET (1 .. N)
    <3>1. n \in 1 .. n /\ \A y \in 1 .. n : y \in 1 .. N
      OBVIOUS
    <3> QED
      BY <3>1
  <2>2. Max(1 .. n) = n
    <3>1. n \in 1 .. n /\ \A y \in 1 .. n : y <= n /\ y \in Int
      OBVIOUS
    <3> QED
      BY <3>1, MaxIs
  <2>3. (1 .. n) \ {n} = 1 .. n - 1
    OBVIOUS
  <2>4. h[1 .. n] = h[1 .. n - 1] + seq[n].length
    BY <1>4, <2>1, <2>2, <2>3 DEF LengthsFolds
  <2>5. f[n] = h[1 .. n] /\ f[n - 1] = h[1 .. n - 1]
    OBVIOUS
  <2> QED
    BY <2>4, <2>5
<1>8. f[N] = h[1 .. N]
  OBVIOUS
<1> HIDE DEF f
<1>9. LengthsSteps(f, seq, N)
  BY <1>5, <1>6, <1>7, <1>8 DEF LengthsSteps
<1> QED
  BY <1>9

-----------------------------------------------------------------------------
(* Draw functions: rows have the length that is asked for, and a longer row *)
(* begins with a shorter one                                                *)

(* The raw numbers of a generator are natural (numpy's and the engine's).   *)
RawAreNatural == \A seed, tag, k : Raw(seed, tag, k) \in Nat

LEMMA IntegerBelow ==
  ASSUME RawAreNatural, NEW g, NEW k, NEW n \in Nat \ {0}
  PROVE  Integer(g, k, n) \in 0 .. n - 1
  BY DEF RawAreNatural, Integer, Number

(* A run of stationary indices, behind those before it.                     *)
Run(g, width, mean_block, length, out, k) ==
  LET first == Integer(g, 2 * k - 1, width)
      run   == 1 + Integer(g, 2 * k, 2 * mean_block - 1)
      cut   == IF run < length - Len(out) THEN run ELSE length - Len(out)
  IN  out \o [i \in 1 .. cut |-> ((first + i - 1) % width) + 1]

(* Indices, run by run.                                                    *)
Filled(f, g, width, mean_block, length, n) ==
  f = [k \in 0 .. n |-> IF k = 0 THEN <<>> ELSE Run(g, width, mean_block, length, f[k - 1], k)]
LEMMA Fills ==
  ASSUME NEW N \in Nat, NEW g, NEW width, NEW mean_block, NEW length
  PROVE  \E f : Filled(f, g, width, mean_block, length, N)
<1> DEFINE T == {n \in Nat : \E f : Filled(f, g, width, mean_block, length, n)}
<1>1. 0 \in T
  <2> DEFINE f == [k \in 0 .. 0 |-> <<>>]
  <2>1. f = [k \in 0 .. 0 |-> IF k = 0 THEN <<>> ELSE Run(g, width, mean_block, length, f[k - 1], k)]
    OBVIOUS
  <2>2. Filled(f, g, width, mean_block, length, 0)
    BY <2>1 DEF Filled
  <2> QED
    BY <2>2
<1>2. ASSUME NEW n \in 0 .. N - 1, n \in T PROVE n + 1 \in T
  <2>1. PICK e : Filled(e, g, width, mean_block, length, n)
    BY <1>2
  <2> DEFINE f == [k \in 0 .. n + 1 |-> IF k = n + 1 THEN Run(g, width, mean_block, length, e[n], (n + 1)) ELSE e[k]]
             Value(k) == IF k = 0 THEN <<>> ELSE Run(g, width, mean_block, length, f[k - 1], k)
  <2>2. \A k \in 0 .. n : f[k] = e[k]
    OBVIOUS
  <2>3. f[n + 1] = Run(g, width, mean_block, length, e[n], (n + 1))
    OBVIOUS
  <2>4. \A k \in 0 .. n : e[k] = IF k = 0 THEN <<>> ELSE Run(g, width, mean_block, length, e[k - 1], k)
    BY <2>1 DEF Filled
  <2>5. f = [k \in 0 .. n + 1 |-> f[k]]
    OBVIOUS
  <2> HIDE DEF f
  <2>6. ASSUME NEW k \in 0 .. n + 1 PROVE f[k] = Value(k)
    <3>1. CASE k = n + 1
      <4>1. k - 1 = n /\ k # 0 /\ n \in 0 .. n
        BY <3>1
      <4>2. f[k - 1] = e[n]
        BY <2>2, <4>1
      <4> QED
        BY <2>3, <3>1, <4>1, <4>2
    <3>2. CASE k # n + 1 /\ k # 0
      <4>1. k \in 0 .. n /\ k - 1 \in 0 .. n
        BY <3>2
      <4>2. f[k] = e[k] /\ f[k - 1] = e[k - 1]
        BY <2>2, <4>1
      <4> QED
        BY <2>4, <3>2, <4>1, <4>2
    <3>3. CASE k = 0
      BY <2>2, <2>4, <3>3
    <3> QED
      BY <3>1, <3>2, <3>3
  <2>7. [k \in 0 .. n + 1 |-> f[k]] = [k \in 0 .. n + 1 |-> Value(k)]
    BY <2>6
  <2>8. Filled(f, g, width, mean_block, length, n + 1)
    BY <2>5, <2>7 DEF Filled
  <2> QED
    BY <2>8
<1>3. N \in T
  <2> HIDE DEF T
  <2>1. 0 .. N \subseteq T
    BY <1>1, <1>2, CountsUp
  <2> QED
    BY <2>1
<1> QED
  BY <1>3

(* A demand or none, behind those before it.                                *)
Demand(g, s, before) ==
  LET on   == Number(g, before.used + 1) % 4 < (IF before.on THEN s.p11 ELSE s.p01)
      width == Nonzero(s)[Integer(g, before.used + 2, Len(Nonzero(s))) + 1]
  IN  [on |-> on, used |-> before.used + (IF on THEN 2 ELSE 1),
       row |-> Append(before.row, IF on THEN width ELSE 0)]

(* Demands in time order.                                                  *)
Demands(f, g, s, n) ==
  f = [k \in 0 .. n |-> IF k = 0 THEN [on |-> Number(g, 1) % 2 = 0, used |-> 1, row |-> <<>>] ELSE Demand(g, s, f[k - 1])]
LEMMA Demanded ==
  ASSUME NEW N \in Nat, NEW g, NEW s
  PROVE  \E f : Demands(f, g, s, N)
<1> DEFINE T == {n \in Nat : \E f : Demands(f, g, s, n)}
<1>1. 0 \in T
  <2> DEFINE f == [k \in 0 .. 0 |-> [on |-> Number(g, 1) % 2 = 0, used |-> 1, row |-> <<>>]]
  <2>1. f = [k \in 0 .. 0 |-> IF k = 0 THEN [on |-> Number(g, 1) % 2 = 0, used |-> 1, row |-> <<>>] ELSE Demand(g, s, f[k - 1])]
    OBVIOUS
  <2>2. Demands(f, g, s, 0)
    BY <2>1 DEF Demands
  <2> QED
    BY <2>2
<1>2. ASSUME NEW n \in 0 .. N - 1, n \in T PROVE n + 1 \in T
  <2>1. PICK e : Demands(e, g, s, n)
    BY <1>2
  <2> DEFINE f == [k \in 0 .. n + 1 |-> IF k = n + 1 THEN Demand(g, s, e[n]) ELSE e[k]]
             Value(k) == IF k = 0 THEN [on |-> Number(g, 1) % 2 = 0, used |-> 1, row |-> <<>>] ELSE Demand(g, s, f[k - 1])
  <2>2. \A k \in 0 .. n : f[k] = e[k]
    OBVIOUS
  <2>3. f[n + 1] = Demand(g, s, e[n])
    OBVIOUS
  <2>4. \A k \in 0 .. n : e[k] = IF k = 0 THEN [on |-> Number(g, 1) % 2 = 0, used |-> 1, row |-> <<>>] ELSE Demand(g, s, e[k - 1])
    BY <2>1 DEF Demands
  <2>5. f = [k \in 0 .. n + 1 |-> f[k]]
    OBVIOUS
  <2> HIDE DEF f
  <2>6. ASSUME NEW k \in 0 .. n + 1 PROVE f[k] = Value(k)
    <3>1. CASE k = n + 1
      <4>1. k - 1 = n /\ k # 0 /\ n \in 0 .. n
        BY <3>1
      <4>2. f[k - 1] = e[n]
        BY <2>2, <4>1
      <4> QED
        BY <2>3, <3>1, <4>1, <4>2
    <3>2. CASE k # n + 1 /\ k # 0
      <4>1. k \in 0 .. n /\ k - 1 \in 0 .. n
        BY <3>2
      <4>2. f[k] = e[k] /\ f[k - 1] = e[k - 1]
        BY <2>2, <4>1
      <4> QED
        BY <2>4, <3>2, <4>1, <4>2
    <3>3. CASE k = 0
      BY <2>2, <2>4, <3>3
    <3> QED
      BY <3>1, <3>2, <3>3
  <2>7. [k \in 0 .. n + 1 |-> f[k]] = [k \in 0 .. n + 1 |-> Value(k)]
    BY <2>6
  <2>8. Demands(f, g, s, n + 1)
    BY <2>5, <2>7 DEF Demands
  <2> QED
    BY <2>8
<1>3. N \in T
  <2> HIDE DEF T
  <2>1. 0 .. N \subseteq T
    BY <1>1, <1>2, CountsUp
  <2> QED
    BY <2>1
<1> QED
  BY <1>3

(* An innovation upon the state before it.                                  *)
Innovation(g, s, before, k) ==
  s.errors[Integer(g, k, Len(s.errors)) + 1] + (s.phi * before) \div 2

(* The autoregression.                                                     *)
Innovations(f, g, s, n) ==
  f = [k \in 0 .. n |-> IF k = 0 THEN 0 ELSE Innovation(g, s, f[k - 1], k)]
LEMMA Innovates ==
  ASSUME NEW N \in Nat, NEW g, NEW s
  PROVE  \E f : Innovations(f, g, s, N)
<1> DEFINE T == {n \in Nat : \E f : Innovations(f, g, s, n)}
<1>1. 0 \in T
  <2> DEFINE f == [k \in 0 .. 0 |-> 0]
  <2>1. f = [k \in 0 .. 0 |-> IF k = 0 THEN 0 ELSE Innovation(g, s, f[k - 1], k)]
    OBVIOUS
  <2>2. Innovations(f, g, s, 0)
    BY <2>1 DEF Innovations
  <2> QED
    BY <2>2
<1>2. ASSUME NEW n \in 0 .. N - 1, n \in T PROVE n + 1 \in T
  <2>1. PICK e : Innovations(e, g, s, n)
    BY <1>2
  <2> DEFINE f == [k \in 0 .. n + 1 |-> IF k = n + 1 THEN Innovation(g, s, e[n], (n + 1)) ELSE e[k]]
             Value(k) == IF k = 0 THEN 0 ELSE Innovation(g, s, f[k - 1], k)
  <2>2. \A k \in 0 .. n : f[k] = e[k]
    OBVIOUS
  <2>3. f[n + 1] = Innovation(g, s, e[n], (n + 1))
    OBVIOUS
  <2>4. \A k \in 0 .. n : e[k] = IF k = 0 THEN 0 ELSE Innovation(g, s, e[k - 1], k)
    BY <2>1 DEF Innovations
  <2>5. f = [k \in 0 .. n + 1 |-> f[k]]
    OBVIOUS
  <2> HIDE DEF f
  <2>6. ASSUME NEW k \in 0 .. n + 1 PROVE f[k] = Value(k)
    <3>1. CASE k = n + 1
      <4>1. k - 1 = n /\ k # 0 /\ n \in 0 .. n
        BY <3>1
      <4>2. f[k - 1] = e[n]
        BY <2>2, <4>1
      <4> QED
        BY <2>3, <3>1, <4>1, <4>2
    <3>2. CASE k # n + 1 /\ k # 0
      <4>1. k \in 0 .. n /\ k - 1 \in 0 .. n
        BY <3>2
      <4>2. f[k] = e[k] /\ f[k - 1] = e[k - 1]
        BY <2>2, <4>1
      <4> QED
        BY <2>4, <3>2, <4>1, <4>2
    <3>3. CASE k = 0
      BY <2>2, <2>4, <3>3
    <3> QED
      BY <3>1, <3>2, <3>3
  <2>7. [k \in 0 .. n + 1 |-> f[k]] = [k \in 0 .. n + 1 |-> Value(k)]
    BY <2>6
  <2>8. Innovations(f, g, s, n + 1)
    BY <2>5, <2>7 DEF Innovations
  <2> QED
    BY <2>8
<1>3. N \in T
  <2> HIDE DEF T
  <2>1. 0 .. N \subseteq T
    BY <1>1, <1>2, CountsUp
  <2> QED
    BY <2>1
<1> QED
  BY <1>3

(* What a run adds.                                                         *)
RunLength(g, mean_block, k) == 1 + Integer(g, 2 * k, 2 * mean_block - 1)
RunIndex(g, width, k, i)     == ((Integer(g, 2 * k - 1, width) + i - 1) % width) + 1
RunAdds(g, width, mean_block, length, out, k, r) ==
  /\ r \in Seq(1 .. width)
  /\ Len(r) = IF Len(out) + RunLength(g, mean_block, k) < length
              THEN Len(out) + RunLength(g, mean_block, k) ELSE length
  /\ \A i \in 1 .. Len(out) : r[i] = out[i]
  /\ \A i \in 1 .. Len(r) : i > Len(out) => r[i] = RunIndex(g, width, k, i - Len(out))
LEMMA RunIs ==
  ASSUME RawAreNatural, NEW g, NEW width \in Nat \ {0}, NEW mean_block \in Nat \ {0},
         NEW length \in Nat, NEW out \in Seq(1 .. width), Len(out) <= length, NEW k \in Nat \ {0}
  PROVE  /\ RunAdds(g, width, mean_block, length, out, k, Run(g, width, mean_block, length, out, k))
         /\ RunLength(g, mean_block, k) \in Nat \ {0}
<1> DEFINE first == Integer(g, 2 * k - 1, width)
           run   == 1 + Integer(g, 2 * k, 2 * mean_block - 1)
           cut   == IF run < length - Len(out) THEN run ELSE length - Len(out)
           more  == [i \in 1 .. cut |-> ((first + i - 1) % width) + 1]
<1>1. Run(g, width, mean_block, length, out, k) = out \o more
  BY DEF Run
<1>2. first \in 0 .. width - 1
  BY IntegerBelow
<1>3. run \in Nat \ {0}
  <2>1. 2 * mean_block - 1 \in Nat \ {0}
    OBVIOUS
  <2>2. Integer(g, 2 * k, 2 * mean_block - 1) \in 0 .. (2 * mean_block - 1) - 1
    BY <2>1, IntegerBelow
  <2> QED
    BY <2>2
<1>4. RunLength(g, mean_block, k) = run
  BY DEF RunLength
<1> HIDE DEF run, first
<1>5. cut \in Nat /\ Len(out) \in Nat
      /\ Len(out) + cut = IF Len(out) + run < length THEN Len(out) + run ELSE length
  BY <1>3
<1> HIDE DEF cut
<1>6. ASSUME NEW i \in 1 .. cut PROVE ((first + i - 1) % width) + 1 \in 1 .. width
  <2>1. first + i - 1 \in Nat
    BY <1>2, <1>5
  <2>2. (first + i - 1) % width \in 0 .. width - 1
    BY <2>1
  <2> QED
    BY <2>2
<1>7. more \in Seq(1 .. width) /\ Len(more) = cut
  BY <1>5, <1>6
<1>8. \A i \in 1 .. cut : more[i] = RunIndex(g, width, k, i)
  BY DEF RunIndex, first
<1> HIDE DEF more
<1>9. /\ out \o more \in Seq(1 .. width) /\ Len(out \o more) = Len(out) + cut
      /\ \A i \in 1 .. Len(out) : (out \o more)[i] = out[i]
  <2>1. out \o more \in Seq(1 .. width)
    BY <1>7, ConcatProperties
  <2>2. Len(out \o more) = Len(out) + cut
    BY <1>7, ConcatProperties
  <2>3. \A i \in 1 .. Len(out) : (out \o more)[i] = out[i]
    BY <1>7
  <2> QED
    BY <2>1, <2>2, <2>3
<1>10. ASSUME NEW i \in 1 .. Len(out \o more), i > Len(out)
       PROVE  (out \o more)[i] = RunIndex(g, width, k, i - Len(out))
  <2>1. i - Len(out) \in 1 .. cut
    BY <1>5, <1>9, <1>10
  <2>2. (out \o more)[i] = more[i - Len(out)]
    BY <1>5, <1>7, <1>9, <1>10
  <2> QED
    BY <1>8, <2>1, <2>2
<1>11. RunAdds(g, width, mean_block, length, out, k, out \o more)
  BY <1>4, <1>5, <1>9, <1>10 DEF RunAdds
<1> QED
  BY <1>1, <1>3, <1>4, <1>11

(* A row of indices is full after as many runs as it is long.               *)
LEMMA FilledIs ==
  ASSUME RawAreNatural, NEW g, NEW width \in Nat \ {0}, NEW mean_block \in Nat \ {0},
         NEW length \in Nat, NEW n \in Nat, NEW f, Filled(f, g, width, mean_block, length, n)
  PROVE  \A k \in 0 .. n :
           /\ f[k] \in Seq(1 .. width) /\ Len(f[k]) <= length /\ (k <= length => k <= Len(f[k]))
           /\ k # 0 => RunAdds(g, width, mean_block, length, f[k - 1], k, f[k])
<1> DEFINE Is(k) == f[k] \in Seq(1 .. width) /\ Len(f[k]) <= length /\ (k <= length => k <= Len(f[k]))
           T == {k \in 0 .. n : Is(k)}
<1>0. \A k \in 0 .. n : f[k] = IF k = 0 THEN <<>> ELSE Run(g, width, mean_block, length, f[k - 1], k)
  BY DEF Filled
<1>1. 0 \in T
  <2>1. f[0] = <<>>
    BY <1>0
  <2>2. Is(0)
    BY <2>1
  <2> QED
    BY <2>2
<1>2. ASSUME NEW k \in 0 .. n - 1, Is(k)
      PROVE  Is(k + 1) /\ RunAdds(g, width, mean_block, length, f[k], k + 1, f[k + 1])
  <2>1. k + 1 \in 0 .. n /\ k + 1 # 0 /\ (k + 1) - 1 = k /\ k + 1 \in Nat \ {0} /\ k \in Nat
    OBVIOUS
  <2>2. f[k + 1] = Run(g, width, mean_block, length, f[k], k + 1)
    BY <1>0, <2>1
  <2>3. f[k] \in Seq(1 .. width) /\ Len(f[k]) <= length /\ (k <= length => k <= Len(f[k]))
    BY <1>2
  <2> HIDE DEF Is, T
  <2>4. /\ RunAdds(g, width, mean_block, length, f[k], k + 1, f[k + 1])
        /\ RunLength(g, mean_block, k + 1) \in Nat \ {0}
    BY <2>1, <2>2, <2>3, RunIs
  <2>5. f[k + 1] \in Seq(1 .. width) /\ Len(f[k + 1]) \in Nat /\ Len(f[k]) \in Nat
        /\ Len(f[k + 1]) = IF Len(f[k]) + RunLength(g, mean_block, k + 1) < length
              THEN Len(f[k]) + RunLength(g, mean_block, k + 1) ELSE length
    BY <2>3, <2>4 DEF RunAdds
  <2>6. Is(k + 1)
    BY <2>1, <2>3, <2>4, <2>5 DEF Is
  <2> QED
    BY <2>4, <2>6
<1>3. 0 .. n \subseteq T
  <2>1. \A k \in 0 .. n - 1 : k \in T => k + 1 \in T
    BY <1>2
  <2> HIDE DEF T
  <2> QED
    BY <1>1, <2>1, CountsUp
<1>4. ASSUME NEW k \in 0 .. n
      PROVE  Is(k) /\ (k # 0 => RunAdds(g, width, mean_block, length, f[k - 1], k, f[k]))
  <2>1. Is(k)
    BY <1>3
  <2>2. CASE k # 0
    <3>1. k - 1 \in 0 .. n - 1 /\ k - 1 \in 0 .. n /\ (k - 1) + 1 = k
      BY <2>2
    <3>2. Is(k - 1)
      BY <1>3, <3>1
    <3> HIDE DEF Is, T
    <3>3. RunAdds(g, width, mean_block, length, f[k - 1], (k - 1) + 1, f[(k - 1) + 1])
      BY <1>2, <3>1, <3>2
    <3> QED
      BY <2>1, <3>1, <3>3
  <2> QED
    BY <2>1, <2>2
<1> QED
  BY <1>4

(* Filling a shorter row is filling the longer one until it is full.        *)
LEMMA FilledAgree ==
  ASSUME RawAreNatural, NEW g, NEW width \in Nat \ {0}, NEW mean_block \in Nat \ {0},
         NEW n \in Nat, NEW m \in Nat, n <= m,
         NEW e, Filled(e, g, width, mean_block, n, n), NEW f, Filled(f, g, width, mean_block, m, m)
  PROVE  \A i \in 1 .. n : e[n][i] = f[m][i]
<1> DEFINE Agree(k) == /\ Len(e[k]) = IF Len(f[k]) < n THEN Len(f[k]) ELSE n
                       /\ \A i \in 1 .. Len(e[k]) : e[k][i] = f[k][i]
           T == {k \in 0 .. n : Agree(k)}
<1>1. \A k \in 0 .. n :
        /\ e[k] \in Seq(1 .. width) /\ Len(e[k]) <= n /\ (k <= n => k <= Len(e[k]))
        /\ k # 0 => RunAdds(g, width, mean_block, n, e[k - 1], k, e[k])
  BY FilledIs
<1>2. \A k \in 0 .. m :
        /\ f[k] \in Seq(1 .. width) /\ Len(f[k]) <= m /\ (k <= m => k <= Len(f[k]))
        /\ k # 0 => RunAdds(g, width, mean_block, m, f[k - 1], k, f[k])
  BY FilledIs
<1>3. Agree(0)
  <2>1. e[0] = <<>> /\ f[0] = <<>>
    BY DEF Filled
  <2> QED
    BY <2>1
<1>4. ASSUME NEW k \in 0 .. n - 1, Agree(k) PROVE Agree(k + 1)
  <2>1. /\ k \in 0 .. n /\ k + 1 \in 0 .. n /\ k \in 0 .. m /\ k + 1 \in 0 .. m /\ k + 1 # 0
        /\ (k + 1) - 1 = k /\ k + 1 \in Nat \ {0}
    OBVIOUS
  <2>2. /\ RunAdds(g, width, mean_block, n, e[k], k + 1, e[k + 1])
        /\ RunAdds(g, width, mean_block, m, f[k], k + 1, f[k + 1])
    BY <1>1, <1>2, <2>1
  <2>3. RunLength(g, mean_block, k + 1) \in Nat \ {0}
    BY <1>1, <2>1, RunIs
  <2>4. /\ Len(e[k]) \in Nat /\ Len(e[k + 1]) \in Nat /\ Len(f[k]) \in Nat /\ Len(f[k + 1]) \in Nat
        /\ Len(f[k]) <= m /\ Len(e[k]) <= n
    <3>1. e[k] \in Seq(1 .. width) /\ e[k + 1] \in Seq(1 .. width) /\ Len(e[k]) <= n
      BY <1>1, <2>1
    <3>2. f[k] \in Seq(1 .. width) /\ f[k + 1] \in Seq(1 .. width) /\ Len(f[k]) <= m
      BY <1>2, <2>1
    <3> QED
      BY <3>1, <3>2
  <2>5. /\ Len(e[k]) = IF Len(f[k]) < n THEN Len(f[k]) ELSE n
        /\ \A i \in 1 .. Len(e[k]) : e[k][i] = f[k][i]
    BY <1>4
  <2> PICK c \in Nat \ {0} : c = RunLength(g, mean_block, k + 1)
    BY <2>3
  <2>6. /\ Len(e[k + 1]) = IF Len(e[k]) + c < n THEN Len(e[k]) + c ELSE n
        /\ Len(f[k + 1]) = IF Len(f[k]) + c < m THEN Len(f[k]) + c ELSE m
    BY <2>2 DEF RunAdds
  <2>7. Len(e[k + 1]) = IF Len(f[k + 1]) < n THEN Len(f[k + 1]) ELSE n
    BY <2>4, <2>5, <2>6
  <2>8. ASSUME NEW i \in 1 .. Len(e[k + 1]) PROVE e[k + 1][i] = f[k + 1][i]
    <3>1. i \in 1 .. Len(f[k + 1]) /\ i <= n
      BY <2>4, <2>7
    <3>2. CASE i <= Len(e[k])
      <4>1. i \in 1 .. Len(e[k]) /\ i \in 1 .. Len(f[k])
        BY <2>4, <2>5, <3>2
      <4>2. e[k + 1][i] = e[k][i] /\ f[k + 1][i] = f[k][i]
        BY <2>2, <4>1 DEF RunAdds
      <4> QED
        BY <2>5, <4>1, <4>2
    <3>3. CASE i > Len(e[k])
      <4>1. Len(e[k]) = Len(f[k])
        BY <2>4, <2>5, <3>1, <3>3
      <4>2. /\ e[k + 1][i] = RunIndex(g, width, k + 1, i - Len(e[k]))
            /\ f[k + 1][i] = RunIndex(g, width, k + 1, i - Len(f[k]))
        BY <2>2, <3>1, <3>3, <4>1 DEF RunAdds
      <4> QED
        BY <4>1, <4>2
    <3> QED
      BY <2>4, <3>2, <3>3
  <2> QED
    BY <2>7, <2>8
<1>5. Agree(n)
  <2>a. 0 \in T
    BY <1>3
  <2>b. ASSUME NEW k \in 0 .. n - 1, k \in T PROVE k + 1 \in T
    <3>1. Agree(k)
      BY <2>b
    <3>2. Agree(k + 1)
      BY <3>1, <1>4
    <3>3. k + 1 \in 0 .. n
      OBVIOUS
    <3> HIDE DEF Agree
    <3> QED
      BY <3>2, <3>3
  <2>1. 0 \in T /\ \A k \in 0 .. n - 1 : k \in T => k + 1 \in T
    BY <2>a, <2>b
  <2> HIDE DEF T
  <2>2. 0 .. n \subseteq T
    BY <2>1, CountsUp
  <2>3. n \in T
    BY <2>2
  <2> QED
    BY <2>3 DEF T
<1>6. ASSUME NEW i \in 1 .. n PROVE f[n][i] = f[m][i]
  <2> DEFINE U == {k \in 0 .. m : k >= n => f[n][i] = f[k][i]}
  <2>1. 0 \in U
    OBVIOUS
  <2>2. ASSUME NEW k \in 0 .. m - 1, k \in U PROVE k + 1 \in U
    <3>1. k + 1 \in 0 .. m /\ k \in 0 .. m /\ k + 1 # 0 /\ (k + 1) - 1 = k
      OBVIOUS
    <3>2. CASE k >= n
      <4>1. RunAdds(g, width, mean_block, m, f[k], k + 1, f[k + 1])
        BY <1>2, <3>1
      <4>2. i \in 1 .. Len(f[k])
        BY <1>2, <3>1, <3>2
      <4>3. f[k + 1][i] = f[k][i]
        BY <4>1, <4>2 DEF RunAdds
      <4> QED
        BY <2>2, <3>1, <3>2, <4>3
    <3>3. CASE k + 1 = n
      BY <3>1, <3>3
    <3>4. CASE k + 1 < n
      BY <3>1, <3>4
    <3> QED
      BY <3>2, <3>3, <3>4
  <2>3. m \in U
    <3> HIDE DEF U
    <3>1. 0 .. m \subseteq U
      BY <2>1, <2>2, CountsUp
    <3> QED
      BY <3>1
  <2> QED
    BY <2>3
<1>7. Len(e[n]) = n
  <2>1. n \in 0 .. n /\ n <= n
    OBVIOUS
  <2>2. e[n] \in Seq(1 .. width) /\ Len(e[n]) <= n /\ n <= Len(e[n])
    BY <1>1, <2>1
  <2> QED
    BY <2>2
<1> QED
  BY <1>5, <1>6, <1>7

(* Stationary indices of a row, and of a longer one.                        *)
IndicesAgree(g, width, mean_block, n, length) ==
  \A i \in 1 .. n : StationaryIndices(g, width, mean_block, n)[i]
                    = StationaryIndices(g, width, mean_block, length)[i]
LEMMA StationaryIs ==
  ASSUME RawAreNatural, NEW g, NEW width \in Nat \ {0}, NEW mean_block \in Nat \ {0},
         NEW length \in Nat
  PROVE  /\ StationaryIndices(g, width, mean_block, length) \in Seq(1 .. width)
         /\ Len(StationaryIndices(g, width, mean_block, length)) = length
         /\ \A i \in 1 .. length : StationaryIndices(g, width, mean_block, length)[i] \in 1 .. width
         /\ \A n \in 0 .. length : IndicesAgree(g, width, mean_block, n, length)
<1>1. ASSUME NEW n \in Nat
      PROVE  \E f : /\ Filled(f, g, width, mean_block, n, n)
                    /\ StationaryIndices(g, width, mean_block, n) = f[n]
  <2> DEFINE h == CHOOSE f : Filled(f, g, width, mean_block, n, n)
  <2>1. Filled(h, g, width, mean_block, n, n)
    BY Fills
  <2>2. StationaryIndices(g, width, mean_block, n) = h[n]
    BY DEF StationaryIndices, Filled, Run
  <2> HIDE DEF h
  <2> QED
    BY <2>1, <2>2
<1>2. PICK f : /\ Filled(f, g, width, mean_block, length, length)
               /\ StationaryIndices(g, width, mean_block, length) = f[length]
  BY <1>1
<1>3. f[length] \in Seq(1 .. width) /\ Len(f[length]) = length
  <2>1. length \in 0 .. length /\ length <= length
    OBVIOUS
  <2>2. /\ f[length] \in Seq(1 .. width) /\ Len(f[length]) <= length
        /\ length <= Len(f[length])
    BY <1>2, <2>1, FilledIs
  <2> QED
    BY <2>2
<1>4. \A i \in 1 .. length : f[length][i] \in 1 .. width
  BY <1>3
<1>5. ASSUME NEW n \in 0 .. length, NEW i \in 1 .. n
      PROVE  StationaryIndices(g, width, mean_block, n)[i] = f[length][i]
  <2>1. n \in Nat /\ n <= length
    OBVIOUS
  <2>2. PICK e : /\ Filled(e, g, width, mean_block, n, n)
                 /\ StationaryIndices(g, width, mean_block, n) = e[n]
    BY <1>1, <2>1
  <2>3. \A j \in 1 .. n : e[n][j] = f[length][j]
    <3>1. Filled(e, g, width, mean_block, n, n) /\ Filled(f, g, width, mean_block, length, length)
      BY <1>2, <2>2
    <3> QED
      BY <2>1, <3>1, FilledAgree
  <2> QED
    BY <2>2, <2>3
<1> QED
  BY <1>2, <1>3, <1>4, <1>5 DEF IndicesAgree

(* A row of demands has one for each step, and they do not depend on how    *)
(* many there are.                                                          *)
IsRow(r, n) == r = [i \in 1 .. n |-> r[i]]
OneEach(f, n) ==
  \A k \in 0 .. n :
    /\ IsRow(f[k].row, k)
    /\ k # 0 => \A i \in 1 .. k - 1 : f[k].row[i] = f[k - 1].row[i]
LEMMA DemandsAre ==
  ASSUME RawAreNatural, NEW g, NEW s, NEW n \in Nat, NEW f, Demands(f, g, s, n)
  PROVE  OneEach(f, n)
<1> DEFINE S == {0} \cup {Nonzero(s)[Integer(g, u, Len(Nonzero(s))) + 1] : u \in Nat}
           Is(k) == f[k].row \in Seq(S) /\ Len(f[k].row) = k /\ f[k].used \in Nat
           T == {k \in 0 .. n : Is(k)}
<1>0. \A k \in 0 .. n : f[k] = IF k = 0 THEN [on |-> Number(g, 1) % 2 = 0, used |-> 1, row |-> <<>>]
                               ELSE Demand(g, s, f[k - 1])
  BY DEF Demands
<1>1. Is(0)
  <2>1. f[0].row = <<>> /\ f[0].used = 1
    BY <1>0
  <2> QED
    BY <2>1
<1>2. ASSUME NEW k \in 0 .. n - 1, Is(k)
      PROVE  Is(k + 1) /\ \A i \in 1 .. k : f[k + 1].row[i] = f[k].row[i]
  <2>1. k + 1 \in 0 .. n /\ k + 1 # 0 /\ (k + 1) - 1 = k
    OBVIOUS
  <2>2. f[k + 1] = Demand(g, s, f[k])
    BY <1>0, <2>1
  <2> DEFINE on    == Number(g, f[k].used + 1) % 4 < (IF f[k].on THEN s.p11 ELSE s.p01)
             value == IF on THEN Nonzero(s)[Integer(g, f[k].used + 2, Len(Nonzero(s))) + 1] ELSE 0
  <2>3. f[k + 1].row = Append(f[k].row, value) /\ f[k + 1].used = f[k].used + (IF on THEN 2 ELSE 1)
    BY <2>2 DEF Demand
  <2>4. value \in S
    <3>1. f[k].used + 2 \in Nat
      BY <1>2
    <3> QED
      BY <3>1
  <2> HIDE DEF value, on, S
  <2>5. /\ Append(f[k].row, value) \in Seq(S) /\ Len(Append(f[k].row, value)) = Len(f[k].row) + 1
        /\ \A i \in 1 .. Len(f[k].row) : Append(f[k].row, value)[i] = f[k].row[i]
    BY <1>2, <2>4, AppendProperties
  <2>6. f[k + 1].used \in Nat
    BY <1>2, <2>3
  <2> QED
    BY <1>2, <2>3, <2>5, <2>6
<1>3. 0 .. n \subseteq T
  <2>1. 0 \in T /\ \A k \in 0 .. n - 1 : k \in T => k + 1 \in T
    BY <1>1, <1>2
  <2> HIDE DEF T
  <2> QED
    BY <2>1, CountsUp
<1>4. ASSUME NEW k \in 0 .. n
      PROVE  /\ IsRow(f[k].row, k)
             /\ k # 0 => \A i \in 1 .. k - 1 : f[k].row[i] = f[k - 1].row[i]
  <2>1. Is(k)
    BY <1>3
  <2>2. IsRow(f[k].row, k)
    BY <2>1 DEF IsRow
  <2>3. CASE k # 0
    <3>1. k - 1 \in 0 .. n - 1 /\ k - 1 \in 0 .. n /\ (k - 1) + 1 = k
      BY <2>3
    <3>2. Is(k - 1)
      BY <1>3, <3>1
    <3> HIDE DEF Is
    <3>3. \A i \in 1 .. k - 1 : f[(k - 1) + 1].row[i] = f[k - 1].row[i]
      BY <1>2, <3>1, <3>2
    <3> QED
      BY <2>2, <3>1, <3>3
  <2> QED
    BY <2>2, <2>3
<1> QED
  BY <1>4 DEF OneEach

LEMMA IntermittentIs ==
  ASSUME RawAreNatural, NEW g, NEW s, NEW length \in Nat
  PROVE  /\ IsRow(Intermittent(g, s, length), length)
         /\ \A n \in 0 .. length : \A i \in 1 .. n :
              Intermittent(g, s, n)[i] = Intermittent(g, s, length)[i]
<1>1. ASSUME NEW n \in Nat
      PROVE  \E f : Demands(f, g, s, n) /\ Intermittent(g, s, n) = f[n].row
  <2> DEFINE h == CHOOSE f : Demands(f, g, s, n)
  <2>1. Demands(h, g, s, n)
    BY Demanded
  <2>2. Intermittent(g, s, n) = h[n].row
    BY DEF Intermittent, Demands, Demand
  <2> HIDE DEF h
  <2> QED
    BY <2>1, <2>2
<1>2. PICK f : Demands(f, g, s, length) /\ Intermittent(g, s, length) = f[length].row
  BY <1>1
<1>3. \A k \in 0 .. length :
        /\ IsRow(f[k].row, k)
        /\ k # 0 => \A i \in 1 .. k - 1 : f[k].row[i] = f[k - 1].row[i]
  <2>1. Demands(f, g, s, length)
    BY <1>2
  <2>2. OneEach(f, length)
    BY <2>1, DemandsAre
  <2> QED
    BY <2>2 DEF OneEach
<1>4. ASSUME NEW n \in 0 .. length, NEW i \in 1 .. n
      PROVE  Intermittent(g, s, n)[i] = f[length].row[i]
  <2>1. n \in Nat
    OBVIOUS
  <2>2. PICK e : Demands(e, g, s, n) /\ Intermittent(g, s, n) = e[n].row
    BY <1>1, <2>1
  <2>3. /\ \A k \in 0 .. n : e[k] = IF k = 0 THEN [on |-> Number(g, 1) % 2 = 0, used |-> 1, row |-> <<>>]
                                     ELSE Demand(g, s, e[k - 1])
        /\ \A k \in 0 .. length : f[k] = IF k = 0 THEN [on |-> Number(g, 1) % 2 = 0, used |-> 1, row |-> <<>>]
                                     ELSE Demand(g, s, f[k - 1])
    BY <1>2, <2>2 DEF Demands
  <2>4. e[n] = f[n]
    <3> DEFINE T == {k \in 0 .. n : e[k] = f[k]}
    <3>1. 0 \in T
      BY <2>3
    <3>2. ASSUME NEW k \in 0 .. n - 1, k \in T PROVE k + 1 \in T
      <4>1. k + 1 \in 0 .. n /\ k + 1 \in 0 .. length /\ k + 1 # 0 /\ (k + 1) - 1 = k
        OBVIOUS
      <4>2. e[k + 1] = Demand(g, s, e[k]) /\ f[k + 1] = Demand(g, s, f[k]) /\ e[k] = f[k]
        BY <2>3, <3>2, <4>1
      <4> QED
        BY <4>1, <4>2
    <3>3. 0 .. n \subseteq T
      <4> HIDE DEF T
      <4> QED
        BY <2>1, <3>1, <3>2, CountsUp
    <3> QED
      BY <3>3
  <2> DEFINE U == {k \in 0 .. length : k >= n => f[k].row[i] = f[n].row[i]}
  <2>5. ASSUME NEW k \in 0 .. length - 1, k \in U PROVE k + 1 \in U
    <3>1. k + 1 \in 0 .. length /\ k + 1 # 0 /\ (k + 1) - 1 = k
      OBVIOUS
    <3>2. CASE k >= n
      <4>1. \A j \in 1 .. k : f[k + 1].row[j] = f[k].row[j]
        BY <1>3, <3>1
      <4>2. i \in 1 .. k
        BY <3>2
      <4> QED
        BY <2>5, <3>1, <3>2, <4>1, <4>2
    <3>3. CASE k + 1 = n
      BY <3>1, <3>3
    <3>4. CASE k + 1 < n
      BY <3>1, <3>4
    <3> QED
      BY <3>2, <3>3, <3>4
  <2>6. length \in U
    <3>1. 0 \in U
      OBVIOUS
    <3> HIDE DEF U
    <3>2. 0 .. length \subseteq U
      BY <2>5, <3>1, CountsUp
    <3> QED
      BY <3>2
  <2> QED
    BY <2>2, <2>4, <2>6
<1> QED
  BY <1>2, <1>3, <1>4

LEMMA SieveIs ==
  ASSUME NEW g, NEW s, s.burn \in Nat, NEW length \in Nat
  PROVE  /\ IsRow(Sieve(g, s, length), length)
         /\ \A n \in 0 .. length : \A i \in 1 .. n : Sieve(g, s, n)[i] = Sieve(g, s, length)[i]
<1> DEFINE Value(f, i) ==
             Floor(s, (IF s.period = 0 THEN s.poly[1] + s.poly[2] * (s.start + i - 1)
                       ELSE Trend(s, s.start + i - 1) + s.seasonal[Phase(s, s.start + i - 1) + 1])
                      + f[s.burn + i])
<1>1. ASSUME NEW n \in Nat
      PROVE  \E f : Innovations(f, g, s, s.burn + n) /\ Sieve(g, s, n) = [i \in 1 .. n |-> Value(f, i)]
  <2> DEFINE h == CHOOSE f : Innovations(f, g, s, s.burn + n)
  <2>0. s.burn + n \in Nat
    OBVIOUS
  <2>1. Innovations(h, g, s, s.burn + n)
    <3>1. \E f : Innovations(f, g, s, s.burn + n)
      BY <2>0, Innovates
    <3> QED
      BY <3>1
  <2>2. Sieve(g, s, n) = [i \in 1 .. n |-> Floor(s, Structure(s, n)[i] + h[s.burn + i])]
    BY DEF Sieve, Innovations, Innovation
  <2> HIDE DEF h
  <2>3. \A i \in 1 .. n : Structure(s, n)[i]
          = IF s.period = 0 THEN s.poly[1] + s.poly[2] * (s.start + i - 1)
            ELSE Trend(s, s.start + i - 1) + s.seasonal[Phase(s, s.start + i - 1) + 1]
    BY DEF Structure
  <2>4. Sieve(g, s, n) = [i \in 1 .. n |-> Value(h, i)]
    BY <2>2, <2>3
  <2> QED
    BY <2>1, <2>4
<1>2. PICK f : /\ Innovations(f, g, s, s.burn + length)
               /\ Sieve(g, s, length) = [i \in 1 .. length |-> Value(f, i)]
  BY <1>1
<1>3. ASSUME NEW n \in 0 .. length, NEW i \in 1 .. n PROVE Sieve(g, s, n)[i] = Sieve(g, s, length)[i]
  <2>1. n \in Nat
    OBVIOUS
  <2>2. PICK e : /\ Innovations(e, g, s, s.burn + n)
                 /\ Sieve(g, s, n) = [j \in 1 .. n |-> Value(e, j)]
    BY <1>1, <2>1
  <2> DEFINE N == s.burn + n
  <2>3. N \in Nat /\ s.burn + i \in 0 .. N /\ 0 .. N \subseteq 0 .. s.burn + length
    OBVIOUS
  <2>4. /\ \A k \in 0 .. N : e[k] = IF k = 0 THEN 0 ELSE Innovation(g, s, e[k - 1], k)
        /\ \A k \in 0 .. N : f[k] = IF k = 0 THEN 0 ELSE Innovation(g, s, f[k - 1], k)
    BY <1>2, <2>2, <2>3 DEF Innovations
  <2>5. e[s.burn + i] = f[s.burn + i]
    <3> DEFINE T == {k \in 0 .. N : e[k] = f[k]}
    <3> HIDE DEF N
    <3>1. 0 \in T
      BY <2>3, <2>4
    <3>2. ASSUME NEW k \in 0 .. N - 1, k \in T PROVE k + 1 \in T
      <4>1. k + 1 \in 0 .. N /\ k + 1 # 0 /\ (k + 1) - 1 = k
        BY <2>3
      <4>2. /\ e[k + 1] = Innovation(g, s, e[k], k + 1) /\ f[k + 1] = Innovation(g, s, f[k], k + 1)
            /\ e[k] = f[k]
        BY <2>4, <3>2, <4>1
      <4> QED
        BY <4>1, <4>2
    <3>3. 0 .. N \subseteq T
      <4> HIDE DEF T
      <4> QED
        BY <2>3, <3>1, <3>2, CountsUp
    <3> QED
      BY <2>3, <3>3
  <2>6. i \in 1 .. length
    OBVIOUS
  <2> HIDE DEF N
  <2>7. Sieve(g, s, n)[i] = Value(e, i) /\ Sieve(g, s, length)[i] = Value(f, i)
    <3> HIDE DEF Value
    <3> QED
      BY <1>2, <2>2, <2>6
  <2> QED
    BY <2>5, <2>7
<1>4. IsRow(Sieve(g, s, length), length)
  <2> HIDE DEF Value
  <2> QED
    BY <1>2 DEF IsRow
<1> QED
  BY <1>3, <1>4

(* Two rows of a source, one as long as the other or longer, agree where    *)
(* both are.                                                                *)
BeginsWith(s, g, n, length) == \A i \in 1 .. n : Row(s, g, n)[i] = Row(s, g, length)[i]

LEMMA RowIs ==
  ASSUME RawAreNatural, NEW s, Built(s), Generated(s), NEW g, NEW length \in Nat
  PROVE  /\ IsRow(Row(s, g, length), length)
         /\ s.stable => \A n \in 0 .. length : BeginsWith(s, g, n, length)
<1> DEFINE Goal == /\ IsRow(Row(s, g, length), length)
                   /\ s.stable => \A n \in 0 .. length : BeginsWith(s, g, n, length)
<1>0. \A n \in 0 .. length : n \in Nat /\ \A i \in 1 .. n : i \in 1 .. length
  OBVIOUS
<1>1. CASE s.kind = "iid"
  <2>1. \A n \in Nat : Row(s, g, n) = [i \in 1 .. n |-> s.data[Integer(g, i, Len(s.data)) + 1]]
    BY <1>1 DEF Row, Iid
  <2> QED
    BY <1>0, <2>1 DEF IsRow, BeginsWith
<1>2. CASE s.kind = "moving_block"
  <2> DEFINE At(i) == LET begin == Integer(g, (i - 1) \div s.block + 1, Len(s.data) - s.block + 1)
                      IN  s.data[begin + ((i - 1) % s.block) + 1]
  <2>1. \A n \in Nat : Row(s, g, n) = [i \in 1 .. n |-> At(i)]
    BY <1>2 DEF Row, MovingBlock
  <2> HIDE DEF At
  <2> QED
    BY <1>0, <2>1 DEF IsRow, BeginsWith
<1>3. CASE s.kind = "circular_block"
  <2> DEFINE At(i) == LET begin == Integer(g, (i - 1) \div s.block + 1, Len(s.data))
                      IN  s.data[((begin + ((i - 1) % s.block)) % Len(s.data)) + 1]
  <2>1. \A n \in Nat : Row(s, g, n) = [i \in 1 .. n |-> At(i)]
    BY <1>3 DEF Row, CircularBlock
  <2> HIDE DEF At
  <2> QED
    BY <1>0, <2>1 DEF IsRow, BeginsWith
<1>4. CASE s.kind = "stationary"
  <2>1. \A n \in Nat : Row(s, g, n)
          = [i \in 1 .. n |-> s.data[StationaryIndices(g, Len(s.data), s.mean_block, n)[i]]]
    BY <1>4 DEF Row
  <2>2. Len(s.data) \in Nat \ {0} /\ s.mean_block \in Nat \ {0}
    BY <1>4 DEF Built, Rows
  <2>3. \A n \in 0 .. length : IndicesAgree(g, Len(s.data), s.mean_block, n, length)
    BY <2>2, StationaryIs
  <2>4. ASSUME NEW n \in 0 .. length, NEW i \in 1 .. n
        PROVE  Row(s, g, n)[i] = Row(s, g, length)[i]
    <3>1. i \in 1 .. length /\ n \in Nat
      BY <1>0
    <3>2. Row(s, g, n)[i] = s.data[StationaryIndices(g, Len(s.data), s.mean_block, n)[i]]
      BY <2>1, <3>1
    <3>3. Row(s, g, length)[i] = s.data[StationaryIndices(g, Len(s.data), s.mean_block, length)[i]]
      BY <2>1, <3>1
    <3>4. IndicesAgree(g, Len(s.data), s.mean_block, n, length)
      BY <2>3
    <3> QED
      BY <3>2, <3>3, <3>4 DEF IndicesAgree
  <2>5. IsRow(Row(s, g, length), length)
    BY <2>1 DEF IsRow
  <2> QED
    BY <2>4, <2>5 DEF BeginsWith
<1>5. CASE s.kind = "intermittent"
  <2>1. \A n \in Nat : Row(s, g, n) = Intermittent(g, s, n)
    BY <1>5 DEF Row
  <2>2. /\ IsRow(Intermittent(g, s, length), length)
        /\ \A n \in 0 .. length : \A i \in 1 .. n :
             Intermittent(g, s, n)[i] = Intermittent(g, s, length)[i]
    BY IntermittentIs
  <2> QED
    BY <1>0, <2>1, <2>2 DEF BeginsWith
<1>6. CASE s.kind = "residual"
  <2> DEFINE Index(n) == IF s.mean_block = 0
                         THEN [i \in 1 .. n |-> Integer(g, i, Len(s.errors)) + 1]
                         ELSE StationaryIndices(g, Len(s.errors), s.mean_block, n)
             Fitted(i) == IF s.period = 0 THEN s.poly[1] + s.poly[2] * (s.start + i - 1)
                          ELSE Trend(s, s.start + i - 1) + s.seasonal[Phase(s, s.start + i - 1) + 1]
             At(i, j) == Floor(s, Fitted(i) + s.errors[j])
  <2>1. \A n \in Nat : Row(s, g, n) = [i \in 1 .. n |-> At(i, Index(n)[i])]
    <3> TAKE n \in Nat
    <3>1. Row(s, g, n) = [i \in 1 .. n |-> Floor(s, Structure(s, n)[i] + s.errors[Index(n)[i]])]
      BY <1>6 DEF Row, Residual
    <3>2. \A i \in 1 .. n : Structure(s, n)[i] = Fitted(i)
      BY DEF Structure
    <3> QED
      BY <3>1, <3>2
  <2>2. Len(s.errors) \in Nat \ {0} /\ s.mean_block \in Nat
    BY <1>6 DEF Built, Rows
  <2>3. ASSUME NEW n \in 0 .. length, NEW i \in 1 .. n PROVE Index(n)[i] = Index(length)[i]
    <3>1. CASE s.mean_block = 0
      BY <1>0, <3>1
    <3>2. CASE s.mean_block # 0
      <4>1. s.mean_block \in Nat \ {0}
        BY <2>2, <3>2
      <4>2. IndicesAgree(g, Len(s.errors), s.mean_block, n, length)
        BY <2>2, <4>1, StationaryIs
      <4> QED
        BY <3>2, <4>2 DEF IndicesAgree
    <3> QED
      BY <3>1, <3>2
  <2> HIDE DEF Index, At
  <2> QED
    BY <1>0, <2>1, <2>3 DEF IsRow, BeginsWith
<1>7. CASE s.kind = "wild"
  <2> DEFINE Fitted(i) == IF s.period = 0 THEN s.poly[1] + s.poly[2] * (s.start + i - 1)
                          ELSE Trend(s, s.start + i - 1) + s.seasonal[Phase(s, s.start + i - 1) + 1]
             At(i) == Floor(s, Fitted(i) + s.errors[s.start + i] * (2 * Integer(g, i, 2) - 1))
  <2>1. \A n \in Nat : Row(s, g, n) = [i \in 1 .. n |-> At(i)]
    <3> TAKE n \in Nat
    <3>1. Row(s, g, n) = [i \in 1 .. n |->
            Floor(s, Structure(s, n)[i] + s.errors[s.start + i] * (2 * Integer(g, i, 2) - 1))]
      BY <1>7 DEF Row, Wild
    <3>2. \A i \in 1 .. n : Structure(s, n)[i] = Fitted(i)
      BY DEF Structure
    <3> QED
      BY <3>1, <3>2
  <2> HIDE DEF At
  <2> QED
    BY <1>0, <2>1 DEF IsRow, BeginsWith
<1>8. CASE s.kind = "sieve"
  <2>1. \A n \in Nat : Row(s, g, n) = Sieve(g, s, n)
    BY <1>8 DEF Row
  <2>2. s.burn \in Nat
    BY <1>8 DEF Built, Rows
  <2>3. /\ IsRow(Sieve(g, s, length), length)
        /\ \A n \in 0 .. length : \A i \in 1 .. n : Sieve(g, s, n)[i] = Sieve(g, s, length)[i]
    BY <2>2, SieveIs
  <2> QED
    BY <1>0, <2>1, <2>3 DEF BeginsWith
<1>9. CASE s.kind = "custom"
  <2>1. Row(s, g, length) = [i \in 1 .. length |-> Number(g, i) + length]
    BY <1>9 DEF Row, Custom
  <2>2. ~s.stable
    BY <1>9 DEF Built, Rows
  <2> QED
    BY <2>1, <2>2 DEF IsRow
<1> QED
  BY <1>1, <1>2, <1>3, <1>4, <1>5, <1>6, <1>7, <1>8, <1>9 DEF Generated, Rows

(* A row is a sequence of the length that is asked for.                     *)
LEMMA IsRowLength ==
  ASSUME NEW r, NEW n \in Nat, IsRow(r, n)
  PROVE  /\ DOMAIN r = 1 .. n /\ Len(r) = n
         /\ r \in Seq({r[i] : i \in 1 .. n})
<1>1. DOMAIN r = 1 .. n
  BY DEF IsRow
<1>2. r \in [1 .. n -> {r[i] : i \in 1 .. n}]
  BY DEF IsRow
<1> QED
  BY <1>1, <1>2

(* Joint rows of any lengths take the same observation at a place.          *)
DrawnTogether(s, u, g, n, m, i) ==
  \E j \in DOMAIN s.data : Row(s, g, n)[i] = s.data[j] /\ Row(u, g, m)[i] = u.data[j]
LEMMA JointRows ==
  ASSUME RawAreNatural, NEW s, NEW u, Built(s), Built(u), s.kind = "stationary",
         u.kind = "stationary", s.mean_block = u.mean_block, Len(s.data) = Len(u.data),
         NEW g, NEW n \in Nat, NEW m \in Nat, NEW i, i \in 1 .. n, i \in 1 .. m
  PROVE  DrawnTogether(s, u, g, n, m, i)
<1> DEFINE At(k) == StationaryIndices(g, Len(s.data), s.mean_block, k)[i]
<1>0. Len(s.data) \in Nat \ {0} /\ s.mean_block \in Nat \ {0} /\ DOMAIN s.data = 1 .. Len(s.data)
  BY DEF Built, Rows
<1>1. Row(s, g, n)[i] = s.data[At(n)] /\ Row(u, g, m)[i] = u.data[At(m)]
  BY DEF Row
<1>2. ASSUME NEW a \in Nat, NEW b \in Nat, a <= b, i \in 1 .. a PROVE At(a) = At(b)
  <2>1. a \in 0 .. b
    BY <1>2
  <2>2. IndicesAgree(g, Len(s.data), s.mean_block, a, b)
    BY <1>0, <2>1, StationaryIs
  <2> QED
    BY <1>2, <2>2 DEF IndicesAgree
<1>3. At(n) = At(m)
  BY <1>2
<1>4. At(n) \in 1 .. Len(s.data)
  <2>1. \A k \in 1 .. n :
          StationaryIndices(g, Len(s.data), s.mean_block, n)[k] \in 1 .. Len(s.data)
    BY <1>0, StationaryIs
  <2> QED
    BY <2>1
<1> HIDE DEF At
<1>5. At(n) \in DOMAIN s.data
  BY <1>0, <1>4
<1> QED
  BY <1>1, <1>3, <1>5 DEF DrawnTogether

-----------------------------------------------------------------------------
(* The cache: what one option keeps are rows of its keys, each key once, and*)
(* fits the memory whenever a row was fetched                               *)

Tags    == {Sources[x].tag : x \in DOMAIN Sources} \cup Range(Fields)
AllKeys == [source : {x \in DOMAIN Sources : Generated(Sources[x])}, tag : Tags, seed : Nat,
            length : Nat]
EntryOf(k) == [key |-> k, row |-> RowOf(k)]
AllEntries == {EntryOf(k) : k \in AllKeys}

(* What a snapshot may keep.                                                *)
SoundCache(c) == /\ c \in Seq(AllEntries)
                 /\ \A i, j \in 1 .. Len(c) : c[i].key = c[j].key => i = j

(* The row of a key has its length.                                         *)
LEMMA RowOfIs ==
  ASSUME RawAreNatural, NEW k \in AllKeys
  PROVE  IsRow(RowOf(k), k.length) /\ Len(RowOf(k)) = k.length
<1>1. /\ k.source \in DOMAIN Sources /\ Generated(Sources[k.source]) /\ k.length \in Nat
  BY DEF AllKeys
<1>2. Built(Sources[k.source])
  BY <1>1, SourceAssumption
<1>3. IsRow(RowOf(k), k.length)
  BY <1>1, <1>2, RowIs DEF RowOf
<1>4. Len(RowOf(k)) = k.length
  BY <1>1, <1>3, IsRowLength
<1> QED
  BY <1>3, <1>4

LEMMA EntryIs ==
  ASSUME RawAreNatural, NEW e \in AllEntries
  PROVE  /\ e.key \in AllKeys /\ e.row = RowOf(e.key) /\ e = EntryOf(e.key)
         /\ Len(e.row) = e.key.length /\ Len(e.row) \in Nat
<1>1. PICK k \in AllKeys : e = EntryOf(k)
  BY DEF AllEntries
<1>2. e.key = k /\ e.row = RowOf(k)
  BY <1>1 DEF EntryOf
<1>3. Len(RowOf(k)) = k.length /\ k.length \in Nat
  BY RowOfIs DEF AllKeys
<1> QED
  BY <1>1, <1>2, <1>3

(* How much a cache keeps, as a sum over its places.                        *)
RowLengths(c) == [i \in DOMAIN c |-> Len(c[i].row)]
LEMMA TotalIs ==
  ASSUME RawAreNatural, NEW c \in Seq(AllEntries)
  PROVE  /\ Total(c) = SumOver(RowLengths(c), 1 .. Len(c)) /\ Total(c) \in Nat
         /\ IsFiniteSet(1 .. Len(c)) /\ \A i \in 1 .. Len(c) : RowLengths(c)[i] \in Nat
<1>1. IsFiniteSet(1 .. Len(c))
  <2>1. Len(c) \in Nat
    OBVIOUS
  <2> QED
    BY <2>1, FS_Interval
<1>2. \A i \in 1 .. Len(c) : RowLengths(c)[i] \in Nat
  <2> TAKE i \in 1 .. Len(c)
  <2>1. c[i] \in AllEntries /\ i \in DOMAIN c
    OBVIOUS
  <2> QED
    BY <2>1, EntryIs DEF RowLengths
<1>3. DOMAIN c = 1 .. Len(c)
  OBVIOUS
<1>4. Total(c) = SumOver(RowLengths(c), DOMAIN c)
  BY DEF Total, SumOver, FoldFunction, FoldFunctionOnSet, MapThenFoldSet, RowLengths
<1>5. SumOver(RowLengths(c), 1 .. Len(c)) \in Nat
  BY <1>1, <1>2, SumApart
<1> QED
  BY <1>1, <1>2, <1>3, <1>4, <1>5

(* A cache with entries of another, each taken once, keeps no more.         *)
LEMMA TotalInjected ==
  ASSUME RawAreNatural, NEW c \in Seq(AllEntries), NEW d \in Seq(AllEntries),
         NEW m \in [1 .. Len(c) -> 1 .. Len(d)],
         \A i \in 1 .. Len(c) : c[i] = d[m[i]],
         \A i, j \in 1 .. Len(c) : m[i] = m[j] => i = j
  PROVE  Total(c) <= Total(d)
<1>1. /\ Total(c) = SumOver(RowLengths(c), 1 .. Len(c)) /\ IsFiniteSet(1 .. Len(c))
      /\ \A i \in 1 .. Len(c) : RowLengths(c)[i] \in Nat
  BY TotalIs
<1>2. /\ Total(d) = SumOver(RowLengths(d), 1 .. Len(d)) /\ IsFiniteSet(1 .. Len(d))
      /\ \A i \in 1 .. Len(d) : RowLengths(d)[i] \in Nat
  BY TotalIs
<1>3. \A i \in 1 .. Len(c) : RowLengths(c)[i] \in Nat /\ RowLengths(c)[i] <= RowLengths(d)[m[i]]
  <2> TAKE i \in 1 .. Len(c)
  <2>1. i \in DOMAIN c /\ m[i] \in DOMAIN d /\ c[i] = d[m[i]]
    OBVIOUS
  <2>2. RowLengths(c)[i] = RowLengths(d)[m[i]]
    BY <2>1 DEF RowLengths
  <2> QED
    BY <1>1, <2>2
<1>4. SumOver(RowLengths(c), 1 .. Len(c)) <= SumOver(RowLengths(d), 1 .. Len(d))
  BY <1>1, <1>2, <1>3, SumInjected
<1> QED
  BY <1>1, <1>2, <1>4

(* Trimming leaves the end of a cache, that fits.                           *)
LEMMA TrimmedIs ==
  ASSUME RawAreNatural, NEW c, SoundCache(c), NEW memory \in Nat
  PROVE  /\ SoundCache(Trimmed(c, memory)) /\ Total(Trimmed(c, memory)) <= memory
         /\ Cached(Trimmed(c, memory)) \subseteq Cached(c)
         /\ \A i \in 1 .. Len(Trimmed(c, memory)) : \E j \in 1 .. Len(c) : Trimmed(c, memory)[i] = c[j]
<1> DEFINE fits == {k \in 1 .. Len(c) + 1 : Total(SubSeq(c, k, Len(c))) <= memory}
<1>1. c \in Seq(AllEntries) /\ Len(c) \in Nat
  BY DEF SoundCache
<1>2. Len(c) + 1 \in fits
  <2>1. SubSeq(c, Len(c) + 1, Len(c)) = <<>>
    BY <1>1
  <2>2. Total(<<>>) = 0
    <3>1. <<>> \in Seq(AllEntries) /\ 1 .. Len(<<>>) = {}
      OBVIOUS
    <3>2. Total(<<>>) = SumOver(RowLengths(<<>>), 1 .. Len(<<>>))
      BY <3>1, TotalIs
    <3>3. SumOver(RowLengths(<<>>), {}) = 0
      BY FS_EmptySet, SumTakes
    <3> QED
      BY <3>1, <3>2, <3>3
  <2>3. Total(SubSeq(c, Len(c) + 1, Len(c))) <= memory
    <3> DEFINE q == SubSeq(c, Len(c) + 1, Len(c))
    <3>1. q = <<>>
      BY <2>1
    <3> HIDE DEF q
    <3>2. Total(q) = 0
      BY <2>2, <3>1
    <3>3. Total(q) <= memory
      BY <3>2
    <3> QED
      BY <3>3 DEF q
  <2> QED
    BY <1>1, <2>3
<1>3. PICK k \in fits : \A j \in fits : k <= j
  <2>1. fits \in SUBSET Nat
    OBVIOUS
  <2> HIDE DEF fits
  <2> QED
    BY <1>2, <2>1, LeastNatural
<1>4. k \in 1 .. Len(c) + 1 /\ Total(SubSeq(c, k, Len(c))) <= memory
  OBVIOUS
<1>5. Trimmed(c, memory) = SubSeq(c, k, Len(c))
  <2>1. \A j \in fits : (\A i \in fits : j <= i) => j = k
    BY <1>1, <1>3
  <2>2. (CHOOSE j \in fits : \A i \in fits : j <= i) = k
    <3> HIDE DEF fits
    <3> QED
      BY <1>3, <2>1
  <2> QED
    BY <2>2 DEF Trimmed
<1> DEFINE t == SubSeq(c, k, Len(c))
<1>6. t \in Seq(AllEntries) /\ Len(t) = Len(c) - k + 1 /\ Len(t) \in Nat
  <2>1. \A i \in k .. Len(c) : c[i] \in AllEntries
    BY <1>1, <1>4
  <2>2. Len(t) = Len(c) - k + 1 /\ Len(t) \in Nat
    BY <1>1, <1>4
  <2>3. t \in Seq(AllEntries)
    BY <1>1, <1>4, <2>1
  <2> QED
    BY <2>2, <2>3
<1>7. \A i \in 1 .. Len(t) : t[i] = c[k + i - 1] /\ k + i - 1 \in 1 .. Len(c)
  BY <1>1, <1>4, <1>6
<1> HIDE DEF t
<1>8. SoundCache(t)
  <2>1. ASSUME NEW i \in 1 .. Len(t), NEW j \in 1 .. Len(t), t[i].key = t[j].key PROVE i = j
    <3>1. /\ c[k + i - 1].key = c[k + j - 1].key /\ k + i - 1 \in 1 .. Len(c)
          /\ k + j - 1 \in 1 .. Len(c)
      BY <1>7, <2>1
    <3>2. k + i - 1 = k + j - 1
      BY <3>1 DEF SoundCache
    <3> QED
      BY <1>4, <3>2
  <2> QED
    BY <1>6, <2>1 DEF SoundCache
<1>9. Cached(t) \subseteq Cached(c)
  <2>1. DOMAIN t = 1 .. Len(t) /\ DOMAIN c = 1 .. Len(c)
    BY <1>1, <1>6
  <2> QED
    BY <1>7, <2>1 DEF Cached
<1>10. Trimmed(c, memory) = t /\ Total(t) <= memory
  BY <1>4, <1>5 DEF t
<1> QED
  BY <1>7, <1>8, <1>9, <1>10

(* Adding a row that is not kept.                                           *)
LEMMA AddedIs ==
  ASSUME RawAreNatural, NEW c, SoundCache(c), NEW memory \in Nat, NEW k \in AllKeys,
         k \notin Cached(c)
  PROVE  /\ SoundCache(Added(c, k, memory)) /\ Total(Added(c, k, memory)) <= memory
         /\ Cached(Added(c, k, memory)) \subseteq Cached(c) \cup {k}
<1> DEFINE a == Append(c, EntryOf(k))
<1>1. c \in Seq(AllEntries) /\ Len(c) \in Nat /\ DOMAIN c = 1 .. Len(c)
  BY DEF SoundCache
<1>2. EntryOf(k) \in AllEntries /\ EntryOf(k).key = k
  BY DEF AllEntries, EntryOf
<1>3. /\ a \in Seq(AllEntries) /\ Len(a) = Len(c) + 1
      /\ \A i \in 1 .. Len(c) : a[i] = c[i]
      /\ a[Len(c) + 1] = EntryOf(k)
  BY <1>1, <1>2, AppendProperties
<1>4. DOMAIN a = 1 .. Len(c) + 1
  BY <1>1, <1>3, LenProperties
<1> HIDE DEF a
<1>5. \A i \in 1 .. Len(c) : a[i].key # k
  BY <1>1, <1>3 DEF Cached
<1>6. SoundCache(a)
  <2>1. ASSUME NEW i \in 1 .. Len(a), NEW j \in 1 .. Len(a), a[i].key = a[j].key PROVE i = j
    <3>1. CASE i \in 1 .. Len(c) /\ j \in 1 .. Len(c)
      BY <1>3, <2>1, <3>1 DEF SoundCache
    <3>2. CASE i = Len(c) + 1 /\ j = Len(c) + 1
      BY <3>2
    <3>3. CASE i = Len(c) + 1 /\ j \in 1 .. Len(c)
      BY <1>2, <1>3, <1>5, <2>1, <3>3
    <3>4. CASE j = Len(c) + 1 /\ i \in 1 .. Len(c)
      BY <1>2, <1>3, <1>5, <2>1, <3>4
    <3>5. \A x \in 1 .. Len(a) : x \in 1 .. Len(c) \/ x = Len(c) + 1
      BY <1>1, <1>3
    <3> QED
      BY <3>1, <3>2, <3>3, <3>4, <3>5
  <2> QED
    BY <1>3, <2>1 DEF SoundCache
<1>7. Cached(a) \subseteq Cached(c) \cup {k}
  <2>1. ASSUME NEW i \in DOMAIN a PROVE a[i].key \in Cached(c) \cup {k}
    <3>1. CASE i \in 1 .. Len(c)
      BY <1>1, <1>3, <3>1 DEF Cached
    <3>2. CASE i = Len(c) + 1
      BY <1>2, <1>3, <3>2
    <3> QED
      BY <1>1, <1>4, <3>1, <3>2
  <2> QED
    BY <2>1 DEF Cached
<1>8. Added(c, k, memory) = Trimmed(a, memory)
  BY DEF Added, EntryOf, a
<1>9. /\ SoundCache(Trimmed(a, memory)) /\ Total(Trimmed(a, memory)) <= memory
      /\ Cached(Trimmed(a, memory)) \subseteq Cached(a)
  BY <1>6, TrimmedIs
<1> QED
  BY <1>7, <1>8, <1>9

(* Adding rows of several keys, none of them kept.                          *)
LEMMA AddedAllIs ==
  ASSUME RawAreNatural, NEW c, SoundCache(c), NEW memory \in Nat, Total(c) <= memory,
         NEW keys, NEW N \in Nat, DOMAIN keys = 1 .. N,
         \A i \in 1 .. N : keys[i] \in AllKeys /\ keys[i] \notin Cached(c),
         \A i, j \in 1 .. N : keys[i] = keys[j] => i = j
  PROVE  /\ SoundCache(AddedAll(c, keys, memory)) /\ Total(AddedAll(c, keys, memory)) <= memory
<1>0. PICK f : AddedSteps(f, memory, c, keys, N)
  BY AddedFold
<1>1. /\ f[0] = c /\ AddedAll(c, keys, memory) = f[N]
      /\ \A n \in 1 .. N : f[n] = Added(f[n - 1], keys[n], memory)
  BY <1>0 DEF AddedSteps
<1> DEFINE Is(n) == /\ SoundCache(f[n]) /\ Total(f[n]) <= memory
                    /\ \A i \in 1 .. N : i > n => keys[i] \notin Cached(f[n])
           T == {n \in 0 .. N : Is(n)}
<1>2. Is(0)
  BY <1>1
<1>3. ASSUME NEW n \in 0 .. N - 1, Is(n) PROVE Is(n + 1)
  <2>1. n + 1 \in 1 .. N /\ (n + 1) - 1 = n /\ n + 1 > n
    OBVIOUS
  <2>2. f[n + 1] = Added(f[n], keys[n + 1], memory)
    BY <1>1, <2>1
  <2>3. SoundCache(f[n]) /\ keys[n + 1] \in AllKeys /\ keys[n + 1] \notin Cached(f[n])
    BY <1>3, <2>1
  <2>4. /\ SoundCache(f[n + 1]) /\ Total(f[n + 1]) <= memory
        /\ Cached(f[n + 1]) \subseteq Cached(f[n]) \cup {keys[n + 1]}
    BY <2>2, <2>3, AddedIs
  <2>5. ASSUME NEW i \in 1 .. N, i > n + 1 PROVE keys[i] \notin Cached(f[n + 1])
    <3>1. keys[i] \notin Cached(f[n]) /\ keys[i] # keys[n + 1]
      BY <1>3, <2>1, <2>5
    <3> QED
      BY <2>4, <3>1
  <2> QED
    BY <2>4, <2>5
<1>4. Is(N)
  <2>1. 0 \in T /\ \A n \in 0 .. N - 1 : n \in T => n + 1 \in T
    BY <1>2, <1>3
  <2> HIDE DEF T
  <2>2. 0 .. N \subseteq T
    BY <2>1, CountsUp
  <2>3. N \in T
    BY <2>2
  <2> QED
    BY <2>3 DEF T
<1> QED
  BY <1>1, <1>4

(* The cached row of a key is its row.                                      *)
LEMMA CachedRowIs ==
  ASSUME RawAreNatural, NEW c, SoundCache(c), NEW k \in Cached(c)
  PROVE  CachedRow(c, k) = RowOf(k) /\ k \in AllKeys
<1>1. PICK i \in DOMAIN c : i = CHOOSE j \in DOMAIN c : c[j].key = k
  BY DEF Cached
<1>2. c[i].key = k
  BY <1>1 DEF Cached
<1>3. c[i] \in AllEntries
  BY DEF SoundCache
<1>4. c[i].row = RowOf(k) /\ k \in AllKeys
  BY <1>2, <1>3, EntryIs
<1> QED
  BY <1>1, <1>4 DEF CachedRow

(* Fetching rows of distinct keys gives the rows of the keys, and leaves a  *)
(* sound cache that fits.                                                   *)
LEMMA FetchedIs ==
  ASSUME RawAreNatural, NEW c, SoundCache(c), NEW memory \in Nat,
         NEW keys, NEW N \in Nat, DOMAIN keys = 1 .. N,
         \A i \in 1 .. N : keys[i] \in AllKeys,
         \A i, j \in 1 .. N : keys[i] = keys[j] => i = j
  PROVE  /\ SoundCache(Fetched(c, keys, memory).cache)
         /\ Total(Fetched(c, keys, memory).cache) <= memory
         /\ Fetched(c, keys, memory).rows = [k \in Range(keys) |-> RowOf(k)]
<1> DEFINE kept   == Trimmed(c, memory)
           hitsAt == {i \in DOMAIN keys : keys[i] \in Cached(kept)}
           missAt == {i \in DOMAIN keys : keys[i] \notin Cached(kept)}
           restAt == {i \in DOMAIN kept : kept[i].key \notin Range(keys)}
           hits   == Picked(keys, hitsAt)
           misses == Picked(keys, missAt)
           rest   == Picked(kept, restAt)
           again  == [i \in DOMAIN hits |-> [key |-> hits[i], row |-> CachedRow(kept, hits[i])]]
           moved  == rest \o again
<1>1. SoundCache(kept) /\ Total(kept) <= memory
  BY TrimmedIs
<1>2. /\ Fetched(c, keys, memory).cache = AddedAll(moved, misses, memory)
      /\ Fetched(c, keys, memory).rows
         = [k \in Range(keys) |-> IF k \in Cached(kept) THEN CachedRow(kept, k) ELSE RowOf(k)]
  <2> HIDE DEF kept
  <2> QED
    BY DEF Fetched, kept
<1>3. Fetched(c, keys, memory).rows = [k \in Range(keys) |-> RowOf(k)]
  <2> HIDE DEF kept
  <2>1. \A k \in Range(keys) : k \in Cached(kept) => CachedRow(kept, k) = RowOf(k)
    BY <1>1, CachedRowIs
  <2> QED
    BY <1>2, <2>1
<1> HIDE DEF kept
<1>4. kept \in Seq(AllEntries) /\ Len(kept) \in Nat /\ DOMAIN kept = 1 .. Len(kept)
  BY <1>1 DEF SoundCache
<1>5. /\ IsFiniteSet(hitsAt) /\ hitsAt \in SUBSET Int /\ hitsAt \in SUBSET (1 .. N)
      /\ IsFiniteSet(missAt) /\ missAt \in SUBSET Int /\ missAt \in SUBSET (1 .. N)
      /\ IsFiniteSet(restAt) /\ restAt \in SUBSET Int
  <2>1. IsFiniteSet(1 .. N) /\ IsFiniteSet(1 .. Len(kept))
    BY <1>4, FS_Interval
  <2>2. hitsAt \in SUBSET (1 .. N) /\ missAt \in SUBSET (1 .. N) /\ restAt \in SUBSET (1 .. Len(kept))
    BY <1>4
  <2> HIDE DEF hitsAt, missAt, restAt
  <2>3. IsFiniteSet(hitsAt) /\ IsFiniteSet(missAt) /\ IsFiniteSet(restAt)
    BY <2>1, <2>2, FS_Subset
  <2> QED
    BY <2>2, <2>3
<1>6. /\ Len(hits) \in Nat /\ IsRow(hits, Len(hits)) /\ PickedPlaces(hitsAt, hits, keys, InOrder(hitsAt))
  <2> HIDE DEF hitsAt
  <2> QED
    BY <1>5, PickedIs DEF IsRow
<1>7. /\ Len(misses) \in Nat /\ IsRow(misses, Len(misses))
      /\ PickedPlaces(missAt, misses, keys, InOrder(missAt))
  <2> HIDE DEF missAt
  <2> QED
    BY <1>5, PickedIs DEF IsRow
<1>8. /\ Len(rest) \in Nat /\ IsRow(rest, Len(rest)) /\ PickedPlaces(restAt, rest, kept, InOrder(restAt))
  <2> HIDE DEF restAt
  <2> QED
    BY <1>5, PickedIs DEF IsRow
<1> HIDE DEF hits, misses, rest
<1> DEFINE H == Len(hits)
           M == Len(misses)
           R == Len(rest)
           hit == InOrder(hitsAt)
           miss == InOrder(missAt)
           left == InOrder(restAt)
<1>9. /\ \A n \in 1 .. H : hit[n] \in 1 .. N /\ hits[n] = keys[hit[n]] /\ hits[n] \in Cached(kept)
      /\ \A m, n \in 1 .. H : m < n => hit[m] < hit[n]
  BY <1>5, <1>6 DEF PickedPlaces
<1>10. /\ \A n \in 1 .. M : miss[n] \in 1 .. N /\ misses[n] = keys[miss[n]] /\ misses[n] \notin Cached(kept)
       /\ \A m, n \in 1 .. M : m < n => miss[m] < miss[n]
  BY <1>5, <1>7 DEF PickedPlaces
<1>11. /\ \A n \in 1 .. R : left[n] \in 1 .. Len(kept) /\ rest[n] = kept[left[n]]
                            /\ rest[n].key \notin Range(keys)
       /\ \A m, n \in 1 .. R : m < n => left[m] < left[n]
  BY <1>4, <1>8 DEF PickedPlaces
<1> HIDE DEF hit, miss, left, hitsAt, missAt, restAt
<1>12. \A m, n \in 1 .. H : hits[m] = hits[n] => m = n
  <2>1. ASSUME NEW m \in 1 .. H, NEW n \in 1 .. H, hits[m] = hits[n] PROVE m = n
    <3>1. hit[m] = hit[n]
      BY <1>9, <2>1
    <3>2. hit[m] \in Int /\ hit[n] \in Int /\ m \in Int /\ n \in Int
      BY <1>9
    <3> QED
      BY <1>9, <3>1, <3>2
  <2> QED
    BY <2>1
<1>13. \A m, n \in 1 .. M : misses[m] = misses[n] => m = n
  <2>1. ASSUME NEW m \in 1 .. M, NEW n \in 1 .. M, misses[m] = misses[n] PROVE m = n
    <3>1. miss[m] = miss[n]
      BY <1>10, <2>1
    <3>2. miss[m] \in Int /\ miss[n] \in Int /\ m \in Int /\ n \in Int
      BY <1>10
    <3> QED
      BY <1>10, <3>1, <3>2
  <2> QED
    BY <2>1
<1>14. \A m, n \in 1 .. R : left[m] = left[n] => m = n
  <2>1. ASSUME NEW m \in 1 .. R, NEW n \in 1 .. R, left[m] = left[n] PROVE m = n
    <3>2. left[m] \in Int /\ left[n] \in Int /\ m \in Int /\ n \in Int
      BY <1>11
    <3> QED
      BY <1>11, <2>1, <3>2
  <2> QED
    BY <2>1
<1>15. /\ Len(again) = H /\ DOMAIN again = 1 .. H
       /\ \A n \in 1 .. H : again[n] = EntryOf(hits[n])
  <2>1. DOMAIN hits = 1 .. H
    BY <1>6, IsRowLength
  <2>2. again = [n \in 1 .. H |-> [key |-> hits[n], row |-> CachedRow(kept, hits[n])]]
    BY <2>1
  <2>3. \A n \in 1 .. H : CachedRow(kept, hits[n]) = RowOf(hits[n])
    BY <1>1, <1>9, CachedRowIs
  <2>4. again = [n \in 1 .. H |-> EntryOf(hits[n])]
    BY <2>2, <2>3 DEF EntryOf
  <2> HIDE DEF again
  <2> QED
    BY <1>6, <2>4
<1>16. \A n \in 1 .. H : hits[n] \in AllKeys
  BY <1>1, <1>9, CachedRowIs
<1>17. again \in Seq(AllEntries)
  <2>1. \A n \in 1 .. H : EntryOf(hits[n]) \in AllEntries
    BY <1>16 DEF AllEntries
  <2>2. again = [n \in 1 .. H |-> again[n]]
    BY <1>15
  <2> HIDE DEF again
  <2>3. again \in [1 .. H -> AllEntries]
    BY <1>15, <2>1, <2>2
  <2> QED
    BY <1>6, <2>3
<1> HIDE DEF again
<1>18. rest \in Seq(AllEntries)
  <2>1. \A n \in 1 .. R : rest[n] \in AllEntries
    BY <1>4, <1>11
  <2>2. rest \in [1 .. R -> AllEntries]
    BY <1>8, <2>1 DEF IsRow
  <2> QED
    BY <1>8, <2>2
<1>19. /\ moved \in Seq(AllEntries) /\ Len(moved) = R + H
       /\ \A i \in 1 .. R + H : moved[i] = IF i <= R THEN rest[i] ELSE again[i - R]
  BY <1>15, <1>17, <1>18, ConcatProperties
<1> HIDE DEF moved
<1>20. ASSUME NEW i \in 1 .. R + H
       PROVE  \/ i \in 1 .. R /\ moved[i] = rest[i]
              \/ i - R \in 1 .. H /\ ~(i \in 1 .. R) /\ moved[i] = EntryOf(hits[i - R])
  <2>1. R \in Nat /\ H \in Nat
    BY <1>6, <1>8
  <2>2. CASE i <= R
    BY <1>19, <2>1, <2>2
  <2>3. CASE i > R
    <3>1. i - R \in 1 .. H /\ ~(i <= R)
      BY <2>1, <2>3
    <3>2. moved[i] = again[i - R]
      BY <1>19, <3>1
    <3> QED
      BY <1>15, <3>1, <3>2
  <2> QED
    BY <2>1, <2>2, <2>3
<1>21. \A n \in 1 .. H : hits[n] \in Range(keys) /\ EntryOf(hits[n]).key = hits[n]
  BY <1>9 DEF Range, EntryOf
<1>22. ASSUME NEW i \in 1 .. R + H, NEW j \in 1 .. R + H, moved[i].key = moved[j].key
       PROVE  i = j
  <2>0. i \in Int /\ j \in Int /\ R \in Nat
    BY <1>8
  <2>1. CASE i \in 1 .. R /\ j \in 1 .. R
    <3>1. moved[i] = kept[left[i]] /\ moved[j] = kept[left[j]]
      BY <1>11, <1>20, <2>1
    <3>2. left[i] = left[j]
      BY <1>1, <1>11, <1>22, <2>1, <3>1 DEF SoundCache
    <3> QED
      BY <1>14, <2>1, <3>2
  <2>2. CASE i \in 1 .. R /\ ~(j \in 1 .. R)
    BY <1>11, <1>20, <1>21, <1>22, <2>2
  <2>3. CASE ~(i \in 1 .. R) /\ j \in 1 .. R
    BY <1>11, <1>20, <1>21, <1>22, <2>3
  <2>4. CASE ~(i \in 1 .. R) /\ ~(j \in 1 .. R)
    <3>1. /\ i - R \in 1 .. H /\ moved[i].key = hits[i - R]
          /\ j - R \in 1 .. H /\ moved[j].key = hits[j - R]
      BY <1>20, <1>21, <2>4
    <3>2. i - R = j - R
      BY <1>12, <1>22, <3>1
    <3> QED
      BY <2>0, <3>2
  <2> QED
    BY <2>1, <2>2, <2>3, <2>4
<1>23. SoundCache(moved)
  BY <1>19, <1>22 DEF SoundCache
<1>24. \A i \in 1 .. R + H : \E j \in 1 .. Len(kept) : moved[i] = kept[j]
  <2> TAKE i \in 1 .. R + H
  <2>1. CASE i \in 1 .. R
    BY <1>11, <1>20, <2>1
  <2>2. CASE ~(i \in 1 .. R)
    <3>1. i - R \in 1 .. H /\ moved[i] = EntryOf(hits[i - R])
      BY <1>20, <2>2
    <3>2. hits[i - R] \in Cached(kept)
      BY <1>9, <3>1
    <3>3. PICK j \in 1 .. Len(kept) : kept[j].key = hits[i - R]
      BY <1>4, <3>2 DEF Cached
    <3>4. kept[j] = EntryOf(kept[j].key)
      BY <1>4, EntryIs
    <3> QED
      BY <3>1, <3>3, <3>4
  <2> QED
    BY <2>1, <2>2
<1>25. Total(moved) <= memory
  <2> DEFINE from == [i \in 1 .. R + H |-> CHOOSE j \in 1 .. Len(kept) : moved[i] = kept[j]]
  <2>1. \A i \in 1 .. R + H : from[i] \in 1 .. Len(kept) /\ moved[i] = kept[from[i]]
    BY <1>24
  <2>2. from \in [1 .. Len(moved) -> 1 .. Len(kept)]
    BY <1>19, <2>1
  <2> HIDE DEF from
  <2>3. \A i, j \in 1 .. Len(moved) : from[i] = from[j] => i = j
    BY <1>19, <1>22, <2>1
  <2>4. \A i \in 1 .. Len(moved) : moved[i] = kept[from[i]]
    BY <1>19, <2>1
  <2>5. Total(moved) <= Total(kept)
    BY <1>4, <1>19, <2>2, <2>3, <2>4, TotalInjected
  <2>6. Total(moved) \in Nat /\ Total(kept) \in Nat
    BY <1>4, <1>19, TotalIs
  <2> QED
    BY <1>1, <2>5, <2>6
<1>26. Cached(moved) \subseteq Cached(kept)
  <2>1. DOMAIN moved = 1 .. R + H
    BY <1>19
  <2> QED
    BY <1>4, <1>24, <2>1 DEF Cached
<1>27. /\ DOMAIN misses = 1 .. M
       /\ \A i \in 1 .. M : misses[i] \in AllKeys /\ misses[i] \notin Cached(moved)
  <2>1. DOMAIN misses = 1 .. M
    BY <1>7, IsRowLength
  <2> QED
    BY <1>10, <1>26, <2>1
<1>28. /\ SoundCache(AddedAll(moved, misses, memory))
       /\ Total(AddedAll(moved, misses, memory)) <= memory
  BY <1>7, <1>13, <1>23, <1>25, <1>27, AddedAllIs
<1> QED
  BY <1>2, <1>3, <1>28 DEF moved, again

-----------------------------------------------------------------------------
(* The invariant *)

Statuses    == {"new", "success", "failed", "exhausted"}
BlockFields == {"status", "point", "seed", "rows", "extended", "seen", "ran_out", "own", "clone"}

(* The trials that are asked for: points of the design, and as many seeds   *)
(* for each.                                                                *)
RequestOK ==
  /\ request.memory \in Nat
  /\ phase # "idle" =>
       /\ Len(request.positions) \in Nat \ {0}
       /\ IsRow(request.positions, Len(request.positions))
       /\ Count \in Nat \ {0}
       /\ \A i \in 1 .. Len(request.positions) :
            /\ request.positions[i].point \in DOMAIN design
            /\ request.positions[i].seeds \in [1 .. Count -> Nat]

(* The points of a group have one option.                                   *)
GroupsOK ==
  phase # "idle" =>
    /\ Len(groups) \in Nat \ {0} /\ DOMAIN groups = 1 .. Len(groups)
    /\ \A g \in 1 .. Len(groups) :
         /\ groups[g] \in Seq(1 .. Len(request.positions)) /\ Len(groups[g]) # 0
         /\ \A l \in 1 .. Len(groups[g]) : Point(groups[g][l]).option = Point(groups[g][1]).option
    /\ group \in 1 .. Len(groups) /\ start \in 0 .. Count - 1

(* Every row that a trial of the group takes is planned, and a chunk is as  *)
(* large as the memory allows for these.                                    *)
RowAt(l, f)     == RowKey(Point(Group[l]), f, 0, BaseLength(Point(Group[l]), f))
Generates(l, f) == Generated(SourceOf(Point(Group[l]), f))
AllPlanned(q) ==
  /\ q \in Seq(AllKeys) /\ DOMAIN q = 1 .. Len(q)
  /\ \A l \in DOMAIN Group, f \in PartsOf[Home] :
       Generates(l, f) => \E n \in 1 .. Len(q) : q[n] = RowAt(l, f)
PlanOK ==
  phase \in {"bind", "native", "extend"} =>
    AllPlanned(row_groups) /\ size * PerReplication(row_groups) <= request.memory

(* A block runs its point and seed on rows of theirs, which are at least as *)
(* long as they were planned, and just as long until a trial is extended.   *)
Allowed(p, f, n) ==
  /\ SourceOf(p, f).max = NoMax \/ n <= SourceOf(p, f).max
  /\ SourceOf(p, f).stable \/ n = BaseLength(p, f)
HasRows(b, rows) ==
  /\ DOMAIN rows = PartsOf[b.point.option]
  /\ \A f \in DOMAIN rows : Generated(SourceOf(b.point, f)) =>
       /\ Len(rows[f]) \in Nat /\ BaseLength(b.point, f) <= Len(rows[f])
       /\ rows[f] = RowOf(RowKey(b.point, f, b.seed, Len(rows[f])))
       /\ Allowed(b.point, f, Len(rows[f]))
HasCounts(b, counts) == counts \in [PartsOf[b.point.option] -> 0 .. Doublings]
Sound(b) ==
  /\ DOMAIN b = BlockFields /\ b.status \in Statuses
  /\ HasRows(b, b.rows) /\ HasCounts(b, b.extended)
  /\ b.ran_out \in ReadsOf(b.point) /\ (b.status = "exhausted" => b.ran_out.field # None)
BlockOK(t, b) == b.point = Point(Group[t[1]]) /\ b.seed = SeedAt(t[1], t[2]) /\ Sound(b)
AsPlanned(b) ==
  \A f \in DOMAIN b.rows : Generated(SourceOf(b.point, f)) =>
    Len(b.rows[f]) = BaseLength(b.point, f)
BlocksOK ==
  phase \in {"native", "extend"} =>
    /\ DOMAIN blocks = (DOMAIN Group) \X ChunkReps
    /\ \A t \in DOMAIN blocks : BlockOK(t, blocks[t]) /\ (phase = "native" => AsPlanned(blocks[t]))

(* The caches are sound, and that of the group fits the memory once its rows*)
(* were fetched.                                                            *)
CachesOK ==
  /\ DOMAIN cache = DOMAIN PartsOf /\ \A o \in DOMAIN PartsOf : SoundCache(cache[o])
  /\ phase \in {"native", "extend"} /\ row_groups # <<>> => Total(cache[Home]) <= request.memory

StateOK ==
  /\ design \in Designs /\ seeding \in Seedings /\ phase \in Phases /\ calls \in 0 .. MaxCalls
  /\ results \in {"none", "refused", "raised", "done"} /\ size \in Nat \ {0}

ExperimentInv == StateOK /\ RequestOK /\ GroupsOK /\ PlanOK /\ BlocksOK /\ CachesOK

(* A point of the design and its fields.                                    *)
LEMMA PointIs ==
  ASSUME StateOK, NEW i \in DOMAIN design
  PROVE  IsPoint(design[i])
  BY DesignAssumption DEF StateOK

LEMMA SourceIs ==
  ASSUME NEW p, IsPoint(p), NEW f \in PartsOf[p.option]
  PROVE  /\ p.bind[f] \in DOMAIN Sources /\ Built(SourceOf(p, f))
         /\ TagOf(p, f) \in Tags /\ f \in Range(Fields) /\ f # None
         /\ Generated(SourceOf(p, f)) =>
              BaseLength(p, f) \in Nat /\ Allowed(p, f, BaseLength(p, f))
<1>1. p.bind[f] \in DOMAIN Sources /\ Built(SourceOf(p, f))
  BY SourceAssumption DEF IsPoint, SourceOf
<1>2. f \in Range(Fields) /\ f # None
  BY FieldAssumption DEF IsPoint
<1>3. TagOf(p, f) \in Tags
  BY <1>1, <1>2 DEF TagOf, Tags, SourceOf
<1>4. ASSUME Generated(SourceOf(p, f))
      PROVE  BaseLength(p, f) \in Nat /\ Allowed(p, f, BaseLength(p, f))
  <2>1. /\ SourceOf(p, f).hint \in Nat /\ Required \in Nat
        /\ SourceOf(p, f).max = NoMax \/ SourceOf(p, f).max \in Nat
    BY <1>1, <1>4, FieldAssumption DEF Built, Generated
  <2> QED
    BY <2>1 DEF BaseLength, MaxOf, MinOf, Allowed
<1> QED
  BY <1>1, <1>2, <1>3, <1>4

LEMMA RowKeyIs ==
  ASSUME NEW p, IsPoint(p), NEW f \in PartsOf[p.option], Generated(SourceOf(p, f)),
         NEW seed \in Nat, NEW length \in Nat
  PROVE  /\ RowKey(p, f, seed, length) \in AllKeys
         /\ RowKey(p, f, seed, length).length = length
         /\ RowOf(RowKey(p, f, seed, length)) = Row(SourceOf(p, f), <<seed, TagOf(p, f)>>, length)
  BY SourceIs DEF RowKey, AllKeys, RowOf, SourceOf

(* A trial of the group: its point, its seed and its fields.                *)
LEMMA GroupIs ==
  ASSUME StateOK, RequestOK, GroupsOK, phase # "idle"
  PROVE  /\ Group \in Seq(1 .. Len(request.positions)) /\ Len(Group) \in Nat \ {0}
         /\ DOMAIN Group = 1 .. Len(Group) /\ Home \in DOMAIN PartsOf
         /\ ChunkReps \in SUBSET (1 .. Count) /\ IsFiniteSet(ChunkReps)
         /\ \A l \in DOMAIN Group : /\ Point(Group[l]).option = Home /\ IsPoint(Point(Group[l]))
                                    /\ request.positions[Group[l]].seeds \in [1 .. Count -> Nat]
<1>1. group \in 1 .. Len(groups) /\ start \in Nat /\ Count \in Nat /\ size \in Nat
  BY DEF GroupsOK, RequestOK, StateOK
<1>2. /\ Group \in Seq(1 .. Len(request.positions)) /\ Len(Group) # 0
      /\ \A l \in 1 .. Len(Group) : Point(Group[l]).option = Point(Group[1]).option
  BY <1>1 DEF GroupsOK, Group
<1>3. Len(Group) \in Nat \ {0} /\ DOMAIN Group = 1 .. Len(Group)
  BY <1>2
<1>4. \A l \in DOMAIN Group : Group[l] \in 1 .. Len(request.positions)
  BY <1>2, <1>3
<1>5. ASSUME NEW l \in DOMAIN Group
      PROVE  /\ Point(Group[l]).option = Home /\ IsPoint(Point(Group[l]))
             /\ request.positions[Group[l]].seeds \in [1 .. Count -> Nat]
  <2>1. /\ request.positions[Group[l]].point \in DOMAIN design
        /\ request.positions[Group[l]].seeds \in [1 .. Count -> Nat]
    BY <1>4 DEF RequestOK
  <2>2. IsPoint(Point(Group[l]))
    BY <2>1, PointIs DEF Point
  <2> QED
    BY <1>2, <1>3, <2>1, <2>2 DEF Home
<1>6. Home \in DOMAIN PartsOf
  BY <1>3, <1>5 DEF IsPoint
<1>7. ChunkReps \in SUBSET (1 .. Count)
  BY <1>1 DEF ChunkReps, MinOf
<1>8. IsFiniteSet(ChunkReps)
  <2>1. IsFiniteSet(1 .. Count)
    BY <1>1, FS_Interval
  <2> QED
    BY <1>7, <2>1, FS_Subset
<1> QED
  BY <1>2, <1>3, <1>5, <1>6, <1>7, <1>8

LEMMA TrialIs ==
  ASSUME StateOK, RequestOK, GroupsOK, phase # "idle", NEW t \in (DOMAIN Group) \X ChunkReps
  PROVE  IsPoint(Point(Group[t[1]])) /\ Point(Group[t[1]]).option = Home /\ SeedAt(t[1], t[2]) \in Nat
<1>1. t[1] \in DOMAIN Group /\ t[2] \in ChunkReps
  OBVIOUS
<1>2. t[2] \in 1 .. Count
  BY <1>1, GroupIs
<1>3. /\ Point(Group[t[1]]).option = Home /\ IsPoint(Point(Group[t[1]]))
      /\ request.positions[Group[t[1]]].seeds \in [1 .. Count -> Nat]
  BY <1>1, GroupIs
<1> QED
  BY <1>2, <1>3 DEF SeedAt

-----------------------------------------------------------------------------
(* What the invariant says of rows *)

LEMMA PrefixFollows ==
  ASSUME RawAreNatural, CachesOK
  PROVE  PrefixStable
<1> SUFFICES ASSUME NEW o \in DOMAIN cache, NEW i \in DOMAIN cache[o], NEW j \in DOMAIN cache[o],
                    cache[o][i].key.length < cache[o][j].key.length,
                    cache[o][i].key.source = cache[o][j].key.source,
                    cache[o][i].key.seed = cache[o][j].key.seed,
                    cache[o][i].key.tag = cache[o][j].key.tag,
                    Sources[cache[o][i].key.source].stable
             PROVE  IsPrefix(cache[o][i].row, cache[o][j].row)
  BY DEF PrefixStable
<1> DEFINE d == cache[o][i]
           e == cache[o][j]
           s == Sources[d.key.source]
           g == <<d.key.seed, d.key.tag>>
           n == d.key.length
           m == e.key.length
<1>1. d \in AllEntries /\ e \in AllEntries
  BY DEF CachesOK, SoundCache
<1>2. /\ d.key \in AllKeys /\ e.key \in AllKeys
      /\ d.row = RowOf(d.key) /\ e.row = RowOf(e.key)
  BY <1>1, EntryIs
<1>3. d.row = Row(s, g, n) /\ e.row = Row(s, g, m)
  BY <1>2 DEF RowOf
<1>4. n \in Nat /\ m \in Nat /\ n < m /\ Generated(s) /\ Built(s) /\ s.stable
  BY <1>2, SourceAssumption DEF AllKeys
<1>5. IsRow(d.row, n) /\ IsRow(e.row, m)
  BY <1>2, RowOfIs
<1> HIDE DEF d, e, s, g, n, m
<1>6. BeginsWith(s, g, n, m)
  <2>1. n \in 0 .. m
    BY <1>4
  <2> QED
    BY <1>4, <2>1, RowIs
<1>7. /\ Len(d.row) = n /\ Len(e.row) = m
      /\ d.row \in Seq({d.row[k] : k \in 1 .. n}) /\ e.row \in Seq({e.row[k] : k \in 1 .. m})
  BY <1>4, <1>5, IsRowLength
<1>8. \A k \in 1 .. n : d.row[k] = e.row[k]
  BY <1>3, <1>6 DEF BeginsWith
<1>9. SubSeq(d.row, 1, n) = SubSeq(e.row, 1, n)
  <2>1. SubSeq(d.row, 1, n) = [k \in 1 .. n |-> d.row[k]]
    BY <1>4, <1>7
  <2>2. SubSeq(e.row, 1, n) = [k \in 1 .. n |-> e.row[k]]
    BY <1>4, <1>7
  <2> QED
    BY <1>8, <2>1, <2>2
<1>10. IsPrefix(d.row, e.row)
  BY <1>4, <1>7, <1>9 DEF IsPrefix
<1> QED
  BY <1>10 DEF d, e

LEMMA JointFollows ==
  ASSUME RawAreNatural, ExperimentInv
  PROVE  JointAligned
<1> SUFFICES ASSUME phase \in {"native", "extend"}, NEW t \in DOMAIN blocks,
                    NEW f \in DOMAIN blocks[t].rows, NEW g \in DOMAIN blocks[t].rows,
                    Generated(SourceOf(blocks[t].point, f)), SourceOf(blocks[t].point, f).tag # None,
                    Generated(SourceOf(blocks[t].point, g)), SourceOf(blocks[t].point, g).tag # None,
                    SourceOf(blocks[t].point, f).tag = SourceOf(blocks[t].point, g).tag,
                    NEW i \in DOMAIN blocks[t].rows[f] \cap DOMAIN blocks[t].rows[g]
             PROVE  \E j \in DOMAIN SourceOf(blocks[t].point, f).data :
                      /\ blocks[t].rows[f][i] = SourceOf(blocks[t].point, f).data[j]
                      /\ blocks[t].rows[g][i] = SourceOf(blocks[t].point, g).data[j]
  BY DEF JointAligned
<1> DEFINE b == blocks[t]
           p == b.point
           s == SourceOf(p, f)
           u == SourceOf(p, g)
           n == Len(b.rows[f])
           m == Len(b.rows[g])
<1>1. BlockOK(t, b) /\ t \in (DOMAIN Group) \X ChunkReps
  BY DEF ExperimentInv, BlocksOK
<1>2. /\ n \in Nat /\ b.rows[f] = RowOf(RowKey(p, f, b.seed, n)) /\ f \in PartsOf[p.option]
      /\ m \in Nat /\ b.rows[g] = RowOf(RowKey(p, g, b.seed, m)) /\ g \in PartsOf[p.option]
  BY <1>1 DEF BlockOK, Sound, HasRows
<1>3. IsPoint(p) /\ b.seed \in Nat
  BY <1>1, TrialIs DEF BlockOK, ExperimentInv
<1>4. /\ RowOf(RowKey(p, f, b.seed, n)) = Row(s, <<b.seed, TagOf(p, f)>>, n)
      /\ RowOf(RowKey(p, g, b.seed, m)) = Row(u, <<b.seed, TagOf(p, g)>>, m)
      /\ RowKey(p, f, b.seed, n) \in AllKeys /\ RowKey(p, g, b.seed, m) \in AllKeys
      /\ RowKey(p, f, b.seed, n).length = n /\ RowKey(p, g, b.seed, m).length = m
  BY <1>2, <1>3, RowKeyIs
<1>5. TagOf(p, f) = TagOf(p, g)
  BY DEF TagOf
<1>6. /\ Built(s) /\ Built(u) /\ s.kind = "stationary" /\ u.kind = "stationary"
      /\ s.mean_block = u.mean_block /\ Len(s.data) = Len(u.data)
  <2>1. p.bind[f] \in DOMAIN Sources /\ p.bind[g] \in DOMAIN Sources /\ Built(s) /\ Built(u)
    BY <1>2, <1>3, SourceIs
  <2> QED
    BY <2>1, JointAssumption DEF SourceOf, Generated
<1>7. i \in 1 .. n /\ i \in 1 .. m
  <2>1. IsRow(b.rows[f], n) /\ IsRow(b.rows[g], m)
    BY <1>2, <1>4, RowOfIs
  <2>2. DOMAIN b.rows[f] = 1 .. n /\ DOMAIN b.rows[g] = 1 .. m
    BY <1>2, <2>1, IsRowLength
  <2> QED
    BY <2>2
<1> HIDE DEF s, u, n, m, p
<1>8. n \in Nat /\ m \in Nat
  BY <1>2
<1>9. DrawnTogether(s, u, <<b.seed, TagOf(p, f)>>, n, m, i)
  BY <1>6, <1>7, <1>8, JointRows
<1>10. \E j \in DOMAIN s.data : /\ Row(s, <<b.seed, TagOf(p, f)>>, n)[i] = s.data[j]
                                /\ Row(u, <<b.seed, TagOf(p, f)>>, m)[i] = u.data[j]
  BY <1>9 DEF DrawnTogether
<1> QED
  BY <1>2, <1>4, <1>5, <1>10 DEF s, u, p

-----------------------------------------------------------------------------
(* What a trial leaves as it was *)

Kept(b, d) ==
  /\ DOMAIN d = BlockFields /\ d.status \in Statuses
  /\ d.point = b.point /\ d.seed = b.seed /\ d.rows = b.rows /\ d.extended = b.extended
  /\ d.ran_out \in ReadsOf(b.point) /\ (d.status = "exhausted" => d.ran_out.field # None)

(* A read ends a trial or does not, with a value that none is given.        *)
LEMMA SlotReadIs ==
  ASSUME NEW p, IsPoint(p), NEW read \in ReadsOf(p), ~IsFault(read), NEW seed, NEW rows, NEW k
  PROVE  SlotRead(p, seed, rows, k, read).end \in {None, "failed", "success", "exhausted"}
<1>1. read.field \in PartsOf[p.option]
  BY DEF ReadsOf, IsFault
<1>2. Built(SourceOf(p, read.field))
  BY <1>1, SourceIs
<1>3. ASSUME NEW row, NEW policy \in Policies
      PROVE  Taken(k, row, policy).end \in {None, "failed", "success", "exhausted"}
  <2>1. CASE row = <<>>
    BY <2>1 DEF Taken
  <2>2. CASE row # <<>> /\ k <= Len(row)
    BY <2>2 DEF Taken
  <2>3. CASE row # <<>> /\ ~(k <= Len(row))
    BY <2>3 DEF Taken, Policies
  <2> QED
    BY <2>1, <2>2, <2>3
<1>4. SourceOf(p, read.field).policy \in Policies
  BY <1>2 DEF Built
<1> DEFINE s == SourceOf(p, read.field)
<1>5. CASE s.kind = "empty"
  BY <1>5 DEF SlotRead
<1>6. CASE s.kind = "distribution"
  BY <1>6 DEF SlotRead
<1>7. CASE s.kind # "empty" /\ s.kind # "distribution"
  <2>1. SlotRead(p, seed, rows, k, read) = Taken(k, rows[read.field], s.policy)
    BY <1>7 DEF SlotRead
  <2> QED
    BY <1>3, <1>4, <2>1
<1> QED
  BY <1>5, <1>6, <1>7

LEMMA StepKeeps ==
  ASSUME NEW b, NEW d, Kept(b, d), IsPoint(b.point), NEW read \in ReadsOf(b.point)
  PROVE  Kept(b, Step(d, read))
<1>1. CASE d.status # "new"
  BY <1>1 DEF Step
<1>2. CASE d.status = "new" /\ IsFault(read)
  <2>1. Step(d, read) = [d EXCEPT !.status = "failed"]
    BY <1>2 DEF Step
  <2> QED
    BY <2>1 DEF Kept, BlockFields, Statuses
<1>3. CASE d.status = "new" /\ ~IsFault(read)
  <2> DEFINE cursors == IF read.clone THEN d.clone ELSE d.own
             k       == IF read.bucket < 0 THEN cursors[read.field] + 1 ELSE read.bucket + 1
             taken   == SlotRead(d.point, d.seed, d.rows, k, read)
             moved   == [cursors EXCEPT ![read.field] = MaxOf(@, k)]
  <2>1. Step(d, read) =
          IF taken.end # None
          THEN [d EXCEPT !.status = taken.end,
                  !.ran_out = IF taken.end = "exhausted" THEN read ELSE NoRead]
          ELSE [d EXCEPT !.seen = Append(@, <<read, taken.value>>),
                  !.own = IF read.clone THEN @ ELSE moved,
                  !.clone = IF read.clone THEN moved ELSE @]
    BY <1>3 DEF Step
  <2>2. taken.end \in {None, "failed", "success", "exhausted"}
    BY <1>3, SlotReadIs DEF Kept
  <2>3. NoRead \in ReadsOf(b.point) /\ read.field # None
    BY <1>3 DEF NoRead, ReadsOf, IsFault
  <2> HIDE DEF taken, moved
  <2>4. CASE taken.end = None
    BY <2>1, <2>4 DEF Kept, BlockFields
  <2>5. CASE taken.end # None
    <3> DEFINE last == IF taken.end = "exhausted" THEN read ELSE NoRead
               e    == [d EXCEPT !.status = taken.end, !.ran_out = last]
    <3>1. Step(d, read) = e
      BY <2>1, <2>5
    <3>2. /\ DOMAIN e = BlockFields /\ e.status = taken.end /\ e.ran_out = last
          /\ e.point = d.point /\ e.seed = d.seed /\ e.rows = d.rows /\ e.extended = d.extended
      BY DEF Kept, BlockFields
    <3>3. last \in ReadsOf(b.point) /\ (taken.end = "exhausted" => last.field # None)
      BY <2>3
    <3> HIDE DEF e, last
    <3>4. taken.end \in Statuses
      BY <2>2, <2>5 DEF Statuses
    <3> QED
      BY <3>1, <3>2, <3>3, <3>4 DEF Kept
  <2> QED
    BY <2>4, <2>5
<1> QED
  BY <1>1, <1>2, <1>3

LEMMA PlayedIs ==
  ASSUME NEW b, Kept(b, b), IsPoint(b.point)
  PROVE  Kept(b, Played(b))
<1> DEFINE N == Len(b.point.reads)
           reads == b.point.reads
<1>1. N \in Nat /\ DOMAIN reads = 1 .. N /\ \A k \in 1 .. N : reads[k] \in ReadsOf(b.point)
  BY LenProperties DEF IsPoint
<1>2. PICK f : SteppedSteps(f, b, reads, N)
  BY <1>1, SteppedFold
<1> DEFINE T == {n \in 0 .. N : Kept(b, f[n])}
<1>3. 0 \in T
  BY <1>1, <1>2 DEF SteppedSteps
<1>4. ASSUME NEW n \in 0 .. N - 1, n \in T PROVE n + 1 \in T
  <2>1. n + 1 \in 1 .. N /\ n + 1 \in 0 .. N /\ (n + 1) - 1 = n
    BY <1>1
  <2>2. f[n + 1] = Step(f[n], reads[n + 1])
    BY <1>2, <2>1 DEF SteppedSteps
  <2>3. Kept(b, f[n + 1])
    BY <1>1, <1>4, <2>1, <2>2, StepKeeps
  <2> QED
    BY <2>1, <2>3
<1>5. N \in T
  <2> HIDE DEF T
  <2>1. 0 .. N \subseteq T
    BY <1>1, <1>3, <1>4, CountsUp
  <2> QED
    BY <1>1, <2>1
<1>6. Kept(b, Stepped(b, reads))
  BY <1>2, <1>5 DEF SteppedSteps
<1> DEFINE end == Stepped(b, reads)
<1>7. Played(b) = IF end.status = "new" THEN [end EXCEPT !.status = "success"] ELSE end
  BY DEF Played
<1> HIDE DEF end
<1>8. Kept(b, end)
  BY <1>6 DEF end
<1>9. CASE end.status = "new"
  <2>1. Played(b) = [end EXCEPT !.status = "success"]
    BY <1>7, <1>9
  <2> QED
    BY <1>8, <2>1 DEF Kept, BlockFields, Statuses
<1> QED
  BY <1>7, <1>8, <1>9

-----------------------------------------------------------------------------
(* The keys of the rows that a chunk takes *)

Takes(k, l) ==
  \E f \in PartsOf[Home] : /\ Generated(SourceOf(Point(Group[l]), f))
                           /\ RowKey(Point(Group[l]), f, 0, BaseLength(Point(Group[l]), f)) = k
Takers(k)      == {l \in DOMAIN Group : Takes(k, l)} \X ChunkReps
TakingSeeds(k) == {SeedAt(t[1], t[2]) : t \in Takers(k)}
KeysFor(k)     == {[k EXCEPT !.seed = s] : s \in TakingSeeds(k)}
Width          == IF IsCommon THEN 1 ELSE Len(Group)

(* No more seeds than a chunk has, for one position or for each of them.    *)
SeedsFit(k) ==
  /\ TakingSeeds(k) \in SUBSET Nat /\ IsFiniteSet(TakingSeeds(k))
  /\ Cardinality(TakingSeeds(k)) \in Nat /\ Cardinality(TakingSeeds(k)) <= size * Width
LEMMA TakingSeedsAre ==
  ASSUME StateOK, RequestOK, GroupsOK, phase # "idle", NEW k
  PROVE  SeedsFit(k) /\ Width \in Nat
<1>1. /\ Len(Group) \in Nat \ {0} /\ DOMAIN Group = 1 .. Len(Group)
      /\ ChunkReps \in SUBSET (1 .. Count) /\ IsFiniteSet(ChunkReps)
  BY GroupIs
<1>2. start \in Nat /\ Count \in Nat /\ size \in Nat
  BY DEF GroupsOK, RequestOK, StateOK
<1>3. Cardinality(ChunkReps) \in Nat /\ Cardinality(ChunkReps) <= size
  <2> DEFINE last == MinOf(start + size, Count)
  <2>1. last \in Nat /\ last <= start + size
    BY <1>2 DEF MinOf
  <2> HIDE DEF last
  <2>2. Cardinality(start + 1 .. last) = IF start + 1 > last THEN 0 ELSE last - (start + 1) + 1
    BY <1>2, <2>1, FS_Interval
  <2>3. Cardinality(start + 1 .. last) \in Nat /\ Cardinality(start + 1 .. last) <= size
    BY <1>2, <2>1, <2>2
  <2> QED
    BY <2>3 DEF ChunkReps, last
<1>4. Takers(k) \subseteq (DOMAIN Group) \X ChunkReps
  BY DEF Takers
<1>5. TakingSeeds(k) \in SUBSET Nat
  BY <1>4, TrialIs DEF TakingSeeds
<1>6. Width \in Nat
  BY <1>1 DEF Width
<1>7. CASE IsCommon
  <2> DEFINE f == [r \in ChunkReps |-> SeedAt(1, r)]
  <2>1. ASSUME NEW y \in TakingSeeds(k) PROVE \E r \in ChunkReps : f[r] = y
    <3>1. PICK t \in Takers(k) : y = SeedAt(t[1], t[2])
      BY DEF TakingSeeds
    <3>2. t[1] \in DOMAIN Group /\ t[2] \in ChunkReps
      BY <1>4, <3>1
    <3>3. SeedAt(t[1], t[2]) = SeedAt(1, t[2])
      BY <1>7, <3>2 DEF IsCommon, SeedAt
    <3> QED
      BY <3>1, <3>2, <3>3
  <2> HIDE DEF f
  <2>2. /\ IsFiniteSet(TakingSeeds(k)) /\ Cardinality(TakingSeeds(k)) \in Nat
        /\ Cardinality(TakingSeeds(k)) <= Cardinality(ChunkReps)
    BY <1>1, <2>1, CoveredBy
  <2>3. Width = 1
    BY <1>7 DEF Width
  <2> QED
    BY <1>2, <1>3, <1>5, <2>2, <2>3 DEF SeedsFit
<1>8. CASE ~IsCommon
  <2> DEFINE f == [t \in (DOMAIN Group) \X ChunkReps |-> SeedAt(t[1], t[2])]
  <2>1. ASSUME NEW y \in TakingSeeds(k) PROVE \E t \in (DOMAIN Group) \X ChunkReps : f[t] = y
    BY <1>4 DEF TakingSeeds
  <2>2. /\ IsFiniteSet(DOMAIN Group) /\ Cardinality(DOMAIN Group) = Len(Group)
    BY <1>1, FS_Interval
  <2>3. /\ IsFiniteSet((DOMAIN Group) \X ChunkReps)
        /\ Cardinality((DOMAIN Group) \X ChunkReps) = Len(Group) * Cardinality(ChunkReps)
    BY <1>1, <2>2, FS_Product
  <2> HIDE DEF f
  <2>4. /\ IsFiniteSet(TakingSeeds(k)) /\ Cardinality(TakingSeeds(k)) \in Nat
        /\ Cardinality(TakingSeeds(k)) <= Cardinality((DOMAIN Group) \X ChunkReps)
    BY <2>1, <2>3, CoveredBy
  <2>5. \A a, b, c \in Nat : b <= c => a * b <= c * a /\ a * b \in Nat
    OBVIOUS
  <2>6. Len(Group) * Cardinality(ChunkReps) <= size * Len(Group)
    BY <1>1, <1>2, <1>3, <2>5
  <2>7. Width = Len(Group)
    BY <1>8 DEF Width
  <2>8. Len(Group) * Cardinality(ChunkReps) \in Nat /\ size * Len(Group) \in Nat
    BY <1>1, <1>2, <1>3
  <2>9. Cardinality(TakingSeeds(k)) <= size * Width
    BY <2>3, <2>4, <2>6, <2>7, <2>8
  <2> QED
    BY <1>2, <1>5, <1>6, <2>4, <2>9 DEF SeedsFit
<1> QED
  BY <1>6, <1>7, <1>8

(* The keys of a chunk: one for each seed.                                  *)
KeysAre(k) ==
  /\ DOMAIN ChunkKeys(k) = 1 .. Cardinality(TakingSeeds(k))
  /\ \A n \in 1 .. Cardinality(TakingSeeds(k)) : ChunkKeys(k)[n] \in AllKeys
  /\ \A m, n \in 1 .. Cardinality(TakingSeeds(k)) : ChunkKeys(k)[m] = ChunkKeys(k)[n] => m = n
  /\ Range(ChunkKeys(k)) = KeysFor(k)
LEMMA ChunkKeysAre ==
  ASSUME StateOK, RequestOK, GroupsOK, phase # "idle", NEW k \in AllKeys
  PROVE  KeysAre(k)
<1> DEFINE S == TakingSeeds(k)
           N == Cardinality(S)
           seeds == InOrder(S)
<1>1. S \in SUBSET Nat /\ IsFiniteSet(S) /\ N \in Nat
  BY TakingSeedsAre DEF SeedsFit
<1>2. ChunkKeys(k) = [n \in DOMAIN seeds |-> [k EXCEPT !.seed = seeds[n]]]
  BY DEF ChunkKeys, TakingSeeds, Takers, Takes
<1>3. S \in SUBSET Int
  BY <1>1
<1> HIDE DEF S
<1>4. /\ seeds \in [1 .. N -> S]
      /\ \A x \in S : \E n \in 1 .. N : seeds[n] = x
      /\ \A m, n \in 1 .. N : m < n => seeds[m] < seeds[n]
  BY <1>1, <1>3, InOrderIs
<1> HIDE DEF seeds
<1>5. DOMAIN seeds = 1 .. N /\ \A n \in 1 .. N : seeds[n] \in S /\ seeds[n] \in Nat
  BY <1>1, <1>4
<1>6. \A n \in 1 .. N : ChunkKeys(k)[n] = [k EXCEPT !.seed = seeds[n]]
  BY <1>2, <1>5
<1>7. \A x \in Nat : [k EXCEPT !.seed = x] \in AllKeys /\ [k EXCEPT !.seed = x].seed = x
  BY DEF AllKeys
<1>8. \A n \in 1 .. N : ChunkKeys(k)[n] \in AllKeys /\ ChunkKeys(k)[n].seed = seeds[n]
  BY <1>5, <1>6, <1>7
<1>9. \A m, n \in 1 .. N : ChunkKeys(k)[m] = ChunkKeys(k)[n] => m = n
  <2> TAKE m, n \in 1 .. N
  <2>1. ChunkKeys(k)[m] = ChunkKeys(k)[n] => seeds[m] = seeds[n]
    BY <1>8
  <2>2. seeds[m] \in Nat /\ seeds[n] \in Nat
    BY <1>5
  <2>3. m < n \/ n < m \/ m = n
    BY <1>1
  <2> QED
    BY <1>4, <2>1, <2>2, <2>3
<1>10. DOMAIN ChunkKeys(k) = 1 .. N
  BY <1>2, <1>5
<1>11. Range(ChunkKeys(k)) = {[k EXCEPT !.seed = x] : x \in S}
  <2>1. ASSUME NEW y \in Range(ChunkKeys(k)) PROVE y \in {[k EXCEPT !.seed = x] : x \in S}
    BY <1>5, <1>6, <1>10 DEF Range
  <2>2. ASSUME NEW x \in S PROVE [k EXCEPT !.seed = x] \in Range(ChunkKeys(k))
    <3>1. PICK n \in 1 .. N : seeds[n] = x
      BY <1>4
    <3> QED
      BY <1>6, <1>10, <3>1 DEF Range
  <2> QED
    BY <2>1, <2>2
<1> QED
  BY <1>8, <1>9, <1>10, <1>11 DEF KeysAre, KeysFor, S

-----------------------------------------------------------------------------
(* The rows that a chunk is bound to *)

(* What was fetched for the first n row groups.                             *)
FetchedSo(d, n, memory) ==
  /\ SoundCache(d.cache) /\ (n > 0 => Total(d.cache) <= memory)
  /\ \A k \in DOMAIN d.rows : d.rows[k] = RowOf(k)
  /\ \A m \in 1 .. n : KeysFor(row_groups[m]) \subseteq DOMAIN d.rows
LEMMA WithRowsKeeps ==
  ASSUME RawAreNatural, StateOK, RequestOK, GroupsOK, phase # "idle",
         NEW memory \in Nat, NEW n \in Nat, NEW d, FetchedSo(d, n, memory),
         row_groups[n + 1] \in AllKeys
  PROVE  FetchedSo(WithRows(d, row_groups[n + 1], memory), n + 1, memory)
<1> DEFINE k    == row_groups[n + 1]
           keys == ChunkKeys(k)
           N    == Cardinality(TakingSeeds(k))
           got  == Fetched(d.cache, keys, memory)
           e    == WithRows(d, k, memory)
<1>1. /\ DOMAIN keys = 1 .. N /\ \A i \in 1 .. N : keys[i] \in AllKeys
      /\ \A i, j \in 1 .. N : keys[i] = keys[j] => i = j
      /\ Range(keys) = KeysFor(k)
  BY ChunkKeysAre DEF KeysAre
<1>2. N \in Nat
  BY TakingSeedsAre DEF SeedsFit
<1>3. e.cache = got.cache /\ e.rows = Joining(d.rows, got.rows)
  BY DEF WithRows
<1>4. SoundCache(d.cache)
  BY DEF FetchedSo
<1> HIDE DEF keys, N
<1>5. /\ SoundCache(got.cache) /\ Total(got.cache) <= memory
      /\ got.rows = [x \in Range(keys) |-> RowOf(x)]
  BY <1>1, <1>2, <1>4, FetchedIs
<1> HIDE DEF got, e
<1>6. DOMAIN got.rows = KeysFor(k) /\ \A x \in KeysFor(k) : got.rows[x] = RowOf(x)
  BY <1>1, <1>5
<1>7. /\ DOMAIN e.rows = DOMAIN d.rows \cup KeysFor(k)
      /\ \A x \in DOMAIN e.rows : e.rows[x] = IF x \in KeysFor(k) THEN got.rows[x] ELSE d.rows[x]
  BY <1>3, <1>6 DEF Joining
<1>8. \A x \in DOMAIN e.rows : e.rows[x] = RowOf(x)
  BY <1>6, <1>7 DEF FetchedSo
<1>9. \A m \in 1 .. n + 1 : KeysFor(row_groups[m]) \subseteq DOMAIN e.rows
  <2> TAKE m \in 1 .. n + 1
  <2>1. CASE m = n + 1
    BY <1>7, <2>1
  <2>2. CASE m # n + 1
    <3>1. m \in 1 .. n
      BY <2>2
    <3>2. KeysFor(row_groups[m]) \subseteq DOMAIN d.rows
      BY <3>1 DEF FetchedSo
    <3> QED
      BY <1>7, <3>2
  <2> QED
    BY <2>1, <2>2
<1> QED
  BY <1>3, <1>5, <1>8, <1>9 DEF FetchedSo, e

LEMMA BoundIs ==
  ASSUME RawAreNatural, StateOK, RequestOK, GroupsOK, phase # "idle", row_groups \in Seq(AllKeys),
         NEW memory \in Nat, NEW c, SoundCache(c)
  PROVE  FetchedSo(Bound(c, memory), Len(row_groups), memory)
<1> DEFINE N    == Len(row_groups)
           none == [cache |-> c, rows |-> <<>>]
<1>1. N \in Nat /\ DOMAIN row_groups = 1 .. N /\ \A n \in 1 .. N : row_groups[n] \in AllKeys
  OBVIOUS
<1>2. PICK f : WithRowsSteps(f, memory, none, row_groups, N)
  BY <1>1, WithRowsFold
<1> DEFINE T == {n \in 0 .. N : FetchedSo(f[n], n, memory)}
<1>3. 0 \in T
  <2>1. f[0] = none
    BY <1>2 DEF WithRowsSteps
  <2>2. DOMAIN none.rows = {} /\ none.cache = c
    OBVIOUS
  <2>3. FetchedSo(f[0], 0, memory)
    BY <2>1, <2>2 DEF FetchedSo
  <2> QED
    BY <1>1, <2>3
<1>4. ASSUME NEW n \in 0 .. N - 1, n \in T PROVE n + 1 \in T
  <2>1. n + 1 \in 1 .. N /\ n + 1 \in 0 .. N /\ (n + 1) - 1 = n /\ n \in Nat
    BY <1>1
  <2>2. f[n + 1] = WithRows(f[n], row_groups[n + 1], memory)
    BY <1>2, <2>1 DEF WithRowsSteps
  <2>3. row_groups[n + 1] \in AllKeys
    BY <1>1, <2>1
  <2>4. FetchedSo(f[n], n, memory)
    BY <1>4
  <2>5. FetchedSo(f[n + 1], n + 1, memory)
    BY <2>1, <2>2, <2>3, <2>4, WithRowsKeeps
  <2> QED
    BY <2>1, <2>5
<1>5. N \in T
  <2> HIDE DEF T
  <2>1. 0 .. N \subseteq T
    BY <1>1, <1>3, <1>4, CountsUp
  <2> QED
    BY <1>1, <2>1
<1>6. Bound(c, memory) = f[N]
  BY <1>2 DEF Bound, WithRowsSteps
<1> QED
  BY <1>5, <1>6

-----------------------------------------------------------------------------
(* The rows of a group *)

(* What a sequence has, without what occurred before.                       *)
OncePresent(s, N) ==
  /\ Len(Distinct(s)) \in Nat
  /\ Distinct(s) = [n \in 1 .. Len(Distinct(s)) |-> Distinct(s)[n]]
  /\ \A n \in 1 .. Len(Distinct(s)) : \E i \in 1 .. N : Distinct(s)[n] = s[i]
  /\ \A i \in 1 .. N : \E n \in 1 .. Len(Distinct(s)) : Distinct(s)[n] = s[i]
LEMMA DistinctIs ==
  ASSUME NEW s, NEW N \in Nat, DOMAIN s = 1 .. N
  PROVE  OncePresent(s, N)
<1> DEFINE q  == Distinct(s)
           at == InOrder(Firsts(s))
<1>1. Firsts(s) \in SUBSET (1 .. N)
  BY DEF Firsts
<1>2. IsFiniteSet(1 .. N)
  BY FS_Interval
<1>3. Firsts(s) \in SUBSET Int /\ IsFiniteSet(Firsts(s))
  BY <1>1, <1>2, FS_Subset
<1>4. /\ Len(q) \in Nat /\ q = [n \in 1 .. Len(q) |-> q[n]]
      /\ PickedPlaces(Firsts(s), q, s, at)
  BY <1>3, PickedIs DEF Distinct
<1> HIDE DEF q, at
<1>5. \A n \in 1 .. Len(q) : at[n] \in Firsts(s) /\ q[n] = s[at[n]]
  BY <1>4 DEF PickedPlaces
<1>6. ASSUME NEW i \in 1 .. N PROVE \E n \in 1 .. Len(q) : q[n] = s[i]
  <2> DEFINE S == {j \in 1 .. N : s[j] = s[i]}
  <2>1. S \in SUBSET Nat /\ i \in S
    OBVIOUS
  <2>2. PICK j \in S : \A x \in S : j <= x
    BY <2>1, LeastNatural
  <2>3. j \in 1 .. N /\ s[j] = s[i]
    BY <2>2
  <2>4. \A x \in 1 .. j - 1 : s[x] # s[j]
    <3> SUFFICES ASSUME NEW x \in 1 .. j - 1, s[x] = s[j] PROVE FALSE
      OBVIOUS
    <3>1. x \in S /\ x < j
      BY <2>3
    <3> QED
      BY <2>1, <2>2, <3>1
  <2>5. j \in Firsts(s)
    BY <2>3, <2>4 DEF Firsts
  <2>6. PICK n \in 1 .. Len(q) : at[n] = j
    BY <1>4, <2>5 DEF PickedPlaces
  <2> QED
    BY <1>5, <2>3, <2>6
<1> QED
  BY <1>1, <1>4, <1>5, <1>6 DEF OncePresent, q

(* The fields of a point, in the order of the assembly.                     *)
FieldsIn(p, q) ==
  /\ q \in Seq(PartsOf[p.option]) /\ DOMAIN q = 1 .. Len(q)
  /\ \A f \in PartsOf[p.option] : \E n \in 1 .. Len(q) : q[n] = f
LEMMA InPartIs ==
  ASSUME NEW p, IsPoint(p)
  PROVE  FieldsIn(p, InPart(p))
<1> DEFINE I  == {i \in DOMAIN Fields : Fields[i] \in PartsOf[p.option]}
           q  == Picked(Fields, I)
           at == InOrder(I)
<1>1. DOMAIN Fields = 1 .. Len(Fields) /\ Len(Fields) \in Nat
  BY FieldAssumption, LenProperties
<1>2. I \in SUBSET (1 .. Len(Fields)) /\ IsFiniteSet(1 .. Len(Fields))
  BY <1>1, FS_Interval
<1>3. I \in SUBSET Int /\ IsFiniteSet(I)
  BY <1>1, <1>2, FS_Subset
<1> HIDE DEF I
<1>4. /\ Len(q) \in Nat /\ q = [n \in 1 .. Len(q) |-> q[n]] /\ PickedPlaces(I, q, Fields, at)
  BY <1>3, PickedIs
<1> HIDE DEF q, at
<1>5. \A n \in 1 .. Len(q) : q[n] \in PartsOf[p.option]
  BY <1>4 DEF PickedPlaces, I
<1>6. ASSUME NEW f \in PartsOf[p.option] PROVE \E n \in 1 .. Len(q) : q[n] = f
  <2>1. f \in Range(Fields)
    BY FieldAssumption DEF IsPoint
  <2>2. PICK i \in DOMAIN Fields : Fields[i] = f
    BY <2>1 DEF Range
  <2>3. i \in I
    BY <2>2 DEF I
  <2>4. PICK n \in 1 .. Len(q) : at[n] = i
    BY <1>4, <2>3 DEF PickedPlaces
  <2> QED
    BY <1>4, <2>2, <2>4 DEF PickedPlaces
<1>7. q \in Seq(PartsOf[p.option]) /\ DOMAIN q = 1 .. Len(q)
  <2>1. q \in [1 .. Len(q) -> PartsOf[p.option]]
    BY <1>4, <1>5
  <2> QED
    BY <1>4, <2>1
<1> QED
  BY <1>6, <1>7 DEF FieldsIn, InPart, q, I

(* The rows of a field, at each position of the group that generates it.    *)
RowsOf(f) == [l \in DOMAIN Group |-> IF Generates(l, f) THEN <<RowAt(l, f)>> ELSE <<>>]
LEMMA RowAtIs ==
  ASSUME StateOK, RequestOK, GroupsOK, phase # "idle",
         NEW l \in DOMAIN Group, NEW f \in PartsOf[Home], Generates(l, f)
  PROVE  RowAt(l, f) \in AllKeys /\ RowAt(l, f).seed = 0
<1>1. IsPoint(Point(Group[l])) /\ Point(Group[l]).option = Home
  BY GroupIs
<1>2. BaseLength(Point(Group[l]), f) \in Nat
  BY <1>1, SourceIs DEF Generates
<1> QED
  BY <1>1, <1>2, RowKeyIs DEF RowAt, RowKey, Generates

LEMMA RowGroupsAre ==
  ASSUME StateOK, RequestOK, GroupsOK, phase # "idle"
  PROVE  AllPlanned(RowGroups)
<1> DEFINE q     == InPart(Point(Group[1]))
           all   == [j \in DOMAIN q |-> RowsOf(q[j])]
           once  == FlattenSeq(all)
           keys  == FlattenSeq(once)
<1>1. /\ Len(Group) \in Nat \ {0} /\ DOMAIN Group = 1 .. Len(Group)
      /\ IsPoint(Point(Group[1])) /\ Point(Group[1]).option = Home
  BY GroupIs
<1>2. FieldsIn(Point(Group[1]), q)
  BY <1>1, InPartIs
<1>3. RowGroups = Distinct(keys)
  BY DEF RowGroups, RowsOf, RowAt, Generates
<1> HIDE DEF q
<1>4. /\ q \in Seq(PartsOf[Home]) /\ DOMAIN q = 1 .. Len(q) /\ Len(q) \in Nat
      /\ \A f \in PartsOf[Home] : \E n \in 1 .. Len(q) : q[n] = f
  BY <1>1, <1>2 DEF FieldsIn
<1>5. ASSUME NEW f \in PartsOf[Home] PROVE RowsOf(f) \in Seq(Seq(AllKeys))
  <2>1. ASSUME NEW l \in DOMAIN Group
        PROVE  (IF Generates(l, f) THEN <<RowAt(l, f)>> ELSE <<>>) \in Seq(AllKeys)
    <3>1. CASE Generates(l, f)
      <4>1. RowAt(l, f) \in AllKeys
        BY <3>1, RowAtIs
      <4> QED
        BY <3>1, <4>1
    <3>2. CASE ~Generates(l, f)
      BY <3>2
    <3> QED
      BY <3>1, <3>2
  <2>2. RowsOf(f) \in [1 .. Len(Group) -> Seq(AllKeys)]
    BY <1>1, <2>1 DEF RowsOf
  <2> QED
    BY <1>1, <2>2
<1>6. all \in Seq(Seq(Seq(AllKeys))) /\ DOMAIN all = 1 .. Len(q)
  <2>1. all \in [1 .. Len(q) -> Seq(Seq(AllKeys))]
    BY <1>4, <1>5
  <2> QED
    BY <1>4, <2>1
<1>7. \A n \in 1 .. Len(q) : all[n] = RowsOf(q[n])
  BY <1>4
<1> HIDE DEF all
<1>8. /\ once \in Seq(Seq(AllKeys))
      /\ \A n \in DOMAIN all : ToSet(all[n]) \subseteq ToSet(once)
  BY <1>6, FlattenProperties
<1> HIDE DEF once
<1>9. /\ keys \in Seq(AllKeys)
      /\ \A i \in DOMAIN once : ToSet(once[i]) \subseteq ToSet(keys)
  BY <1>8, FlattenProperties
<1> HIDE DEF keys
<1>10. Len(keys) \in Nat /\ DOMAIN keys = 1 .. Len(keys)
  BY <1>9
<1>11. OncePresent(keys, Len(keys))
  BY <1>10, DistinctIs
<1> DEFINE r == RowGroups
<1>12. /\ Len(r) \in Nat /\ r = [n \in 1 .. Len(r) |-> r[n]]
       /\ \A n \in 1 .. Len(r) : \E i \in 1 .. Len(keys) : r[n] = keys[i]
       /\ \A i \in 1 .. Len(keys) : \E n \in 1 .. Len(r) : r[n] = keys[i]
  BY <1>3, <1>11 DEF OncePresent
<1> HIDE DEF r
<1>13. r \in Seq(AllKeys) /\ DOMAIN r = 1 .. Len(r)
  <2>1. \A n \in 1 .. Len(r) : r[n] \in AllKeys
    BY <1>9, <1>10, <1>12
  <2>2. r \in [1 .. Len(r) -> AllKeys]
    BY <1>12, <2>1
  <2> QED
    BY <1>12, <2>2
<1>14. ASSUME NEW l \in DOMAIN Group, NEW f \in PartsOf[Home], Generates(l, f)
       PROVE  \E n \in 1 .. Len(r) : r[n] = RowAt(l, f)
  <2>1. PICK j \in 1 .. Len(q) : q[j] = f
    BY <1>4
  <2>2. RowsOf(f)[l] = <<RowAt(l, f)>>
    BY <1>14 DEF RowsOf
  <2>3. <<RowAt(l, f)>> \in ToSet(RowsOf(f))
    <3>1. l \in DOMAIN RowsOf(f)
      BY DEF RowsOf
    <3> QED
      BY <2>2, <3>1 DEF ToSet
  <2>4. <<RowAt(l, f)>> \in ToSet(once)
    BY <1>6, <1>7, <1>8, <2>1, <2>3
  <2>5. PICK i \in DOMAIN once : once[i] = <<RowAt(l, f)>>
    BY <2>4 DEF ToSet
  <2>6. RowAt(l, f) \in ToSet(once[i])
    BY <2>5 DEF ToSet
  <2>7. RowAt(l, f) \in ToSet(keys)
    BY <1>9, <2>6
  <2>8. PICK m \in 1 .. Len(keys) : keys[m] = RowAt(l, f)
    BY <1>10, <2>7 DEF ToSet
  <2> QED
    BY <1>12, <2>8
<1> QED
  BY <1>13, <1>14 DEF AllPlanned, r

-----------------------------------------------------------------------------
(* A chunk fits the memory *)

KeyLengths       == [k \in AllKeys |-> k.length]
Covered(keys, n) == UNION {KeysFor(keys[m]) : m \in 1 .. n}

(* The rows of one row group: as many as there are seeds, all as long.      *)
RowsFit(k) ==
  /\ KeysFor(k) \in SUBSET AllKeys /\ IsFiniteSet(KeysFor(k))
  /\ SumOver(KeyLengths, KeysFor(k)) \in Nat
  /\ SumOver(KeyLengths, KeysFor(k)) <= k.length * (size * Width)
LEMMA KeysForAre ==
  ASSUME StateOK, RequestOK, GroupsOK, phase # "idle", NEW k \in AllKeys
  PROVE  RowsFit(k)
<1> DEFINE S == TakingSeeds(k)
           f == [s \in S |-> [k EXCEPT !.seed = s]]
<1>1. S \in SUBSET Nat /\ IsFiniteSet(S) /\ Cardinality(S) \in Nat /\ Cardinality(S) <= size * Width
  BY TakingSeedsAre DEF SeedsFit
<1>2. \A y \in KeysFor(k) : \E s \in S : f[s] = y
  BY DEF KeysFor
<1>3. \A s \in Nat : [k EXCEPT !.seed = s] \in AllKeys /\ [k EXCEPT !.seed = s].length = k.length
  BY DEF AllKeys
<1>4. ASSUME NEW y \in KeysFor(k) PROVE y \in AllKeys /\ y.length = k.length
  <2>1. PICK s \in S : y = [k EXCEPT !.seed = s]
    BY DEF KeysFor
  <2>2. s \in Nat
    BY <1>1
  <2> QED
    BY <1>3, <2>1, <2>2
<1> HIDE DEF f, S
<1>5. /\ IsFiniteSet(KeysFor(k)) /\ Cardinality(KeysFor(k)) <= Cardinality(S)
      /\ Cardinality(KeysFor(k)) \in Nat
  BY <1>1, <1>2, CoveredBy
<1>6. k.length \in Nat
  BY DEF AllKeys
<1>7. \A y \in KeysFor(k) : KeyLengths[y] \in 0 .. k.length
  BY <1>4, <1>6 DEF KeyLengths
<1>8. /\ SumOver(KeyLengths, KeysFor(k)) \in Nat
      /\ SumOver(KeyLengths, KeysFor(k)) <= k.length * Cardinality(KeysFor(k))
  BY <1>5, <1>6, <1>7, SumBounded
<1>9. size * Width \in Nat
  BY TakingSeedsAre DEF StateOK
<1>10. Cardinality(KeysFor(k)) <= size * Width
  BY <1>1, <1>5, <1>9
<1>11. \A a, b, c \in Nat : b <= c => a * b <= a * c /\ a * b \in Nat /\ a * c \in Nat
  OBVIOUS
<1> HIDE DEF Width
<1>12. /\ k.length * Cardinality(KeysFor(k)) <= k.length * (size * Width)
       /\ k.length * Cardinality(KeysFor(k)) \in Nat /\ k.length * (size * Width) \in Nat
  BY <1>5, <1>6, <1>9, <1>10, <1>11
<1>13. SumOver(KeyLengths, KeysFor(k)) <= k.length * (size * Width)
  BY <1>8, <1>12
<1>14. KeysFor(k) \in SUBSET AllKeys
  BY <1>4
<1> QED
  BY <1>5, <1>8, <1>13, <1>14 DEF RowsFit

(* The rows of all row groups.                                              *)
AllRowsFit(keys, n, length, width) ==
  /\ length \in Nat /\ Covered(keys, n) \in SUBSET AllKeys /\ IsFiniteSet(Covered(keys, n))
  /\ SumOver(KeyLengths, Covered(keys, n)) \in Nat
  /\ SumOver(KeyLengths, Covered(keys, n)) <= length * width
LEMMA CoveredFits ==
  ASSUME StateOK, RequestOK, GroupsOK, phase # "idle", NEW keys \in Seq(AllKeys)
  PROVE  AllRowsFit(keys, Len(keys), Lengths(keys), size * Width)
<1> DEFINE N == Len(keys)
           c == size * Width
<1>1. N \in Nat /\ DOMAIN keys = 1 .. N /\ \A n \in 1 .. N : keys[n] \in AllKeys
  OBVIOUS
<1>2. PICK f : LengthsSteps(f, keys, N)
  BY <1>1, LengthsFold
<1>3. c \in Nat
  BY TakingSeedsAre DEF StateOK
<1> HIDE DEF c
<1> DEFINE T == {n \in 0 .. N : AllRowsFit(keys, n, f[n], c)}
<1>4. 0 \in T
  <2>1. f[0] = 0
    BY <1>2 DEF LengthsSteps
  <2>2. Covered(keys, 0) = {}
    BY DEF Covered
  <2>3. IsFiniteSet({}) /\ SumOver(KeyLengths, {}) = 0
    BY SumTakes, FS_EmptySet
  <2>4. 0 * c = 0
    BY <1>3
  <2>5. AllRowsFit(keys, 0, f[0], c)
    <3>1. f[0] \in Nat
      BY <2>1
    <3>2. Covered(keys, 0) \in SUBSET AllKeys /\ IsFiniteSet(Covered(keys, 0))
      BY <2>2, <2>3
    <3>3. SumOver(KeyLengths, Covered(keys, 0)) = 0
      BY <2>2, <3>2, SumTakes
    <3> QED
      BY <2>1, <2>4, <3>1, <3>2, <3>3 DEF AllRowsFit
  <2> QED
    BY <1>1, <2>5
<1>5. ASSUME NEW n \in 0 .. N - 1, n \in T PROVE n + 1 \in T
  <2> DEFINE k == keys[n + 1]
             S == Covered(keys, n)
             R == KeysFor(k)
  <2>1. n + 1 \in 1 .. N /\ n + 1 \in 0 .. N /\ (n + 1) - 1 = n /\ n \in Nat
    BY <1>1
  <2>2. f[n + 1] = f[n] + k.length
    BY <1>2, <2>1 DEF LengthsSteps
  <2>3. k \in AllKeys /\ k.length \in Nat
    BY <1>1, <2>1 DEF AllKeys
  <2>4. /\ f[n] \in Nat /\ S \in SUBSET AllKeys /\ IsFiniteSet(S)
        /\ SumOver(KeyLengths, S) \in Nat /\ SumOver(KeyLengths, S) <= f[n] * c
    BY <1>5 DEF AllRowsFit
  <2>5. /\ R \in SUBSET AllKeys /\ IsFiniteSet(R)
        /\ SumOver(KeyLengths, R) \in Nat /\ SumOver(KeyLengths, R) <= k.length * c
    BY <2>3, KeysForAre DEF RowsFit, c
  <2>6. Covered(keys, n + 1) = S \cup R
    <3>1. 1 .. n + 1 = (1 .. n) \cup {n + 1}
      BY <2>1
    <3> QED
      BY <3>1 DEF Covered
  <2> HIDE DEF S, R, k
  <2>7. \A x \in S \cup R : KeyLengths[x] \in Nat
    BY <2>4, <2>5 DEF KeyLengths, AllKeys
  <2>8. /\ SumOver(KeyLengths, S \cup R) \in Nat
        /\ SumOver(KeyLengths, S \cup R) <= SumOver(KeyLengths, S) + SumOver(KeyLengths, R)
    BY <2>4, <2>5, <2>7, SumOfBoth
  <2>9. \A a, b, d \in Nat : (a + b) * d = a * d + b * d /\ a * d \in Nat /\ b * d \in Nat
    OBVIOUS
  <2>10. /\ f[n + 1] * c = f[n] * c + k.length * c
         /\ f[n] * c \in Nat /\ k.length * c \in Nat
    BY <1>3, <2>2, <2>3, <2>4, <2>9
  <2>11. SumOver(KeyLengths, S \cup R) <= f[n + 1] * c
    BY <2>4, <2>5, <2>8, <2>10
  <2>12. IsFiniteSet(S \cup R)
    BY <2>4, <2>5, FS_Union
  <2>13. SumOver(KeyLengths, Covered(keys, n + 1)) = SumOver(KeyLengths, S \cup R)
    BY <2>6, Zenon
  <2>14. Covered(keys, n + 1) \in SUBSET AllKeys /\ IsFiniteSet(Covered(keys, n + 1))
    BY <2>4, <2>5, <2>6, <2>12
  <2>15. AllRowsFit(keys, n + 1, f[n + 1], c)
    BY <2>2, <2>3, <2>4, <2>8, <2>11, <2>13, <2>14 DEF AllRowsFit
  <2> QED
    BY <2>1, <2>15
<1>6. N \in T
  <2> HIDE DEF T
  <2>1. 0 .. N \subseteq T
    BY <1>1, <1>4, <1>5, CountsUp
  <2> QED
    BY <1>1, <2>1
<1> QED
  BY <1>2, <1>6 DEF LengthsSteps, c


(* What a trial of the chunk takes was planned.                             *)
LEMMA TakenIsPlanned ==
  ASSUME StateOK, RequestOK, GroupsOK, phase # "idle", NEW keys, AllPlanned(keys),
         NEW t \in (DOMAIN Group) \X ChunkReps, NEW f \in PartsOf[Home], Generates(t[1], f)
  PROVE  \E n \in 1 .. Len(keys) :
           RowKey(Point(Group[t[1]]), f, SeedAt(t[1], t[2]), BaseLength(Point(Group[t[1]]), f))
             \in KeysFor(keys[n])
<1> DEFINE l == t[1]
           p == Point(Group[l])
           s == SeedAt(l, t[2])
<1>1. l \in DOMAIN Group /\ t[2] \in ChunkReps
  OBVIOUS
<1>2. PICK n \in 1 .. Len(keys) : keys[n] = RowAt(l, f)
  BY <1>1 DEF AllPlanned
<1>3. Takes(keys[n], l)
  BY <1>2 DEF Takes, RowAt, Generates
<1>4. <<l, t[2]>> \in Takers(keys[n])
  BY <1>1, <1>3 DEF Takers
<1>5. s \in TakingSeeds(keys[n])
  BY <1>4 DEF TakingSeeds
<1>6. [RowAt(l, f) EXCEPT !.seed = s] = RowKey(p, f, s, BaseLength(p, f))
  BY DEF RowAt, RowKey
<1>7. [keys[n] EXCEPT !.seed = s] \in KeysFor(keys[n])
  BY <1>5 DEF KeysFor
<1> QED
  BY <1>2, <1>6, <1>7

(* Before extension, what the chunk is bound to was planned.                *)
LEMMA BoundFits ==
  ASSUME RawAreNatural, ExperimentInv, phase = "native"
  PROVE  FoldFunction(LAMBDA x, y : x + y, 0, [k \in BoundKeys |-> k.length]) <= request.memory
<1> DEFINE keys == row_groups
           N    == Len(keys)
           g    == [k \in BoundKeys |-> k.length]
           U    == Covered(keys, N)
           c    == size * Width
<1>1. StateOK /\ RequestOK /\ GroupsOK /\ phase # "idle"
  BY DEF ExperimentInv
<1>2. /\ AllPlanned(keys) /\ size * PerReplication(keys) <= request.memory
      /\ request.memory \in Nat
  BY DEF ExperimentInv, PlanOK, RequestOK
<1>3. keys \in Seq(AllKeys)
  BY <1>2 DEF AllPlanned
<1>4. AllRowsFit(keys, N, Lengths(keys), c)
  BY <1>1, <1>3, CoveredFits
<1>5. ASSUME NEW x \in BoundKeys PROVE x \in U
  <2>1. PICK t \in DOMAIN blocks : \E f \in DOMAIN blocks[t].rows :
          /\ Generated(SourceOf(blocks[t].point, f))
          /\ x = RowKey(blocks[t].point, f, blocks[t].seed, Len(blocks[t].rows[f]))
    BY DEF BoundKeys
  <2> DEFINE b == blocks[t]
             p == Point(Group[t[1]])
  <2>2. PICK f \in DOMAIN b.rows : /\ Generated(SourceOf(b.point, f))
                                   /\ x = RowKey(b.point, f, b.seed, Len(b.rows[f]))
    BY <2>1
  <2>3. t \in (DOMAIN Group) \X ChunkReps /\ BlockOK(t, b) /\ AsPlanned(b)
    BY DEF ExperimentInv, BlocksOK
  <2>4. b.point = p /\ b.seed = SeedAt(t[1], t[2]) /\ DOMAIN b.rows = PartsOf[b.point.option]
    BY <2>3 DEF BlockOK, Sound, HasRows
  <2>5. Len(b.rows[f]) = BaseLength(b.point, f)
    BY <2>2, <2>3 DEF AsPlanned
  <2>6. p.option = Home
    BY <1>1, <2>3, TrialIs
  <2>7. f \in PartsOf[Home] /\ Generates(t[1], f)
    BY <2>2, <2>4, <2>6 DEF Generates
  <2>8. PICK n \in 1 .. N : RowKey(p, f, SeedAt(t[1], t[2]), BaseLength(p, f)) \in KeysFor(keys[n])
    BY <1>1, <1>2, <2>3, <2>7, TakenIsPlanned
  <2>9. x = RowKey(p, f, SeedAt(t[1], t[2]), BaseLength(p, f))
    BY <2>2, <2>4, <2>5
  <2> QED
    BY <2>8, <2>9 DEF Covered
<1>6. /\ Lengths(keys) \in Nat /\ U \in SUBSET AllKeys /\ IsFiniteSet(U)
      /\ SumOver(KeyLengths, U) <= Lengths(keys) * c
  BY <1>4 DEF AllRowsFit
<1> HIDE DEF U
<1>7. IsFiniteSet(BoundKeys)
  BY <1>5, <1>6, FS_Subset
<1> DEFINE m == [x \in BoundKeys |-> x]
<1>8. SumOver(g, BoundKeys) <= SumOver(KeyLengths, U)
  <2>1. m \in [BoundKeys -> U]
    BY <1>5
  <2>2. \A x \in BoundKeys : g[x] \in Nat /\ g[x] <= KeyLengths[m[x]]
    BY <1>5, <1>6 DEF KeyLengths, AllKeys
  <2>3. \A x \in U : KeyLengths[x] \in Nat
    BY <1>6 DEF KeyLengths, AllKeys
  <2>4. \A x, y \in BoundKeys : m[x] = m[y] => x = y
    OBVIOUS
  <2> HIDE DEF g, m
  <2> QED
    BY <1>6, <1>7, <2>1, <2>2, <2>3, <2>4, SumInjected
<1>9. SumOver(g, BoundKeys) \in Nat /\ SumOver(KeyLengths, U) \in Nat
  <2>1. \A x \in U : KeyLengths[x] \in Nat
    BY <1>6 DEF KeyLengths, AllKeys
  <2>2. \A x \in BoundKeys : g[x] \in Nat
    BY <1>5, <1>6 DEF AllKeys
  <2> HIDE DEF g
  <2> QED
    BY <1>6, <1>7, <2>1, <2>2, SumApart
<1>10. FoldFunction(LAMBDA x, y : x + y, 0, g) = SumOver(g, BoundKeys)
  BY DEF SumOver, FoldFunction, FoldFunctionOnSet, MapThenFoldSet
<1>11. size * PerReplication(keys) = Lengths(keys) * c
  <2>1. PerReplication(keys) = Lengths(keys) * Width
    BY DEF PerReplication, Width
  <2>2. size \in Nat /\ Width \in Nat
    BY <1>1, TakingSeedsAre DEF StateOK
  <2>3. \A x, y, z \in Nat : x * (y * z) = y * (x * z)
    OBVIOUS
  <2> HIDE DEF Width
  <2> QED
    BY <1>6, <2>1, <2>2, <2>3
<1> HIDE DEF c, g
<1>12. SumOver(g, BoundKeys) <= request.memory
  <2>1. Lengths(keys) * c <= request.memory
    BY <1>2, <1>11
  <2>2. c \in Nat /\ Lengths(keys) * c \in Nat
    <3>1. size \in Nat /\ Width \in Nat
      BY <1>1, TakingSeedsAre DEF StateOK
    <3>2. c \in Nat
      BY <3>1 DEF c
    <3> QED
      BY <1>6, <3>2
  <2> QED
    BY <1>2, <1>6, <1>8, <1>9, <2>1, <2>2
<1> QED
  BY <1>10, <1>12 DEF g

-----------------------------------------------------------------------------
(* Rows that are extended *)


(* What runs out in a trial are fields of its point, each named once.       *)
TargetsAre(b, q) ==
  /\ q \in Seq(PartsOf[b.point.option]) /\ DOMAIN q = 1 .. Len(q) /\ Len(q) \in Nat
  /\ \A i, j \in 1 .. Len(q) : q[i] = q[j] => i = j
LEMMA TargetsHold ==
  ASSUME NEW b, IsPoint(b.point), b.ran_out \in ReadsOf(b.point), b.ran_out.field # None
  PROVE  TargetsAre(b, Targets(b))
<1> DEFINE o == PartsOf[b.point.option]
<1>1. CASE ~b.ran_out.clone
  <2>1. b.ran_out.field \in o
    BY DEF ReadsOf
  <2>2. Targets(b) = <<b.ran_out.field>>
    BY <1>1 DEF Targets
  <2> HIDE DEF o
  <2>3. <<b.ran_out.field>> \in Seq(o) /\ Len(<<b.ran_out.field>>) = 1
    BY <2>1
  <2>4. DOMAIN <<b.ran_out.field>> = 1 .. 1
    OBVIOUS
  <2> QED
    BY <2>2, <2>3, <2>4 DEF TargetsAre, o
<1>2. CASE b.ran_out.clone
  <2> DEFINE I  == {i \in DOMAIN Fields : /\ Fields[i] \in PartsOf[b.point.option]
                                          /\ Generated(SourceOf(b.point, Fields[i]))}
             q  == Picked(Fields, I)
             at == InOrder(I)
  <2>1. DOMAIN Fields = 1 .. Len(Fields) /\ Len(Fields) \in Nat
    BY FieldAssumption, LenProperties
  <2>2. I \in SUBSET (1 .. Len(Fields)) /\ IsFiniteSet(1 .. Len(Fields))
    BY <2>1, FS_Interval
  <2>3. I \in SUBSET Int /\ IsFiniteSet(I)
    BY <2>1, <2>2, FS_Subset
  <2>4. Targets(b) = q
    BY <1>2 DEF Targets
  <2> HIDE DEF I
  <2>5. Len(q) \in Nat /\ q = [n \in 1 .. Len(q) |-> q[n]] /\ PickedPlaces(I, q, Fields, at)
    BY <2>3, PickedIs
  <2> HIDE DEF q, at
  <2>6. \A n \in 1 .. Len(q) : /\ at[n] \in I /\ at[n] \in DOMAIN Fields
                               /\ q[n] = Fields[at[n]] /\ q[n] \in o
    BY <2>5 DEF PickedPlaces, I
  <2>7. \A i, j \in 1 .. Len(q) : q[i] = q[j] => i = j
    <3> TAKE i, j \in 1 .. Len(q)
    <3>1. q[i] = q[j] => at[i] = at[j]
      BY <2>6, FieldAssumption
    <3>2. at[i] \in Int /\ at[j] \in Int
      BY <2>3, <2>6
    <3>3. i < j \/ j < i \/ i = j
      BY <2>5
    <3> QED
      BY <2>5, <3>1, <3>2, <3>3 DEF PickedPlaces
  <2>8. q \in Seq(o) /\ DOMAIN q = 1 .. Len(q)
    <3>1. q \in [1 .. Len(q) -> o]
      BY <2>5, <2>6
    <3> QED
      BY <2>5, <3>1
  <2> QED
    BY <2>4, <2>5, <2>7, <2>8 DEF TargetsAre
<1> QED
  BY <1>1, <1>2

LEMMA ExtensibleAre ==
  ASSUME NEW b, IsPoint(b.point), b.ran_out \in ReadsOf(b.point), b.ran_out.field # None
  PROVE  /\ TargetsAre(b, Extensible(b))
         /\ \A n \in 1 .. Len(Extensible(b)) : MayExtend(b, Extensible(b)[n])
<1> DEFINE s  == Targets(b)
           I  == {i \in DOMAIN s : \A j \in 1 .. i : MayExtend(b, s[j])}
           q  == Picked(s, I)
           at == InOrder(I)
<1>1. TargetsAre(b, s)
  BY TargetsHold
<1>2. Extensible(b) = q
  BY DEF Extensible
<1> HIDE DEF s
<1>3. I \in SUBSET (1 .. Len(s)) /\ IsFiniteSet(1 .. Len(s))
  BY <1>1, FS_Interval DEF TargetsAre
<1>4. I \in SUBSET Int /\ IsFiniteSet(I)
  BY <1>3, FS_Subset
<1>5. \A i \in I : i \in 1 .. Len(s) /\ MayExtend(b, s[i])
  BY <1>1 DEF TargetsAre
<1> HIDE DEF I
<1>6. Len(q) \in Nat /\ q = [n \in 1 .. Len(q) |-> q[n]] /\ PickedPlaces(I, q, s, at)
  BY <1>4, PickedIs
<1> HIDE DEF q, at
<1>7. \A n \in 1 .. Len(q) : at[n] \in I /\ at[n] \in 1 .. Len(s) /\ q[n] = s[at[n]]
  BY <1>5, <1>6 DEF PickedPlaces
<1>8. \A n \in 1 .. Len(q) : q[n] \in PartsOf[b.point.option] /\ MayExtend(b, q[n])
  <2>1. \A i \in 1 .. Len(s) : s[i] \in PartsOf[b.point.option]
    BY <1>1 DEF TargetsAre
  <2> QED
    BY <1>5, <1>7, <2>1
<1>9. \A i, j \in 1 .. Len(q) : q[i] = q[j] => i = j
  <2> TAKE i, j \in 1 .. Len(q)
  <2>1. q[i] = q[j] => at[i] = at[j]
    BY <1>1, <1>7 DEF TargetsAre
  <2>2. at[i] \in Int /\ at[j] \in Int
    BY <1>4, <1>7
  <2>3. i < j \/ j < i \/ i = j
    BY <1>6
  <2> QED
    BY <1>6, <2>1, <2>2, <2>3 DEF PickedPlaces
<1>10. q \in Seq(PartsOf[b.point.option]) /\ DOMAIN q = 1 .. Len(q)
  <2>1. q \in [1 .. Len(q) -> PartsOf[b.point.option]]
    BY <1>6, <1>8
  <2> QED
    BY <1>6, <2>1
<1> QED
  BY <1>2, <1>6, <1>8, <1>9, <1>10 DEF TargetsAre

(* What holds after the first n targets were doubled; the rest still may be.*)
DoubledSo(b, o, n, c, memory) ==
  /\ SoundCache(o.cache) /\ HasRows(b, o.rows) /\ HasCounts(b, o.extended)
  /\ n > 0 => Total(o.cache) <= memory
  /\ n = 0 => o.cache = c
  /\ \A i \in n + 1 .. Len(Extensible(b)) :
       o.extended[Extensible(b)[i]] = b.extended[Extensible(b)[i]]
LEMMA DoubledKeeps ==
  ASSUME RawAreNatural, NEW b, IsPoint(b.point), b.ran_out \in ReadsOf(b.point),
         b.ran_out.field # None, HasRows(b, b.rows), HasCounts(b, b.extended), b.seed \in Nat,
         NEW memory \in Nat, NEW c, NEW n \in Nat, n + 1 \in 1 .. Len(Extensible(b)),
         NEW o, DoubledSo(b, o, n, c, memory)
  PROVE  DoubledSo(b, Doubled(b, o, Extensible(b)[n + 1], memory), n + 1, c, memory)
<1> DEFINE q   == Extensible(b)
           f   == q[n + 1]
           P   == PartsOf[b.point.option]
           length == 2 * Len(b.rows[f])
           key == RowKey(b.point, f, b.seed, length)
           keys == <<key>>
           N    == Len(keys)
           got == Fetched(o.cache, keys, memory)
           e   == Doubled(b, o, f, memory)
<1>1. TargetsAre(b, q) /\ MayExtend(b, f)
  BY ExtensibleAre
<1>2. f \in P /\ Generated(SourceOf(b.point, f)) /\ b.extended[f] < Doublings
  BY <1>1 DEF TargetsAre, MayExtend
<1> HIDE DEF f
<1>3. length \in Nat /\ BaseLength(b.point, f) <= length /\ Allowed(b.point, f, length)
  <2>1. BaseLength(b.point, f) \in Nat
    BY <1>2, SourceIs
  <2>2. Len(b.rows[f]) \in Nat /\ BaseLength(b.point, f) <= Len(b.rows[f])
    BY <1>2 DEF HasRows
  <2>3. Allowed(b.point, f, length)
    BY <1>1 DEF MayExtend, Allowed
  <2> QED
    BY <2>1, <2>2, <2>3
<1> HIDE DEF length
<1>4. key \in AllKeys /\ key.length = length
  <2>1. b.point.bind[f] \in DOMAIN Sources /\ TagOf(b.point, f) \in Tags
    BY <1>2, SourceIs
  <2> QED
    BY <1>2, <1>3, <2>1 DEF key, RowKey, AllKeys, SourceOf
<1>5. /\ e.cache = got.cache /\ e.rows = [o.rows EXCEPT ![f] = got.rows[key]]
      /\ e.extended = [o.extended EXCEPT ![f] = @ + 1]
  BY DEF Doubled, length
<1> HIDE DEF key, e, q
<1>6. /\ DOMAIN keys = 1 .. N /\ \A i \in 1 .. N : keys[i] \in AllKeys
      /\ \A i, j \in 1 .. N : keys[i] = keys[j] => i = j
      /\ key \in Range(keys) /\ N \in Nat
  <2>1. N = 1 /\ DOMAIN keys = 1 .. 1 /\ keys[1] = key
    OBVIOUS
  <2> HIDE DEF keys
  <2>2. key \in Range(keys)
    BY <2>1 DEF Range
  <2> QED
    BY <1>4, <2>1, <2>2
<1>7. SoundCache(o.cache)
  BY DEF DoubledSo
<1> HIDE DEF keys, N
<1>8. /\ SoundCache(got.cache) /\ Total(got.cache) <= memory
      /\ got.rows = [x \in Range(keys) |-> RowOf(x)]
  BY <1>6, <1>7, FetchedIs
<1> HIDE DEF got
<1>9. got.rows[key] = RowOf(key)
  BY <1>6, <1>8
<1>10. Len(RowOf(key)) = length
  BY <1>4, RowOfIs
<1>11. HasRows(b, o.rows) /\ HasCounts(b, o.extended) /\ DOMAIN o.rows = P
  BY DEF DoubledSo, HasRows
<1>12. HasRows(b, e.rows)
  <2>1. DOMAIN e.rows = P /\ e.rows[f] = RowOf(key) /\ \A g \in P \ {f} : e.rows[g] = o.rows[g]
    BY <1>2, <1>5, <1>9, <1>11
  <2>2. /\ Len(e.rows[f]) \in Nat /\ BaseLength(b.point, f) <= Len(e.rows[f])
        /\ e.rows[f] = RowOf(RowKey(b.point, f, b.seed, Len(e.rows[f])))
        /\ Allowed(b.point, f, Len(e.rows[f]))
    BY <1>3, <1>10, <2>1 DEF key
  <2>3. ASSUME NEW g \in P, Generated(SourceOf(b.point, g))
        PROVE  /\ Len(e.rows[g]) \in Nat /\ BaseLength(b.point, g) <= Len(e.rows[g])
               /\ e.rows[g] = RowOf(RowKey(b.point, g, b.seed, Len(e.rows[g])))
               /\ Allowed(b.point, g, Len(e.rows[g]))
    <3>1. CASE g = f
      BY <2>2, <3>1
    <3>2. CASE g # f
      <4>1. /\ Len(o.rows[g]) \in Nat /\ BaseLength(b.point, g) <= Len(o.rows[g])
            /\ o.rows[g] = RowOf(RowKey(b.point, g, b.seed, Len(o.rows[g])))
            /\ Allowed(b.point, g, Len(o.rows[g]))
        BY <1>11, <2>3 DEF HasRows
      <4> QED
        BY <2>1, <3>2, <4>1
    <3> QED
      BY <3>1, <3>2
  <2> QED
    BY <2>1, <2>3 DEF HasRows
<1>13. o.extended[f] = b.extended[f]
  <2>1. n + 1 \in n + 1 .. Len(q)
    BY <1>1 DEF TargetsAre, q
  <2> QED
    BY <2>1 DEF DoubledSo, q, f
<1>14. HasCounts(b, e.extended)
  <2>1. o.extended \in [P -> 0 .. Doublings] /\ b.extended[f] \in 0 .. Doublings /\ Doublings \in Nat
    BY <1>2, <1>11, CallAssumption DEF HasCounts
  <2>2. o.extended[f] + 1 \in 0 .. Doublings
    BY <1>2, <1>13, <2>1
  <2> QED
    BY <1>2, <1>5, <2>1, <2>2 DEF HasCounts
<1>15. \A i \in (n + 1) + 1 .. Len(q) : e.extended[q[i]] = b.extended[q[i]]
  <2> TAKE i \in (n + 1) + 1 .. Len(q)
  <2>1. i \in n + 1 .. Len(q) /\ i \in 1 .. Len(q) /\ n + 1 \in 1 .. Len(q) /\ i # n + 1
    BY <1>1 DEF TargetsAre, q
  <2>2. q[i] # f /\ q[i] \in P
    BY <1>1, <2>1 DEF TargetsAre, f
  <2>3. o.extended[q[i]] = b.extended[q[i]]
    BY <2>1 DEF DoubledSo, q
  <2> QED
    BY <1>5, <1>11, <2>2, <2>3 DEF HasCounts
<1>16. SoundCache(e.cache) /\ Total(e.cache) <= memory
  BY <1>5, <1>8
<1> HIDE DEF P
<1>17. DoubledSo(b, e, n + 1, c, memory)
  BY <1>12, <1>14, <1>15, <1>16 DEF DoubledSo, q
<1> QED
  BY <1>17 DEF e, f, q

(* A trial that is extended: rows of its sources, one more doubling at most *)
(* for each field, and a cache that still fits.                             *)
ExtendedSo(b, all, c, memory) ==
  /\ SoundCache(all.cache) /\ HasRows(b, all.rows) /\ HasCounts(b, all.extended)
  /\ Total(c) <= memory => Total(all.cache) <= memory
LEMMA ExtendedIs ==
  ASSUME RawAreNatural, NEW b, IsPoint(b.point), b.ran_out \in ReadsOf(b.point),
         b.ran_out.field # None, HasRows(b, b.rows), HasCounts(b, b.extended), b.seed \in Nat,
         NEW memory \in Nat, NEW c, SoundCache(c)
  PROVE  ExtendedSo(b, Extended(b, c, memory), c, memory)
<1> DEFINE q    == Extensible(b)
           N    == Len(q)
           base == [cache |-> c, rows |-> b.rows, extended |-> b.extended]
<1>1. DOMAIN q = 1 .. N /\ N \in Nat
  BY ExtensibleAre DEF TargetsAre
<1>2. PICK f : DoubledSteps(f, b, memory, base, q, N)
  BY <1>1, DoubledFold
<1> DEFINE T == {n \in 0 .. N : DoubledSo(b, f[n], n, c, memory)}
<1>3. 0 \in T
  <2>1. f[0] = base
    BY <1>2 DEF DoubledSteps
  <2>2. base.cache = c /\ base.rows = b.rows /\ base.extended = b.extended
    OBVIOUS
  <2> HIDE DEF base
  <2>3. DoubledSo(b, f[0], 0, c, memory)
    BY <2>1, <2>2 DEF DoubledSo
  <2> QED
    BY <1>1, <2>3
<1>4. ASSUME NEW n \in 0 .. N - 1, n \in T PROVE n + 1 \in T
  <2>1. n + 1 \in 1 .. N /\ n + 1 \in 0 .. N /\ (n + 1) - 1 = n /\ n \in Nat
    BY <1>1
  <2>2. f[n + 1] = Doubled(b, f[n], q[n + 1], memory)
    BY <1>2, <2>1 DEF DoubledSteps
  <2>3. DoubledSo(b, f[n], n, c, memory)
    BY <1>4
  <2>4. DoubledSo(b, f[n + 1], n + 1, c, memory)
    BY <2>1, <2>2, <2>3, DoubledKeeps
  <2> QED
    BY <2>1, <2>4
<1>5. N \in T
  <2> HIDE DEF T
  <2>1. 0 .. N \subseteq T
    BY <1>1, <1>3, <1>4, CountsUp
  <2> QED
    BY <1>1, <2>1
<1>6. Extended(b, c, memory) = f[N]
  BY <1>2 DEF Extended, DoubledSteps
<1>7. DoubledSo(b, f[N], N, c, memory)
  BY <1>5
<1> QED
  BY <1>1, <1>6, <1>7 DEF DoubledSo, ExtendedSo

-----------------------------------------------------------------------------
(* The trials of a call, and their groups *)

(* Positions of a request: a point of the design and as many seeds for each.*)
PositionsOK(positions) ==
  /\ Len(positions) \in Nat \ {0} /\ IsRow(positions, Len(positions))
  /\ Len(positions[1].seeds) \in Nat \ {0}
  /\ \A i \in 1 .. Len(positions) :
       /\ positions[i].point \in DOMAIN design
       /\ positions[i].seeds \in [1 .. Len(positions[1].seeds) -> Nat]

LEMMA DesignIs ==
  ASSUME StateOK
  PROVE  /\ DOMAIN design = 1 .. Len(design) /\ Len(design) \in Nat \ {0}
         /\ \A p \in DOMAIN design, r \in 1 .. Replications : Seeds(seeding, p, r) \in Nat
<1>1. /\ design # <<>> /\ DOMAIN design = 1 .. Len(design)
      /\ \A p \in DOMAIN design, r \in 1 .. Replications : Seeds(seeding, p, r) \in Nat
  BY DesignAssumption DEF StateOK
<1>2. Len(design) \in Nat
  BY <1>1, LenProperties
<1>3. Len(design) # 0
  <2> SUFFICES ASSUME Len(design) = 0 PROVE FALSE
    OBVIOUS
  <2>1. DOMAIN design = {}
    BY <1>1
  <2>2. IsPoint(design[1]) \/ TRUE
    OBVIOUS
  <2> QED
    BY <1>1, <2>1
<1> QED
  BY <1>1, <1>2, <1>3

LEMMA AllTrialsAre ==
  ASSUME StateOK
  PROVE  PositionsOK(AllTrials)
<1> DEFINE N     == Len(design)
           s(p)  == [r \in 1 .. Replications |-> Seeds(seeding, p, r)]
           q     == AllTrials
<1>1. DOMAIN design = 1 .. N /\ N \in Nat \ {0} /\ Replications \in Nat \ {0}
  BY DesignIs, CallAssumption
<1>2. ASSUME NEW p \in 1 .. N
      PROVE  s(p) \in [1 .. Replications -> Nat] /\ Len(s(p)) = Replications
  <2>1. \A r \in 1 .. Replications : Seeds(seeding, p, r) \in Nat
    BY <1>1, DesignIs
  <2>2. s(p) \in [1 .. Replications -> Nat]
    BY <2>1
  <2>3. Len(s(p)) = Replications
    BY <1>1
  <2> QED
    BY <2>2, <2>3
<1>3. q = [p \in 1 .. N |-> [point |-> p, seeds |-> s(p)]]
  BY <1>1 DEF AllTrials
<1> HIDE DEF q, s
<1>4. IsRow(q, N) /\ \A p \in 1 .. N : q[p].point = p /\ q[p].seeds = s(p)
  BY <1>3 DEF IsRow
<1>5. Len(q) = N
  BY <1>1, <1>4, IsRowLength
<1>6. 1 \in 1 .. N /\ Len(q[1].seeds) = Replications
  BY <1>1, <1>2, <1>4
<1>7. \A i \in 1 .. N : q[i].point \in DOMAIN design /\ q[i].seeds \in [1 .. Replications -> Nat]
  BY <1>1, <1>2, <1>4
<1>8. PositionsOK(q)
  BY <1>1, <1>4, <1>5, <1>6, <1>7 DEF PositionsOK
<1> QED
  BY <1>8 DEF q

(* A flattened index has a row and a column.                                *)
LEMMA QuotientIs ==
  ASSUME NEW i \in Nat, NEW d \in Nat, NEW r \in Nat, r > 0, i < d * r
  PROVE  i \div r \in 0 .. d - 1 /\ i % r \in 0 .. r - 1
<1>1. i \div r < d
  OBVIOUS
<1>2. i \div r \in Int /\ i \div r >= 0
  OBVIOUS
<1>3. i % r \in 0 .. r - 1
  OBVIOUS
<1> QED
  BY <1>1, <1>2, <1>3

LEMMA SelectedAre ==
  ASSUME StateOK, NEW trials \in Selections, trials # <<>>,
         \A i \in Range(trials) : i < Len(design) * Replications
  PROVE  PositionsOK([k \in DOMAIN trials |-> Selected(trials[k])])
<1> DEFINE N    == Len(trials)
           D    == Len(design)
           p(k) == (trials[k] \div Replications) + 1
           s(k) == <<Seeds(seeding, p(k), (trials[k] % Replications) + 1)>>
           q    == [k \in DOMAIN trials |-> Selected(trials[k])]
<1>1. /\ DOMAIN trials = 1 .. N /\ Range(trials) \subseteq Nat /\ Replications \in Nat \ {0}
      /\ DOMAIN design = 1 .. D /\ D \in Nat \ {0}
  BY DesignIs, CallAssumption
<1>2. N \in Nat
  BY <1>1, LenProperties
<1>3. N # 0
  <2> SUFFICES ASSUME N = 0 PROVE FALSE
    OBVIOUS
  <2> QED
    BY <1>1
<1>4. ASSUME NEW k \in 1 .. N PROVE p(k) \in 1 .. D /\ s(k) \in [1 .. 1 -> Nat] /\ Len(s(k)) = 1
  <2>1. trials[k] \in Nat /\ trials[k] < D * Replications
    BY <1>1 DEF Range
  <2>2. \A i \in Nat, d \in Nat \ {0}, r \in Nat \ {0} :
          i < d * r => i \div r \in 0 .. d - 1 /\ i % r \in 0 .. r - 1
    BY QuotientIs
  <2>3. trials[k] \div Replications \in 0 .. D - 1 /\ trials[k] % Replications \in 0 .. Replications - 1
    BY <1>1, <2>1, <2>2
  <2>4. p(k) \in 1 .. D /\ (trials[k] % Replications) + 1 \in 1 .. Replications
    BY <1>1, <2>3
  <2>5. Seeds(seeding, p(k), (trials[k] % Replications) + 1) \in Nat
    BY <1>1, <2>4, DesignIs
  <2> HIDE DEF p
  <2> QED
    BY <2>4, <2>5
<1>5. q = [k \in 1 .. N |-> [point |-> p(k), seeds |-> s(k)]]
  BY <1>1 DEF Selected
<1> HIDE DEF q, p, s
<1>6. IsRow(q, N) /\ \A k \in 1 .. N : q[k].point = p(k) /\ q[k].seeds = s(k)
  BY <1>5 DEF IsRow
<1>7. Len(q) = N
  BY <1>2, <1>6, IsRowLength
<1>8. 1 \in 1 .. N /\ Len(q[1].seeds) = 1
  BY <1>2, <1>3, <1>4, <1>6
<1>9. \A i \in 1 .. N : q[i].point \in DOMAIN design /\ q[i].seeds \in [1 .. 1 -> Nat]
  BY <1>1, <1>4, <1>6
<1>10. PositionsOK(q)
  BY <1>2, <1>3, <1>6, <1>7, <1>8, <1>9 DEF PositionsOK
<1> QED
  BY <1>10 DEF q

(* The groups of positions: none is empty, and each has one option.         *)
GroupsAre(gs, positions) ==
  /\ Len(gs) \in Nat \ {0} /\ DOMAIN gs = 1 .. Len(gs)
  /\ \A g \in 1 .. Len(gs) :
       /\ gs[g] \in Seq(1 .. Len(positions)) /\ Len(gs[g]) # 0
       /\ \A l \in 1 .. Len(gs[g]) :
            design[positions[gs[g][l]].point].option = design[positions[gs[g][1]].point].option
LEMMA GroupedIs ==
  ASSUME NEW positions, PositionsOK(positions)
  PROVE  GroupsAre(Grouped(positions), positions)
<1> DEFINE N       == Len(positions)
           option  == [i \in DOMAIN positions |-> design[positions[i].point].option]
           options == Distinct(option)
           of(g)   == {i \in DOMAIN positions : option[i] = options[g]}
           gs      == Grouped(positions)
<1>1. N \in Nat \ {0} /\ DOMAIN positions = 1 .. N
  BY IsRowLength DEF PositionsOK
<1>2. DOMAIN option = 1 .. N /\ \A i \in 1 .. N : option[i] = design[positions[i].point].option
  BY <1>1
<1>3. gs = [g \in DOMAIN options |-> InOrder(of(g))]
  BY DEF Grouped
<1> HIDE DEF option
<1>4. OncePresent(option, N)
  BY <1>1, <1>2, DistinctIs
<1>5. /\ Len(options) \in Nat /\ DOMAIN options = 1 .. Len(options)
      /\ \A n \in 1 .. Len(options) : \E i \in 1 .. N : options[n] = option[i]
      /\ \A i \in 1 .. N : \E n \in 1 .. Len(options) : options[n] = option[i]
  BY <1>4 DEF OncePresent
<1> HIDE DEF options, gs
<1>6. Len(options) # 0
  BY <1>1, <1>5
<1>7. DOMAIN gs = 1 .. Len(options) /\ Len(gs) = Len(options)
  <2>1. DOMAIN gs = 1 .. Len(options)
    BY <1>3, <1>5
  <2>2. IsRow(gs, Len(options))
    <3>1. gs = [g \in 1 .. Len(options) |-> InOrder(of(g))]
      BY <1>3, <1>5
    <3> HIDE DEF of
    <3> QED
      BY <3>1 DEF IsRow
  <2> QED
    BY <1>5, <2>1, <2>2, IsRowLength
<1>8. ASSUME NEW g \in 1 .. Len(options)
      PROVE  /\ gs[g] \in Seq(1 .. N) /\ Len(gs[g]) # 0
             /\ \A l \in 1 .. Len(gs[g]) : option[gs[g][l]] = options[g]
  <2> DEFINE S == of(g)
             C == Cardinality(S)
  <2>1. S \in SUBSET (1 .. N) /\ IsFiniteSet(1 .. N)
    BY <1>1, FS_Interval
  <2>2. S \in SUBSET Int /\ IsFiniteSet(S)
    BY <2>1, FS_Subset
  <2>3. \A i \in S : i \in 1 .. N /\ option[i] = options[g]
    BY <2>1
  <2>4. PICK i \in S : TRUE
    BY <1>1, <1>5
  <2>5. gs[g] = InOrder(S)
    BY <1>3, <1>5
  <2> HIDE DEF S
  <2>6. /\ C \in Nat /\ InOrder(S) \in [1 .. C -> S]
        /\ \A x \in S : \E n \in 1 .. C : InOrder(S)[n] = x
    BY <2>2, InOrderIs
  <2>7. C # 0
    BY <2>4, <2>6
  <2>8. InOrder(S) \in Seq(1 .. N) /\ Len(InOrder(S)) = C
    <3>1. InOrder(S) \in [1 .. C -> 1 .. N]
      BY <2>1, <2>6
    <3> QED
      BY <2>6, <3>1
  <2> QED
    BY <2>3, <2>5, <2>6, <2>7, <2>8
<1>9. ASSUME NEW g \in 1 .. Len(options), NEW l \in 1 .. Len(gs[g])
      PROVE  design[positions[gs[g][l]].point].option = options[g]
  <2>1. Len(gs[g]) \in Nat /\ gs[g][l] \in 1 .. N
    BY <1>8
  <2> QED
    BY <1>2, <1>8, <2>1
<1>10. ASSUME NEW g \in 1 .. Len(options) PROVE 1 \in 1 .. Len(gs[g])
  BY <1>8
<1>11. \A g \in 1 .. Len(gs) :
         /\ gs[g] \in Seq(1 .. N) /\ Len(gs[g]) # 0
         /\ \A l \in 1 .. Len(gs[g]) :
              design[positions[gs[g][l]].point].option = design[positions[gs[g][1]].point].option
  <2> TAKE g \in 1 .. Len(gs)
  <2>1. g \in 1 .. Len(options)
    BY <1>7
  <2>2. \A l \in 1 .. Len(gs[g]) : design[positions[gs[g][l]].point].option = options[g]
    BY <1>9, <2>1
  <2> QED
    BY <1>8, <1>10, <2>1, <2>2
<1>12. GroupsAre(gs, positions)
  BY <1>5, <1>6, <1>7, <1>11 DEF GroupsAre
<1> QED
  BY <1>12 DEF gs

-----------------------------------------------------------------------------
(* Every action keeps the invariant *)

LEMMA InitKeeps ==
  ASSUME Init
  PROVE  ExperimentInv
<1>1. StateOK
  BY CallAssumption DEF Init, StateOK, Phases
<1>2. RequestOK /\ GroupsOK /\ PlanOK /\ BlocksOK
  BY DEF Init, RequestOK, GroupsOK, PlanOK, BlocksOK
<1>3. CachesOK
  <2>1. cache = [o \in DOMAIN PartsOf |-> <<>>] /\ phase = "idle"
    BY DEF Init
  <2>2. SoundCache(<<>>)
    BY DEF SoundCache
  <2> QED
    BY <2>1, <2>2 DEF CachesOK
<1> QED
  BY <1>1, <1>2, <1>3 DEF ExperimentInv

(* A call starts from its positions, and from caches as they were left.     *)
LEMMA CallKeeps ==
  ASSUME ExperimentInv, NEW trials, NEW positions, NEW memory \in Memories, NEW on_failure,
         Call(trials, positions, memory, on_failure), PositionsOK(positions)
  PROVE  ExperimentInv'
<1>1. /\ phase = "idle" /\ phase' = "plan" /\ calls < MaxCalls /\ calls' = calls + 1
      /\ request' = [trials |-> trials, positions |-> positions, memory |-> memory,
                     on_failure |-> on_failure]
      /\ groups' = Grouped(positions) /\ group' = 1 /\ start' = 0 /\ results' = "none"
      /\ design' = design /\ seeding' = seeding /\ size' = size /\ cache' = cache
  BY DEF Call, plan
<1>2. StateOK'
  BY <1>1, CallAssumption DEF ExperimentInv, StateOK, Phases
<1>3. request'.positions = positions /\ request'.memory = memory
  BY <1>1
<1>4. RequestOK'
  <2>1. memory \in Nat
    BY CallAssumption
  <2> QED
    BY <1>1, <1>3, <2>1 DEF RequestOK, PositionsOK, Count
<1>5. GroupsAre(groups', positions)
  BY <1>1, GroupedIs
<1>6. GroupsOK'
  <2>1. 0 \in 0 .. Len(positions[1].seeds) - 1
    BY DEF PositionsOK
  <2>2. 1 \in 1 .. Len(groups')
    BY <1>5 DEF GroupsAre
  <2> QED
    BY <1>1, <1>3, <1>5, <2>1, <2>2 DEF GroupsOK, GroupsAre, Point, Count
<1>7. PlanOK' /\ BlocksOK'
  BY <1>1 DEF PlanOK, BlocksOK
<1>8. CachesOK'
  BY <1>1 DEF ExperimentInv, CachesOK
<1> QED
  BY <1>2, <1>4, <1>6, <1>7, <1>8 DEF ExperimentInv

LEMMA UserKeeps ==
  ASSUME ExperimentInv, User
  PROVE  ExperimentInv'
<1>1. PICK memory \in Memories, on_failure \in Failures :
        \/ RunAll(memory, on_failure)
        \/ \E trials \in Selections : RunOnly(trials, memory, on_failure)
  BY DEF User
<1>2. StateOK
  BY DEF ExperimentInv
<1>3. CASE RunAll(memory, on_failure)
  <2>1. PICK positions : positions = AllTrials
    OBVIOUS
  <2>2. Call(<<>>, positions, memory, on_failure)
    BY <1>3, <2>1 DEF RunAll
  <2>3. PositionsOK(positions)
    BY <1>2, <2>1, AllTrialsAre
  <2> QED
    BY <2>2, <2>3, CallKeeps
<1>4. ASSUME NEW trials \in Selections, RunOnly(trials, memory, on_failure) PROVE ExperimentInv'
  <2>1. PICK positions : positions = [k \in DOMAIN trials |-> Selected(trials[k])]
    OBVIOUS
  <2>2. /\ trials # <<>> /\ \A i \in Range(trials) : i < Len(design) * Replications
        /\ Call(trials, positions, memory, on_failure)
    BY <1>4, <2>1 DEF RunOnly
  <2>3. PositionsOK(positions)
    BY <1>2, <2>1, <2>2, SelectedAre
  <2> QED
    BY <2>2, <2>3, CallKeeps
<1> QED
  BY <1>1, <1>3, <1>4

(* What a memory has room for.                                              *)
LEMMA Divides ==
  ASSUME NEW m \in Nat, NEW b \in Nat, b > 0
  PROVE  m \div b \in Nat /\ (m \div b) * b <= m
<1>1. m \div b \in Nat
  OBVIOUS
<1>2. (m \div b) * b <= m
  OBVIOUS
<1> QED
  BY <1>1, <1>2

(* The rows of the group are planned; a chunk fits the memory.              *)
LEMMA PlanKeeps ==
  ASSUME ExperimentInv, Plan
  PROVE  ExperimentInv'
<1> DEFINE rows  == RowGroups
           bytes == PerReplication(rows)
<1>1. /\ phase = "plan" /\ row_groups' = rows
      /\ \/ /\ bytes > request.memory /\ phase' = "idle" /\ results' = "refused" /\ size' = size
         \/ /\ ~(bytes > request.memory) /\ phase' = "bind" /\ size' = ChunkSize(bytes)
            /\ results' = results
      /\ design' = design /\ seeding' = seeding /\ calls' = calls /\ request' = request
      /\ groups' = groups /\ group' = group /\ start' = start /\ cache' = cache
  BY DEF Plan, plan, PerReplication, IsCommon, Group
<1>2. StateOK /\ RequestOK /\ GroupsOK /\ phase # "idle" /\ request.memory \in Nat /\ Count \in Nat
  BY <1>1 DEF ExperimentInv, RequestOK
<1>3. AllPlanned(rows)
  BY <1>2, RowGroupsAre
<1>4. bytes = Lengths(rows) * Width /\ Lengths(rows) \in Nat /\ Width \in Nat
  <2>1. rows \in Seq(AllKeys)
    BY <1>3 DEF AllPlanned
  <2>2. Lengths(rows) \in Nat
    BY <1>2, <2>1, CoveredFits DEF AllRowsFit
  <2>3. Width \in Nat
    BY <1>2, TakingSeedsAre
  <2> QED
    BY <2>2, <2>3 DEF PerReplication, Width
<1>5. bytes \in Nat
  BY <1>4
<1> HIDE DEF rows, bytes
<1>6. CASE bytes > request.memory
  <2>1. phase' = "idle" /\ results' = "refused" /\ size' = size
    BY <1>1, <1>2, <1>5, <1>6
  <2> QED
    BY <1>1, <2>1 DEF ExperimentInv, StateOK, RequestOK, GroupsOK, PlanOK, BlocksOK, CachesOK, Phases
<1>7. CASE ~(bytes > request.memory)
  <2>1. phase' = "bind" /\ size' = ChunkSize(bytes) /\ results' = results
    BY <1>1, <1>7
  <2>2. size' \in Nat \ {0} /\ size' * bytes <= request.memory
    <3>1. CASE bytes * Count <= request.memory
      <4>1. size' = Count /\ Count # 0
        BY <1>1, <2>1, <3>1 DEF ChunkSize, ExperimentInv, RequestOK
      <4>2. \A x, y \in Nat : x * y = y * x
        OBVIOUS
      <4> QED
        BY <1>2, <1>5, <3>1, <4>1, <4>2
    <3>2. CASE ~(bytes * Count <= request.memory)
      <4> DEFINE n == request.memory \div bytes
      <4>1. bytes > 0
        <5> SUFFICES ASSUME bytes = 0 PROVE FALSE
          BY <1>5
        <5>1. 0 * Count = 0
          BY <1>2
        <5> QED
          BY <1>2, <3>2, <5>1
      <4>2. n \in Nat /\ n * bytes <= request.memory
        BY <1>2, <1>5, <4>1, Divides
      <4>3. size' = MaxOf(1, n)
        BY <2>1, <3>2 DEF ChunkSize
      <4> HIDE DEF n
      <4>4. size' = 1 \/ (size' = n /\ n # 0)
        <5>1. CASE 1 > n
          BY <4>3, <5>1 DEF MaxOf
        <5>2. CASE ~(1 > n)
          <6>1. n # 0
            BY <4>2, <5>2
          <6>2. size' = n
            BY <4>3, <5>2 DEF MaxOf
          <6> QED
            BY <6>1, <6>2
        <5> QED
          BY <5>1, <5>2
      <4> QED
        BY <1>2, <1>5, <1>7, <4>2, <4>4
    <3> QED
      BY <3>1, <3>2
  <2>3. StateOK'
    BY <1>1, <2>1, <2>2 DEF ExperimentInv, StateOK, Phases
  <2>4. RequestOK'
    BY <1>1, <1>2, <2>1 DEF RequestOK, Count
  <2>5. GroupsOK'
    BY <1>1, <1>2, <2>1 DEF GroupsOK, Point, Count
  <2>6. AllPlanned(row_groups)'
    <3>1. Group' = Group /\ Home' = Home /\ \A i : Point(i)' = Point(i)
      BY <1>1 DEF Group, Home, Point
    <3>2. \A l, f : RowAt(l, f)' = RowAt(l, f) /\ (Generates(l, f)' <=> Generates(l, f))
      BY <3>1 DEF RowAt, Generates
    <3>3. row_groups' = rows
      BY <1>1
    <3> QED
      BY <1>3, <3>1, <3>2, <3>3 DEF AllPlanned
  <2>7. PerReplication(row_groups)' = bytes
    BY <1>1 DEF PerReplication, IsCommon, Group, bytes
  <2>8. PlanOK'
    BY <1>1, <2>2, <2>6, <2>7 DEF PlanOK
  <2>9. BlocksOK'
    BY <2>1 DEF BlocksOK
  <2>10. CachesOK'
    BY <1>1, <2>1 DEF ExperimentInv, CachesOK
  <2> QED
    BY <2>3, <2>4, <2>5, <2>8, <2>9, <2>10 DEF ExperimentInv
<1> QED
  BY <1>6, <1>7

(* The group under way, as long as nothing about it changes.                *)
SameGroup ==
  /\ Group' = Group /\ Home' = Home /\ Count' = Count
  /\ \A i : Point(i)' = Point(i)
  /\ \A l, r : SeedAt(l, r)' = SeedAt(l, r)
  /\ \A q : AllPlanned(q) => AllPlanned(q)'
  /\ \A q : PerReplication(q)' = PerReplication(q)
LEMMA SameGroupHolds ==
  ASSUME design' = design, request' = request, groups' = groups, group' = group
  PROVE  SameGroup
<1>1. Group' = Group /\ Home' = Home /\ Count' = Count /\ \A i : Point(i)' = Point(i)
  BY DEF Group, Home, Point, Count
<1>2. \A l, r : SeedAt(l, r)' = SeedAt(l, r)
  BY <1>1 DEF SeedAt
<1>3. \A l, f : RowAt(l, f)' = RowAt(l, f) /\ (Generates(l, f)' <=> Generates(l, f))
  BY <1>1 DEF RowAt, Generates
<1>4. \A q : AllPlanned(q) => AllPlanned(q)'
  BY <1>1, <1>3 DEF AllPlanned
<1>5. \A q : PerReplication(q)' = PerReplication(q)
  BY <1>1 DEF PerReplication, IsCommon
<1> QED
  BY <1>1, <1>2, <1>4, <1>5 DEF SameGroup

(* What the chunk keeps of its group.                                       *)
LEMMA GroupKeeps ==
  ASSUME RequestOK, GroupsOK, PlanOK, phase \in {"bind", "native", "extend"},
         phase' \in {"bind", "native", "extend"},
         design' = design, request' = request, groups' = groups, group' = group,
         size' = size, row_groups' = row_groups, start' \in 0 .. Count - 1
  PROVE  RequestOK' /\ GroupsOK' /\ PlanOK' /\ SameGroup
<1>1. SameGroup
  BY SameGroupHolds
<1>2. RequestOK'
  BY DEF RequestOK, Count
<1>3. GroupsOK'
  BY <1>1 DEF GroupsOK, SameGroup
<1>4. PlanOK'
  BY <1>1 DEF PlanOK, SameGroup
<1> QED
  BY <1>1, <1>2, <1>3, <1>4

(* A trial that starts or is started again.                                 *)
LEMMA FreshIs ==
  ASSUME NEW p, NEW seed, NEW rows, NEW counts, NEW b, b = Fresh(p, seed, rows, counts),
         HasRows(b, rows), HasCounts(b, counts)
  PROVE  Sound(b) /\ Kept(b, b) /\ b.point = p /\ b.seed = seed /\ b.rows = rows
         /\ b.extended = counts
<1>1. /\ DOMAIN b = BlockFields /\ b.status = "new" /\ b.point = p /\ b.seed = seed
      /\ b.rows = rows /\ b.extended = counts /\ b.ran_out = NoRead
  BY DEF Fresh, BlockFields
<1>2. NoRead \in ReadsOf(p)
  BY DEF NoRead, ReadsOf
<1> QED
  BY <1>1, <1>2 DEF Sound, Kept, Statuses

(* A trial that ran is still one of its point and its seed.                 *)
LEMMA PlayedSound ==
  ASSUME NEW b, Sound(b), IsPoint(b.point)
  PROVE  /\ Sound(Played(b)) /\ Played(b).point = b.point /\ Played(b).seed = b.seed
         /\ Played(b).rows = b.rows
<1>1. Kept(b, b)
  BY DEF Sound, Kept
<1>2. Kept(b, Played(b))
  BY <1>1, PlayedIs
<1> DEFINE d == Played(b)
<1> HIDE DEF d
<1>3. Kept(b, d)
  BY <1>2 DEF d
<1>4. Sound(d) /\ d.point = b.point /\ d.seed = b.seed /\ d.rows = b.rows
  BY <1>3 DEF Kept, Sound, HasRows, HasCounts
<1> QED
  BY <1>4 DEF d

(* A chunk is bound to rows of its trials, each as long as it was planned.  *)
LEMMA BindKeeps ==
  ASSUME RawAreNatural, ExperimentInv, BindChunk
  PROVE  ExperimentInv'
<1> DEFINE bound == Bound(cache[Home], request.memory)
           row(p, f, seed) == LET s == SourceOf(p, f)
                              IN  IF Generated(s) THEN bound.rows[RowKey(p, f, seed, BaseLength(p, f))]
                                  ELSE IF s.kind = "trace" THEN s.data ELSE <<>>
           rows(p, seed) == [f \in PartsOf[p.option] |-> row(p, f, seed)]
           none(p) == [f \in PartsOf[p.option] |-> 0]
           block(l, r) == Fresh(Point(Group[l]), SeedAt(l, r), rows(Point(Group[l]), SeedAt(l, r)),
                                none(Point(Group[l])))
<1>1. /\ phase = "bind" /\ phase' = "native"
      /\ cache' = [cache EXCEPT ![Home] = bound.cache]
      /\ blocks' = [t \in (DOMAIN Group) \X ChunkReps |-> block(t[1], t[2])]
      /\ design' = design /\ seeding' = seeding /\ calls' = calls /\ request' = request
      /\ groups' = groups /\ group' = group /\ start' = start /\ size' = size
      /\ row_groups' = row_groups /\ results' = results
  BY DEF BindChunk, plan
<1>2. StateOK /\ RequestOK /\ GroupsOK /\ PlanOK /\ phase # "idle" /\ request.memory \in Nat
  BY <1>1 DEF ExperimentInv, RequestOK
<1>3. AllPlanned(row_groups) /\ row_groups \in Seq(AllKeys)
  BY <1>1, <1>2 DEF PlanOK, AllPlanned
<1>4. Home \in DOMAIN PartsOf /\ DOMAIN cache = DOMAIN PartsOf /\ SoundCache(cache[Home])
  BY <1>2, GroupIs DEF ExperimentInv, CachesOK
<1>5. FetchedSo(bound, Len(row_groups), request.memory)
  BY <1>2, <1>3, <1>4, BoundIs
<1> HIDE DEF bound
<1>6. StateOK'
  BY <1>1, <1>2 DEF StateOK, Phases
<1>7. RequestOK' /\ GroupsOK' /\ PlanOK' /\ SameGroup
  BY <1>1, <1>2, GroupKeeps DEF GroupsOK
<1>8. CachesOK'
  <2>1. /\ SoundCache(bound.cache)
        /\ row_groups # <<>> => Total(bound.cache) <= request.memory
    <3>1. row_groups # <<>> => Len(row_groups) > 0
      BY <1>3
    <3> QED
      BY <1>5, <3>1 DEF FetchedSo
  <2>2. /\ DOMAIN cache' = DOMAIN PartsOf /\ cache'[Home] = bound.cache
        /\ \A o \in DOMAIN PartsOf : SoundCache(cache'[o])
    BY <1>1, <1>4, <2>1 DEF ExperimentInv, CachesOK
  <2>3. Home' = Home /\ row_groups' = row_groups /\ request' = request
    BY <1>1, <1>7 DEF SameGroup
  <2> QED
    BY <2>1, <2>2, <2>3 DEF CachesOK
<1>9. ASSUME NEW t \in (DOMAIN Group) \X ChunkReps
      PROVE  /\ blocks'[t].point = Point(Group[t[1]]) /\ blocks'[t].seed = SeedAt(t[1], t[2])
             /\ Sound(blocks'[t]) /\ AsPlanned(blocks'[t])
  <2> DEFINE p == Point(Group[t[1]])
             s == SeedAt(t[1], t[2])
             w == rows(p, s)
             c == none(p)
             b == blocks'[t]
  <2>1. b = Fresh(p, s, w, c)
    BY <1>1
  <2>2. IsPoint(p) /\ p.option = Home /\ s \in Nat
    BY <1>2, TrialIs
  <2>3. b.point = p /\ b.seed = s
    BY <2>1 DEF Fresh
  <2>4. ASSUME NEW f \in PartsOf[p.option], Generated(SourceOf(p, f))
        PROVE  w[f] = RowOf(RowKey(p, f, s, BaseLength(p, f))) /\ Len(w[f]) = BaseLength(p, f)
               /\ BaseLength(p, f) \in Nat /\ Allowed(p, f, BaseLength(p, f))
    <3> DEFINE k == RowKey(p, f, s, BaseLength(p, f))
    <3>1. BaseLength(p, f) \in Nat /\ Allowed(p, f, BaseLength(p, f))
      BY <2>2, <2>4, SourceIs
    <3>2. Generates(t[1], f) /\ f \in PartsOf[Home]
      BY <2>2, <2>4 DEF Generates
    <3>3. PICK n \in 1 .. Len(row_groups) : k \in KeysFor(row_groups[n])
      BY <1>2, <1>3, <3>2, TakenIsPlanned
    <3>4. k \in DOMAIN bound.rows /\ bound.rows[k] = RowOf(k)
      BY <1>5, <3>3 DEF FetchedSo
    <3>5. k \in AllKeys /\ k.length = BaseLength(p, f)
      <4>1. p.bind[f] \in DOMAIN Sources /\ TagOf(p, f) \in Tags
        BY <2>2, SourceIs
      <4> QED
        BY <2>2, <2>4, <3>1, <4>1 DEF RowKey, AllKeys, SourceOf
    <3>6. w[f] = bound.rows[k]
      BY <2>4
    <3> HIDE DEF k, w
    <3>7. Len(RowOf(k)) = BaseLength(p, f)
      BY <3>5, RowOfIs
    <3>8. w[f] = RowOf(k)
      BY <3>4, <3>6
    <3> QED
      BY <3>1, <3>7, <3>8 DEF k
  <2>5. DOMAIN w = PartsOf[p.option]
    OBVIOUS
  <2>6. c \in [PartsOf[p.option] -> 0 .. Doublings]
    BY CallAssumption
  <2> HIDE DEF w, c, b, p, s
  <2>7. HasRows(b, w) /\ HasCounts(b, c)
    BY <2>3, <2>4, <2>5, <2>6 DEF HasRows, HasCounts
  <2>8. Sound(b) /\ b.rows = w
    BY <2>1, <2>7, FreshIs
  <2>9. AsPlanned(b)
    BY <2>3, <2>4, <2>5, <2>8 DEF AsPlanned
  <2> QED
    BY <2>3, <2>8, <2>9 DEF b, p, s
<1>10. BlocksOK'
  <2>1. DOMAIN blocks' = (DOMAIN Group) \X ChunkReps
    BY <1>1
  <2>2. ChunkReps' = ChunkReps
    BY <1>1, <1>7 DEF ChunkReps, SameGroup
  <2>3. Group' = Group /\ (\A i : Point(i)' = Point(i)) /\ \A l, r : SeedAt(l, r)' = SeedAt(l, r)
    BY <1>7 DEF SameGroup
  <2> HIDE DEF block
  <2>4. \A t \in DOMAIN blocks' : BlockOK(t, blocks[t])' /\ AsPlanned(blocks'[t])
    BY <1>9, <2>1, <2>3 DEF BlockOK
  <2> QED
    BY <2>1, <2>2, <2>3, <2>4 DEF BlocksOK
<1> QED
  BY <1>6, <1>7, <1>8, <1>10 DEF ExperimentInv

(* A trial ran: the block is still one of its trial.                        *)
LEMMA BlocksFollow ==
  ASSUME BlocksOK, phase \in {"native", "extend"}, phase' \in {"native", "extend"},
         SameGroup, ChunkReps' = ChunkReps,
         NEW t \in DOMAIN blocks, NEW d, blocks' = [blocks EXCEPT ![t] = d],
         Sound(d), d.point = blocks[t].point, d.seed = blocks[t].seed,
         phase' = "native" => phase = "native" /\ AsPlanned(d)
  PROVE  BlocksOK'
<1>1. /\ DOMAIN blocks = (DOMAIN Group) \X ChunkReps /\ DOMAIN blocks' = DOMAIN blocks
      /\ \A u \in DOMAIN blocks : BlockOK(u, blocks[u]) /\ (phase = "native" => AsPlanned(blocks[u]))
  BY DEF BlocksOK
<1>2. Group' = Group /\ (\A i : Point(i)' = Point(i)) /\ \A l, r : SeedAt(l, r)' = SeedAt(l, r)
  BY DEF SameGroup
<1>3. ASSUME NEW u \in DOMAIN blocks
      PROVE  BlockOK(u, blocks[u])' /\ (phase' = "native" => AsPlanned(blocks'[u]))
  <2>1. CASE u = t
    <3>1. blocks'[u] = d
      BY <2>1
    <3>2. d.point = Point(Group[u[1]]) /\ d.seed = SeedAt(u[1], u[2])
      BY <1>1, <2>1 DEF BlockOK
    <3> QED
      BY <1>2, <3>1, <3>2 DEF BlockOK
  <2>2. CASE u # t
    <3>1. blocks'[u] = blocks[u]
      BY <2>2
    <3>2. BlockOK(u, blocks[u]) /\ (phase = "native" => AsPlanned(blocks[u]))
      BY <1>1
    <3> QED
      BY <1>2, <3>1, <3>2 DEF BlockOK
  <2> QED
    BY <2>1, <2>2
<1> QED
  BY <1>1, <1>2, <1>3 DEF BlocksOK

LEMMA RunTrialKeeps ==
  ASSUME RawAreNatural, ExperimentInv, NEW t \in DOMAIN blocks, RunTrial(t)
  PROVE  ExperimentInv'
<1> DEFINE b == blocks[t]
           d == Played(b)
<1>1. /\ phase = "native" /\ phase' \in {"native", "extend"}
      /\ blocks' = [blocks EXCEPT ![t] = d]
      /\ design' = design /\ seeding' = seeding /\ calls' = calls /\ request' = request
      /\ groups' = groups /\ group' = group /\ start' = start /\ size' = size
      /\ row_groups' = row_groups /\ results' = results /\ cache' = cache
  BY DEF RunTrial, plan
<1>2. StateOK /\ RequestOK /\ GroupsOK /\ PlanOK /\ BlocksOK /\ CachesOK /\ phase # "idle"
  BY <1>1 DEF ExperimentInv
<1>3. StateOK'
  BY <1>1, <1>2 DEF StateOK, Phases
<1>4. RequestOK' /\ GroupsOK' /\ PlanOK' /\ SameGroup
  BY <1>1, <1>2, GroupKeeps DEF GroupsOK
<1>5. CachesOK'
  BY <1>1, <1>2, <1>4 DEF CachesOK, SameGroup
<1>6. BlockOK(t, b) /\ AsPlanned(b) /\ t \in (DOMAIN Group) \X ChunkReps
  BY <1>1, <1>2 DEF BlocksOK
<1>7. IsPoint(b.point) /\ Sound(b)
  BY <1>2, <1>6, TrialIs DEF BlockOK
<1>8. Sound(d) /\ d.point = b.point /\ d.seed = b.seed /\ d.rows = b.rows
  BY <1>7, PlayedSound
<1> HIDE DEF d
<1>9. AsPlanned(d)
  BY <1>6, <1>8 DEF AsPlanned
<1>10. ChunkReps' = ChunkReps
  BY <1>1, <1>4 DEF ChunkReps, SameGroup
<1>11. BlocksOK'
  BY <1>1, <1>2, <1>4, <1>8, <1>9, <1>10, BlocksFollow
<1> QED
  BY <1>3, <1>4, <1>5, <1>11 DEF ExperimentInv

(* There is a first trial that ran out.                                     *)
LEMMA FirstExhausted ==
  ASSUME StateOK, RequestOK, GroupsOK, BlocksOK, phase = "extend", Exhausted # {}
  PROVE  \E u \in Exhausted : \A v \in Exhausted \ {u} : Earlier(u, v)
<1>1. \A u \in Exhausted : u[1] \in Nat /\ u[2] \in Nat /\ u = <<u[1], u[2]>>
  <2>1. Exhausted \subseteq (DOMAIN Group) \X ChunkReps
    BY DEF Exhausted, BlocksOK
  <2>2. DOMAIN Group \subseteq Nat /\ ChunkReps \subseteq Nat
    <3>1. DOMAIN Group = 1 .. Len(Group) /\ Len(Group) \in Nat /\ ChunkReps \in SUBSET (1 .. Count)
      BY GroupIs
    <3>2. Count \in Nat
      BY DEF RequestOK
    <3> QED
      BY <3>1, <3>2
  <2>3. Exhausted \subseteq Nat \X Nat
    BY <2>1, <2>2
  <2> QED
    BY <2>3
<1> DEFINE S == {u[1] : u \in Exhausted}
<1>2. PICK w \in Exhausted : TRUE
  OBVIOUS
<1>3. S \in SUBSET Nat /\ w[1] \in S
  BY <1>1, <1>2
<1>4. PICK m \in S : \A x \in S : m <= x
  BY <1>3, LeastNatural
<1> DEFINE T == {u[2] : u \in {u \in Exhausted : u[1] = m}}
<1>5. PICK y \in Exhausted : y[1] = m
  BY <1>4
<1>6. T \in SUBSET Nat /\ y[2] \in T
  BY <1>1, <1>5
<1>7. PICK n \in T : \A x \in T : n <= x
  BY <1>6, LeastNatural
<1>8. PICK u \in Exhausted : u[1] = m /\ u[2] = n
  BY <1>7
<1>9. ASSUME NEW v \in Exhausted \ {u} PROVE Earlier(u, v)
  <2>1. m <= v[1] /\ v[1] \in Nat /\ v[2] \in Nat /\ m \in Nat /\ n \in Nat
    BY <1>1, <1>3, <1>4, <1>6, <1>7
  <2>2. v[1] = m => n <= v[2]
    BY <1>7
  <2>3. ~(v[1] = m /\ v[2] = n)
    BY <1>1, <1>8
  <2> QED
    BY <1>8, <2>1, <2>2, <2>3 DEF Earlier
<1> QED
  BY <1>8, <1>9

(* A trial that ran out of a row: longer rows, or its end.                  *)
LEMMA ExtendKeeps ==
  ASSUME RawAreNatural, ExperimentInv, Extend
  PROVE  ExperimentInv'
<1> DEFINE t   == CHOOSE t \in Exhausted : \A u \in Exhausted \ {t} : Earlier(t, u)
           b   == blocks[t]
           c   == cache[Home]
           all == Extended(b, c, request.memory)
           e   == Replayed(b, all.rows, all.extended)
           d   == IF Len(Extensible(b)) < Len(Targets(b)) \/ Targets(b) = <<>>
                  THEN [b EXCEPT !.status = "failed", !.extended = all.extended]
                  ELSE Played(e)
<1>1. /\ phase = "extend" /\ phase' = "extend" /\ Exhausted # {}
      /\ cache' = [cache EXCEPT ![Home] = all.cache]
      /\ blocks' = [blocks EXCEPT ![t] = d]
      /\ design' = design /\ seeding' = seeding /\ calls' = calls /\ request' = request
      /\ groups' = groups /\ group' = group /\ start' = start /\ size' = size
      /\ row_groups' = row_groups /\ results' = results
  BY DEF Extend, plan
<1>2. /\ StateOK /\ RequestOK /\ GroupsOK /\ PlanOK /\ BlocksOK /\ CachesOK /\ phase # "idle"
      /\ request.memory \in Nat
  BY <1>1 DEF ExperimentInv, RequestOK
<1>3. StateOK'
  BY <1>1, <1>2 DEF StateOK, Phases
<1>4. RequestOK' /\ GroupsOK' /\ PlanOK' /\ SameGroup
  BY <1>1, <1>2, GroupKeeps DEF GroupsOK
<1>5. t \in DOMAIN blocks /\ b.status = "exhausted"
  <2>1. \E u \in Exhausted : \A v \in Exhausted \ {u} : Earlier(u, v)
    BY <1>1, <1>2, FirstExhausted
  <2>2. t \in Exhausted
    BY <2>1
  <2> HIDE DEF t
  <2> QED
    BY <2>2 DEF Exhausted
<1> HIDE DEF t
<1>6. BlockOK(t, b) /\ t \in (DOMAIN Group) \X ChunkReps
  BY <1>1, <1>2, <1>5 DEF BlocksOK
<1>7. /\ IsPoint(b.point) /\ Sound(b) /\ b.seed \in Nat /\ b.point.option = Home
      /\ HasRows(b, b.rows) /\ HasCounts(b, b.extended)
      /\ b.ran_out \in ReadsOf(b.point) /\ b.ran_out.field # None
  BY <1>2, <1>5, <1>6, TrialIs DEF BlockOK, Sound
<1>8. Home \in DOMAIN PartsOf /\ DOMAIN cache = DOMAIN PartsOf /\ SoundCache(c)
  BY <1>2, GroupIs DEF CachesOK
<1>9. ExtendedSo(b, all, c, request.memory)
  BY <1>2, <1>7, <1>8, ExtendedIs
<1> HIDE DEF all, b
<1>10. Sound(d) /\ d.point = b.point /\ d.seed = b.seed
  <2>1. CASE Len(Extensible(b)) < Len(Targets(b)) \/ Targets(b) = <<>>
    <3>1. d = [b EXCEPT !.status = "failed", !.extended = all.extended]
      BY <2>1
    <3>2. /\ DOMAIN d = BlockFields /\ d.status = "failed" /\ d.extended = all.extended
          /\ d.rows = b.rows /\ d.point = b.point /\ d.seed = b.seed /\ d.ran_out = b.ran_out
      BY <1>7, <3>1 DEF Sound, BlockFields
    <3> HIDE DEF d
    <3> QED
      BY <1>7, <1>9, <3>2 DEF Sound, Statuses, HasRows, HasCounts, ExtendedSo
  <2>2. CASE ~(Len(Extensible(b)) < Len(Targets(b)) \/ Targets(b) = <<>>)
    <3>1. d = Played(e)
      BY <2>2
    <3>2. e = Fresh(b.point, b.seed, all.rows, all.extended)
      BY DEF Replayed
    <3> HIDE DEF d, e
    <3>3. e.point = b.point /\ e.seed = b.seed
      BY <3>2 DEF Fresh
    <3>4. HasRows(e, all.rows) /\ HasCounts(e, all.extended)
      BY <1>9, <3>3 DEF ExtendedSo, HasRows, HasCounts
    <3>5. Sound(e)
      BY <3>2, <3>4, FreshIs
    <3> QED
      BY <1>7, <3>1, <3>3, <3>5, PlayedSound
  <2> QED
    BY <2>1, <2>2
<1> HIDE DEF d
<1>11. ChunkReps' = ChunkReps
  BY <1>1, <1>4 DEF ChunkReps, SameGroup
<1>12. BlocksOK'
  BY <1>1, <1>2, <1>4, <1>5, <1>10, <1>11, BlocksFollow DEF b
<1>13. CachesOK'
  <2>1. /\ DOMAIN cache' = DOMAIN PartsOf /\ cache'[Home] = all.cache
        /\ \A o \in DOMAIN PartsOf : SoundCache(cache'[o])
    BY <1>1, <1>2, <1>8, <1>9 DEF CachesOK, ExtendedSo
  <2>2. row_groups # <<>> => Total(all.cache) <= request.memory
    BY <1>1, <1>2, <1>9 DEF CachesOK, ExtendedSo
  <2>3. Home' = Home
    BY <1>4 DEF SameGroup
  <2> QED
    BY <1>1, <2>1, <2>2, <2>3 DEF CachesOK
<1> QED
  BY <1>3, <1>4, <1>12, <1>13 DEF ExperimentInv

(* A chunk, a group or the call ends.                                       *)
LEMMA CollectKeeps ==
  ASSUME ExperimentInv, Collect
  PROVE  ExperimentInv'
<1>1. /\ phase = "extend" /\ design' = design /\ seeding' = seeding /\ calls' = calls
      /\ request' = request /\ cache' = cache
  BY DEF Collect, plan
<1>2. \/ phase' = "idle" /\ results' = "raised" /\ size' = size
      \/ /\ phase' = "bind" /\ ~(start + size >= Count) /\ start' = start + size /\ size' = size
         /\ groups' = groups /\ group' = group /\ row_groups' = row_groups /\ results' = results
      \/ /\ phase' = "plan" /\ group < Len(groups) /\ group' = group + 1 /\ start' = 0
         /\ groups' = groups /\ size' = size /\ results' = results
      \/ phase' = "idle" /\ results' = "done" /\ size' = size
  BY DEF Collect, work
<1>3. StateOK /\ RequestOK /\ GroupsOK /\ PlanOK /\ BlocksOK /\ CachesOK /\ phase # "idle"
  BY <1>1 DEF ExperimentInv
<1>4. StateOK'
  BY <1>1, <1>2, <1>3 DEF StateOK, Phases
<1>5. CASE phase' = "idle"
  BY <1>1, <1>3, <1>4, <1>5
     DEF ExperimentInv, RequestOK, GroupsOK, PlanOK, BlocksOK, CachesOK
<1>6. CASE /\ phase' = "bind" /\ ~(start + size >= Count) /\ start' = start + size /\ size' = size
           /\ groups' = groups /\ group' = group /\ row_groups' = row_groups
  <2>1. start \in Nat /\ size \in Nat /\ Count \in Nat
    BY <1>3 DEF StateOK, RequestOK, GroupsOK
  <2>2. start' \in 0 .. Count - 1
    BY <1>6, <2>1
  <2>3. RequestOK' /\ GroupsOK' /\ PlanOK' /\ SameGroup
    BY <1>1, <1>3, <1>6, <2>2, GroupKeeps
  <2>4. BlocksOK' /\ CachesOK'
    BY <1>1, <1>3, <1>6 DEF BlocksOK, CachesOK
  <2> QED
    BY <1>4, <2>3, <2>4 DEF ExperimentInv
<1>7. CASE /\ phase' = "plan" /\ group < Len(groups) /\ group' = group + 1 /\ start' = 0
           /\ groups' = groups
  <2>1. RequestOK'
    BY <1>1, <1>3, <1>7 DEF RequestOK, Count
  <2>2. group' \in 1 .. Len(groups) /\ start' \in 0 .. Count - 1
    BY <1>3, <1>7 DEF GroupsOK, RequestOK
  <2>3. Count' = Count /\ \A i : Point(i)' = Point(i)
    BY <1>1 DEF Count, Point
  <2>4. GroupsOK'
    BY <1>1, <1>3, <1>7, <2>2, <2>3 DEF GroupsOK
  <2>5. PlanOK' /\ BlocksOK' /\ CachesOK'
    BY <1>1, <1>3, <1>7 DEF PlanOK, BlocksOK, CachesOK
  <2> QED
    BY <1>4, <2>1, <2>4, <2>5 DEF ExperimentInv
<1> QED
  BY <1>2, <1>5, <1>6, <1>7

LEMMA StepKeepsInv ==
  ASSUME RawAreNatural, ExperimentInv, [Next]_vars
  PROVE  ExperimentInv'
<1>1. CASE User
  BY <1>1, UserKeeps
<1>2. CASE Plan
  BY <1>2, PlanKeeps
<1>3. CASE BindChunk
  BY <1>3, BindKeeps
<1>4. ASSUME NEW t \in DOMAIN blocks, RunTrial(t) PROVE ExperimentInv'
  BY <1>4, RunTrialKeeps
<1>5. CASE Extend
  BY <1>5, ExtendKeeps
<1>6. CASE Collect
  BY <1>6, CollectKeeps
<1>7. CASE UNCHANGED vars
  <2>1. /\ design' = design /\ seeding' = seeding /\ phase' = phase /\ calls' = calls
        /\ request' = request /\ groups' = groups /\ group' = group /\ start' = start
        /\ size' = size /\ row_groups' = row_groups /\ blocks' = blocks /\ results' = results
        /\ cache' = cache
    BY <1>7 DEF vars, plan, work
  <2>2. StateOK /\ RequestOK /\ GroupsOK /\ PlanOK /\ BlocksOK /\ CachesOK
    BY DEF ExperimentInv
  <2>3. SameGroup
    BY <2>1, SameGroupHolds
  <2>4. StateOK' /\ RequestOK'
    BY <2>1, <2>2 DEF StateOK, RequestOK, Count
  <2>5. GroupsOK' /\ PlanOK' /\ CachesOK'
    BY <2>1, <2>2, <2>3 DEF GroupsOK, PlanOK, CachesOK, SameGroup
  <2>6. ChunkReps' = ChunkReps
    BY <2>1, <2>3 DEF ChunkReps, SameGroup
  <2>7. \A t, b : BlockOK(t, b) => BlockOK(t, b)'
    BY <2>3 DEF BlockOK, SameGroup
  <2>8. BlocksOK'
    BY <2>1, <2>2, <2>3, <2>6, <2>7 DEF BlocksOK, SameGroup
  <2> QED
    BY <2>4, <2>5, <2>8 DEF ExperimentInv
<1> QED
  BY <1>1, <1>2, <1>3, <1>4, <1>5, <1>6, <1>7 DEF Next, Progress

-----------------------------------------------------------------------------
(* What the invariant says of the state *)

LEMMA TypeFollows ==
  ASSUME RawAreNatural, ExperimentInv
  PROVE  TypeOK
<1>1. StateOK /\ RequestOK /\ GroupsOK /\ PlanOK /\ BlocksOK /\ CachesOK
  BY DEF ExperimentInv
<1>2. phase # "idle" => group \in DOMAIN groups /\ start \in 0 .. Count - 1
  BY <1>1 DEF GroupsOK
<1>3. ASSUME phase \in {"native", "extend"}
      PROVE  /\ DOMAIN blocks = (DOMAIN Group) \X (start + 1 .. MinOf(start + size, Count))
             /\ \A t \in DOMAIN blocks :
                  /\ blocks[t].status \in {"new", "success", "failed", "exhausted"}
                  /\ blocks[t].ran_out \in [field : Range(Fields) \cup {None}, clone : BOOLEAN,
                                            bucket : Int]
                  /\ \A f \in DOMAIN blocks[t].rows : blocks[t].extended[f] \in 0 .. Doublings
  <2>1. phase # "idle"
    BY <1>3
  <2>2. DOMAIN blocks = (DOMAIN Group) \X ChunkReps
    BY <1>1, <1>3 DEF BlocksOK
  <2>3. ASSUME NEW t \in DOMAIN blocks
        PROVE  /\ blocks[t].status \in Statuses
               /\ blocks[t].ran_out \in [field : Range(Fields) \cup {None}, clone : BOOLEAN,
                                         bucket : Int]
               /\ \A f \in DOMAIN blocks[t].rows : blocks[t].extended[f] \in 0 .. Doublings
    <3> DEFINE b == blocks[t]
    <3>1. BlockOK(t, b) /\ t \in (DOMAIN Group) \X ChunkReps
      BY <1>1, <1>3, <2>2 DEF BlocksOK
    <3>2. Sound(b) /\ IsPoint(b.point)
      BY <1>1, <2>1, <3>1, TrialIs DEF BlockOK
    <3> HIDE DEF b
    <3>3. PartsOf[b.point.option] \subseteq Range(Fields)
      BY <3>2, FieldAssumption DEF IsPoint
    <3>4. b.ran_out \in [field : Range(Fields) \cup {None}, clone : BOOLEAN, bucket : Int]
      BY <3>2, <3>3 DEF Sound, ReadsOf
    <3>5. b.status \in Statuses /\ \A f \in DOMAIN b.rows : b.extended[f] \in 0 .. Doublings
      BY <3>2 DEF Sound, HasRows, HasCounts
    <3> QED
      BY <3>4, <3>5 DEF b
  <2> QED
    BY <2>2, <2>3 DEF ChunkReps, Statuses
<1>4. \A o \in DOMAIN cache : \A e \in Entries(cache[o]) : Len(e.row) = e.key.length
  <2> TAKE o \in DOMAIN cache
  <2> TAKE e \in Entries(cache[o])
  <2>1. SoundCache(cache[o])
    BY <1>1 DEF CachesOK
  <2>2. e \in AllEntries
    BY <2>1 DEF SoundCache, Entries
  <2> QED
    BY <2>2, EntryIs
<1> QED
  BY <1>1, <1>2, <1>3, <1>4 DEF TypeOK, StateOK

(* Each entry of a sound cache has a key of its own.                        *)
LEMMA KeysCount ==
  ASSUME NEW c, SoundCache(c)
  PROVE  Cardinality(Cached(c)) = Len(c)
<1> DEFINE f == [i \in 1 .. Len(c) |-> c[i].key]
<1>1. Len(c) \in Nat /\ DOMAIN c = 1 .. Len(c)
  BY DEF SoundCache
<1>2. f \in Bijection(1 .. Len(c), Cached(c))
  <2>1. f \in [1 .. Len(c) -> Cached(c)]
    BY <1>1 DEF Cached
  <2>2. \A i, j \in 1 .. Len(c) : f[i] = f[j] => i = j
    BY DEF SoundCache
  <2>3. \A k \in Cached(c) : \E i \in 1 .. Len(c) : f[i] = k
    BY <1>1 DEF Cached
  <2> HIDE DEF f
  <2>4. f \in Injection(1 .. Len(c), Cached(c))
    BY <2>1, <2>2 DEF Injection, IsInjective
  <2>5. f \in Surjection(1 .. Len(c), Cached(c))
    BY <2>1, <2>3 DEF Surjection
  <2> QED
    BY <2>4, <2>5 DEF Bijection
<1>3. ExistsBijection(1 .. Len(c), Cached(c))
  BY <1>2 DEF ExistsBijection
<1> QED
  BY <1>1, <1>3, FS_CountingElements

LEMMA CacheFollows ==
  ASSUME RawAreNatural, ExperimentInv
  PROVE  CacheSound
<1>1. TypeOK
  BY TypeFollows
<1>2. CachesOK /\ phase \in {"native", "extend"} /\ row_groups # <<>>
      => Total(cache[Home]) <= request.memory
  BY DEF CachesOK
<1>3. ASSUME NEW o \in DOMAIN cache
      PROVE  /\ \A e \in Entries(cache[o]) : e.row = RowOf(e.key)
             /\ Cardinality(Cached(cache[o])) = Len(cache[o])
             /\ phase \in {"native", "extend"} /\ row_groups # <<>> /\ o = Home
                => Total(cache[o]) <= request.memory
  <2>1. SoundCache(cache[o])
    BY DEF ExperimentInv, CachesOK
  <2>2. \A e \in Entries(cache[o]) : e.row = RowOf(e.key)
    <3> TAKE e \in Entries(cache[o])
    <3>1. e \in AllEntries
      BY <2>1 DEF SoundCache, Entries
    <3> QED
      BY <3>1, EntryIs
  <2> QED
    BY <1>2, <2>1, <2>2, KeysCount DEF ExperimentInv
<1>4. phase = "native" =>
        FoldFunction(LAMBDA x, y : x + y, 0, [k \in BoundKeys |-> k.length]) <= request.memory
  BY BoundFits
<1> QED
  BY <1>1, <1>3, <1>4 DEF CacheSound

-----------------------------------------------------------------------------
(* The theorems about caches and rows *)

(* Every reachable state of an experiment satisfies the invariant, whatever *)
(* the design, the sources, the memory, the options and the reads of the    *)
(* trials, as long as the raw numbers of a generator are natural.           *)
THEOREM ExperimentInvHolds ==
  ASSUME RawAreNatural
  PROVE  Spec => []ExperimentInv
<1>1. Init => ExperimentInv
  BY InitKeeps
<1>2. ExperimentInv /\ [Next]_vars => ExperimentInv'
  BY StepKeepsInv
<1> QED
  BY <1>1, <1>2, PTL DEF Spec

(* A cached row is the row of its key, no row is cached twice, and neither  *)
(* the cache nor the rows of a chunk exceed the memory for input rows.      *)
THEOREM CacheIsSound ==
  ASSUME RawAreNatural
  PROVE  Spec => []CacheSound
<1>1. ExperimentInv => CacheSound
  BY CacheFollows
<1> QED
  BY <1>1, ExperimentInvHolds, PTL

(* A longer row of a stable source begins with the shorter one, and joint   *)
(* members stay aligned in a trial, whatever their lengths.                 *)
THEOREM RowsAlwaysAgree ==
  ASSUME RawAreNatural
  PROVE  Spec => []RowsAgree
<1>1. ExperimentInv => RowsAgree
  BY PrefixFollows, JointFollows DEF ExperimentInv, RowsAgree
<1> QED
  BY <1>1, ExperimentInvHolds, PTL

-----------------------------------------------------------------------------
(* Powers of two *)

(* Doubling: powers of two count subsets.                                   *)
LEMMA SubsetsDouble ==
  ASSUME NEW S, IsFiniteSet(S), NEW x, x \notin S
  PROVE  /\ IsFiniteSet(SUBSET S) /\ IsFiniteSet(SUBSET (S \cup {x}))
         /\ Cardinality(SUBSET S) \in Nat
         /\ Cardinality(SUBSET (S \cup {x})) = 2 * Cardinality(SUBSET S)
<1> DEFINE A == SUBSET S
           B == {T \cup {x} : T \in A}
<1>1. IsFiniteSet(A) /\ Cardinality(A) \in Nat
  BY FS_SUBSET, FS_CardinalityType
<1>2. [T \in A |-> T \cup {x}] \in Bijection(A, B)
  <2> DEFINE m == [T \in A |-> T \cup {x}]
  <2>1. m \in [A -> B]
    OBVIOUS
  <2>2. \A T, U \in A : m[T] = m[U] => T = U
    <3> SUFFICES ASSUME NEW T \in A, NEW U \in A, m[T] = m[U] PROVE T = U
      OBVIOUS
    <3>1. T \cup {x} = U \cup {x}
      OBVIOUS
    <3>2. x \notin T /\ x \notin U
      OBVIOUS
    <3> QED
      BY <3>1, <3>2
  <2>3. \A V \in B : \E T \in A : m[T] = V
    OBVIOUS
  <2> HIDE DEF m
  <2>4. m \in Injection(A, B)
    BY <2>1, <2>2 DEF Injection, IsInjective
  <2>5. m \in Surjection(A, B)
    BY <2>1, <2>3 DEF Surjection
  <2>6. m \in Bijection(A, B)
    BY <2>4, <2>5 DEF Bijection
  <2> QED
    BY <2>6 DEF m
<1>3. ExistsBijection(A, B)
  BY <1>2 DEF ExistsBijection
<1>4. IsFiniteSet(B) /\ Cardinality(B) = Cardinality(A)
  BY <1>1, <1>3, FS_Bijection
<1>5. A \cap B = {}
  OBVIOUS
<1>6. A \cup B = SUBSET (S \cup {x})
  <2>1. \A T \in SUBSET (S \cup {x}) : T \in A \/ T \in B
    <3> TAKE T \in SUBSET (S \cup {x})
    <3>1. CASE x \notin T
      BY <3>1
    <3>2. CASE x \in T
      <4>1. T \ {x} \in A /\ T = (T \ {x}) \cup {x}
        BY <3>2
      <4> QED
        BY <4>1
    <3> QED
      BY <3>1, <3>2
  <2>2. \A T \in A \cup B : T \in SUBSET (S \cup {x})
    OBVIOUS
  <2> HIDE DEF A, B
  <2> QED
    BY <2>1, <2>2
<1> HIDE DEF A, B
<1>7. /\ IsFiniteSet(A \cup B)
      /\ Cardinality(A \cup B) = Cardinality(A) + Cardinality(B) - Cardinality(A \cap B)
  BY <1>1, <1>4, FS_Union
<1>8. Cardinality(A \cap B) = 0
  BY <1>5, FS_EmptySet
<1>9. Cardinality(A \cup B) = 2 * Cardinality(A)
  BY <1>1, <1>4, <1>7, <1>8
<1> QED
  BY <1>1, <1>6, <1>7, <1>9 DEF A

LEMMA PowerDoubles ==
  /\ 2 ^ 0 = 1
  /\ \A n \in Nat : 2 ^ n \in Nat \ {0} /\ 2 ^ (n + 1) = 2 * 2 ^ n
<1>1. ASSUME NEW n \in Nat
      PROVE  /\ IsFiniteSet(1 .. n) /\ Cardinality(SUBSET (1 .. n)) = 2 ^ n
             /\ Cardinality(1 .. n) = n
  <2>1. IsFiniteSet(1 .. n) /\ Cardinality(1 .. n) = n
    BY FS_Interval
  <2>2. Cardinality(SUBSET (1 .. n)) = 2 ^ Cardinality(1 .. n)
    BY <2>1, FS_SUBSET
  <2> QED
    BY <2>1, <2>2
<1>2. 2 ^ 0 = 1
  <2>1. SUBSET (1 .. 0) = {{}}
    OBVIOUS
  <2>2. Cardinality({{}}) = 1
    BY FS_Singleton
  <2>3. 2 ^ 0 = Cardinality(SUBSET (1 .. 0))
    BY <1>1
  <2> QED
    BY <2>1, <2>2, <2>3
<1>3. ASSUME NEW n \in Nat PROVE 2 ^ n \in Nat \ {0} /\ 2 ^ (n + 1) = 2 * 2 ^ n
  <2>1. 1 .. (n + 1) = (1 .. n) \cup {n + 1} /\ n + 1 \notin 1 .. n /\ n + 1 \in Nat
    OBVIOUS
  <2>2. IsFiniteSet(1 .. n) /\ Cardinality(SUBSET (1 .. n)) = 2 ^ n
    BY <1>1
  <2>3. Cardinality(SUBSET (1 .. (n + 1))) = 2 ^ (n + 1)
    BY <1>1, <2>1
  <2>4. /\ IsFiniteSet(SUBSET (1 .. n)) /\ Cardinality(SUBSET (1 .. n)) \in Nat
        /\ Cardinality(SUBSET ((1 .. n) \cup {n + 1})) = 2 * Cardinality(SUBSET (1 .. n))
    BY <2>1, <2>2, SubsetsDouble
  <2>5. Cardinality(SUBSET (1 .. n)) # 0
    <3>1. {} \in SUBSET (1 .. n)
      OBVIOUS
    <3> QED
      BY <2>4, <3>1, FS_EmptySet
  <2>6. 2 ^ (n + 1) = 2 * Cardinality(SUBSET (1 .. n))
    BY <2>1, <2>3, <2>4
  <2> QED
    BY <2>2, <2>4, <2>5, <2>6
<1> QED
  BY <1>2, <1>3

LEMMA PowerGrows ==
  ASSUME NEW m \in Nat, NEW n \in Nat, m < n
  PROVE  2 * 2 ^ m <= 2 ^ n
<1> DEFINE N == n - (m + 1)
           T == {k \in 0 .. N : 2 * 2 ^ m <= 2 ^ (m + 1 + k)}
<1>1. N \in Nat /\ m + 1 + N = n /\ m + 1 \in Nat
  OBVIOUS
<1>2. 0 \in T
  <2>1. 2 ^ (m + 1) = 2 * 2 ^ m /\ 2 ^ m \in Nat
    BY PowerDoubles
  <2>2. m + 1 + 0 = m + 1
    OBVIOUS
  <2>3. 2 ^ (m + 1 + 0) = 2 * 2 ^ m
    BY <2>1, <2>2
  <2> QED
    BY <1>1, <2>1, <2>3
<1>3. ASSUME NEW k \in 0 .. N - 1, k \in T PROVE k + 1 \in T
  <2> DEFINE j == m + 1 + k
  <2>1. j \in Nat /\ m + 1 + (k + 1) = j + 1 /\ k + 1 \in 0 .. N
    BY <1>1
  <2>2. 2 ^ j \in Nat /\ 2 ^ m \in Nat /\ 2 ^ (j + 1) = 2 * 2 ^ j
    BY <2>1, PowerDoubles
  <2>3. 2 * 2 ^ m <= 2 ^ j
    BY <1>3
  <2> HIDE DEF j
  <2>4. 2 * 2 ^ m <= 2 ^ (j + 1)
    BY <2>2, <2>3
  <2>5. 2 * 2 ^ m <= 2 ^ (m + 1 + (k + 1))
    BY <2>1, <2>4
  <2> QED
    BY <2>1, <2>5
<1>4. N \in T
  <2> HIDE DEF T
  <2>1. 0 .. N \subseteq T
    BY <1>1, <1>2, <1>3, CountsUp
  <2> QED
    BY <1>1, <2>1
<1> QED
  BY <1>1, <1>4

-----------------------------------------------------------------------------
(* One read of a trial *)

Counters(p)      == [PartsOf[p.option] -> Nat]
Running(d)       == d.own \in Counters(d.point) /\ d.clone \in Counters(d.point)
Cursors(d, read) == IF read.clone THEN d.clone ELSE d.own
Place(d, read)   == IF read.bucket < 0 THEN Cursors(d, read)[read.field] + 1 ELSE read.bucket + 1
TakenBy(d, read) == SlotRead(d.point, d.seed, d.rows, Place(d, read), read)

(* A read ends the trial, or gives a value and moves a cursor.              *)
Ended(d, e, read) ==
  /\ e.status = TakenBy(d, read).end /\ e.status \in {"failed", "success", "exhausted"}
  /\ e.seen = d.seen /\ e.own = d.own /\ e.clone = d.clone
  /\ e.status = "exhausted" => e.ran_out = read
Went(d, e, read) ==
  /\ TakenBy(d, read).end = None /\ e.status = "new"
  /\ e.seen = Append(d.seen, <<read, TakenBy(d, read).value>>)
  /\ e.own = IF read.clone THEN d.own
             ELSE [d.own EXCEPT ![read.field] = MaxOf(@, Place(d, read))]
  /\ e.clone = IF read.clone THEN [d.clone EXCEPT ![read.field] = MaxOf(@, Place(d, read))]
               ELSE d.clone
LEMMA ReadGoes ==
  ASSUME NEW b, NEW d, Kept(b, d), IsPoint(b.point), d.status = "new",
         NEW read \in ReadsOf(b.point), ~IsFault(read)
  PROVE  Ended(d, Step(d, read), read) \/ Went(d, Step(d, read), read)
<1> DEFINE taken   == TakenBy(d, read)
           moved   == [Cursors(d, read) EXCEPT ![read.field] = MaxOf(@, Place(d, read))]
<1>1. Step(d, read) =
        IF taken.end # None
        THEN [d EXCEPT !.status = taken.end,
                !.ran_out = IF taken.end = "exhausted" THEN read ELSE NoRead]
        ELSE [d EXCEPT !.seen = Append(@, <<read, taken.value>>),
                !.own = IF read.clone THEN @ ELSE moved,
                !.clone = IF read.clone THEN moved ELSE @]
  BY DEF Step, TakenBy, Place, Cursors
<1>2. taken.end \in {None, "failed", "success", "exhausted"}
  BY SlotReadIs DEF Kept, TakenBy
<1>3. DOMAIN d = BlockFields
  BY DEF Kept
<1> HIDE DEF taken
<1>4. CASE taken.end # None
  <2> DEFINE last == IF taken.end = "exhausted" THEN read ELSE NoRead
             e    == [d EXCEPT !.status = taken.end, !.ran_out = last]
  <2>1. Step(d, read) = e
    BY <1>1, <1>4
  <2>2. /\ e.status = taken.end /\ e.seen = d.seen /\ e.own = d.own /\ e.clone = d.clone
        /\ e.ran_out = last
    BY <1>3 DEF BlockFields
  <2>3. taken.end \in {"failed", "success", "exhausted"}
    BY <1>2, <1>4
  <2> HIDE DEF e
  <2> QED
    BY <2>1, <2>2, <2>3 DEF Ended, taken
<1>5. CASE taken.end = None
  <2> DEFINE more == Append(d.seen, <<read, taken.value>>)
             own  == IF read.clone THEN d.own ELSE moved
             copy == IF read.clone THEN moved ELSE d.clone
             e    == [d EXCEPT !.seen = more, !.own = own, !.clone = copy]
  <2>1. Step(d, read) = e
    BY <1>1, <1>5
  <2> HIDE DEF more, own, copy
  <2>2. e.status = d.status /\ e.seen = more /\ e.own = own /\ e.clone = copy
    BY <1>3 DEF BlockFields
  <2> HIDE DEF e
  <2>3. /\ own = IF read.clone THEN d.own ELSE [d.own EXCEPT ![read.field] = MaxOf(@, Place(d, read))]
        /\ copy = IF read.clone THEN [d.clone EXCEPT ![read.field] = MaxOf(@, Place(d, read))]
                  ELSE d.clone
    BY DEF own, copy, Cursors
  <2> QED
    BY <1>5, <2>1, <2>2, <2>3 DEF Went, taken, more
<1> QED
  BY <1>4, <1>5

(* Cursors stay natural numbers and never go back.                          *)
LEMMA CursorsGrow ==
  ASSUME NEW b, NEW d, Kept(b, d), IsPoint(b.point), Running(d), NEW read \in ReadsOf(b.point)
  PROVE  /\ Running(Step(d, read))
         /\ \A x \in PartsOf[b.point.option] : d.own[x] <= Step(d, read).own[x]
         /\ d.status # "new" => Step(d, read) = d
         /\ d.status = "new" /\ ~IsFault(read) => Place(d, read) \in Nat \ {0}
<1> DEFINE P == PartsOf[b.point.option]
           e == Step(d, read)
<1>1. d.own \in [P -> Nat] /\ d.clone \in [P -> Nat] /\ d.point = b.point
  BY DEF Running, Counters, Kept
<1>2. e.point = d.point
  BY StepKeeps DEF Kept
<1>3. CASE d.status # "new"
  <2>1. e = d
    BY <1>3 DEF Step
  <2> QED
    BY <1>1, <1>3, <2>1 DEF Running
<1>4. CASE d.status = "new" /\ IsFault(read)
  <2>1. e = [d EXCEPT !.status = "failed"]
    BY <1>4 DEF Step
  <2>2. e.own = d.own /\ e.clone = d.clone
    BY <2>1 DEF Kept, BlockFields
  <2> HIDE DEF e
  <2> QED
    BY <1>1, <1>2, <1>4, <2>2 DEF e, Running, Counters
<1>5. CASE d.status = "new" /\ ~IsFault(read)
  <2>1. read.field \in P /\ read.bucket \in Nat \cup {-1}
    BY <1>5 DEF ReadsOf, IsFault
  <2>2. Place(d, read) \in Nat \ {0}
    <3>1. Cursors(d, read)[read.field] \in Nat
      BY <1>1, <2>1 DEF Cursors
    <3> QED
      BY <2>1, <3>1 DEF Place
  <2>3. \A x \in Nat : MaxOf(x, Place(d, read)) \in Nat /\ x <= MaxOf(x, Place(d, read))
    BY <2>2 DEF MaxOf
  <2>4. CASE Ended(d, e, read)
    <3>1. e.own = d.own /\ e.clone = d.clone
      BY <2>4 DEF Ended
    <3> HIDE DEF e
    <3> QED
      BY <1>1, <1>2, <1>5, <2>2, <3>1 DEF e, Running, Counters
  <2>5. CASE Went(d, e, read)
    <3> DEFINE more(c) == [c EXCEPT ![read.field] = MaxOf(@, Place(d, read))]
    <3>1. \A c \in [P -> Nat] : more(c) \in [P -> Nat] /\ \A x \in P : c[x] <= more(c)[x]
      BY <2>1, <2>3
    <3>2. /\ e.own = d.own \/ e.own = more(d.own)
          /\ e.clone = d.clone \/ e.clone = more(d.clone)
      BY <2>5 DEF Went
    <3> HIDE DEF e, more
    <3>3. e.own \in [P -> Nat] /\ e.clone \in [P -> Nat] /\ \A x \in P : d.own[x] <= e.own[x]
      BY <1>1, <3>1, <3>2
    <3> QED
      BY <1>1, <1>2, <1>5, <2>2, <3>3 DEF e, Running, Counters
  <2> QED
    BY <1>5, <2>4, <2>5, ReadGoes
<1> QED
  BY <1>3, <1>4, <1>5

-----------------------------------------------------------------------------
(* The same trial on shorter and on longer rows *)

Extends(p, f) == SourceOf(p, f).policy = "extend"

(* Rows of one trial: equal, or the beginning of one that is extended.      *)
Prefixed(p, rows, longer) ==
  \A f \in PartsOf[p.option] :
    \/ rows[f] = longer[f]
    \/ /\ Extends(p, f) /\ Len(rows[f]) \in Nat \ {0} /\ Len(longer[f]) \in Nat
       /\ rows[f] # <<>> /\ longer[f] # <<>> /\ Len(rows[f]) <= Len(longer[f])
       /\ \A i \in 1 .. Len(rows[f]) : rows[f][i] = longer[f][i]

(* A read that both rows have gives the same; one that the shorter has not  *)
(* runs out of it.                                                          *)
LEMMA SlotReadAgrees ==
  ASSUME NEW p, IsPoint(p), NEW read \in ReadsOf(p), ~IsFault(read), NEW seed,
         NEW rows, NEW longer, Prefixed(p, rows, longer), NEW k \in Nat \ {0}
  PROVE  \/ SlotRead(p, seed, rows, k, read) = SlotRead(p, seed, longer, k, read)
         \/ /\ SlotRead(p, seed, rows, k, read).end = "exhausted"
            /\ rows[read.field] # longer[read.field]
<1> DEFINE f == read.field
           s == SourceOf(p, f)
<1>1. f \in PartsOf[p.option]
  BY DEF ReadsOf, IsFault
<1>2. Built(s)
  BY <1>1, SourceIs
<1>3. CASE s.kind = "empty"
  BY <1>3 DEF SlotRead
<1>4. CASE s.kind = "distribution"
  BY <1>4 DEF SlotRead
<1>5. CASE s.kind # "empty" /\ s.kind # "distribution"
  <2>1. \A r : SlotRead(p, seed, r, k, read) = Taken(k, r[f], s.policy)
    BY <1>5 DEF SlotRead
  <2>2. CASE rows[f] = longer[f]
    BY <2>1, <2>2
  <2>3. CASE rows[f] # longer[f]
    <3>1. /\ s.policy = "extend" /\ Len(rows[f]) \in Nat \ {0} /\ Len(longer[f]) \in Nat
          /\ rows[f] # <<>> /\ longer[f] # <<>> /\ Len(rows[f]) <= Len(longer[f])
          /\ \A i \in 1 .. Len(rows[f]) : rows[f][i] = longer[f][i]
      BY <1>1, <2>3 DEF Prefixed, Extends
    <3>2. CASE k <= Len(rows[f])
      <4>1. k <= Len(longer[f]) /\ rows[f][k] = longer[f][k]
        BY <3>1, <3>2
      <4>2. Taken(k, rows[f], s.policy) = Taken(k, longer[f], s.policy)
        BY <3>1, <3>2, <4>1 DEF Taken
      <4> QED
        BY <2>1, <4>2
    <3>3. CASE ~(k <= Len(rows[f]))
      <4>1. Taken(k, rows[f], s.policy).end = "exhausted"
        BY <3>1, <3>3 DEF Taken
      <4> QED
        BY <2>1, <2>3, <4>1
    <3> QED
      BY <3>2, <3>3
  <2> QED
    BY <2>2, <2>3
<1> QED
  BY <1>3, <1>4, <1>5

(* A row runs out behind its end, and gives what it has.                    *)
LEMMA SlotReadEnds ==
  ASSUME NEW p, IsPoint(p), NEW read \in ReadsOf(p), ~IsFault(read), NEW seed,
         NEW rows, NEW k \in Nat \ {0}, rows[read.field] # <<>> \/ ~Extends(p, read.field),
         Extends(p, read.field) => Len(rows[read.field]) \in Nat
  PROVE  /\ SlotRead(p, seed, rows, k, read).end = "exhausted" =>
              Extends(p, read.field) /\ k > Len(rows[read.field])
         /\ SlotRead(p, seed, rows, k, read).end = None /\ Extends(p, read.field) =>
              k <= Len(rows[read.field])
<1> DEFINE f == read.field
           s == SourceOf(p, f)
           taken == SlotRead(p, seed, rows, k, read)
<1>1. f \in PartsOf[p.option]
  BY DEF ReadsOf, IsFault
<1>2. Built(s)
  BY <1>1, SourceIs
<1>3. CASE s.kind = "empty"
  BY <1>3 DEF SlotRead, None
<1>4. CASE s.kind = "distribution"
  <2>1. taken.end = None
    BY <1>4 DEF SlotRead
  <2>2. ~Extends(p, f)
    BY <1>2, <1>4 DEF Built, Extends, Rows
  <2> QED
    BY <2>1, <2>2 DEF None
<1>5. CASE s.kind # "empty" /\ s.kind # "distribution"
  <2>1. taken = Taken(k, rows[f], s.policy)
    BY <1>5 DEF SlotRead
  <2>2. s.policy \in Policies
    BY <1>2 DEF Built
  <2> HIDE DEF taken
  <2>3. CASE s.policy = "extend"
    <3>1. rows[f] # <<>> /\ Len(rows[f]) \in Nat
      BY <2>3 DEF Extends
    <3> QED
      BY <2>1, <2>3, <3>1 DEF Taken, None, Extends, taken
  <2>4. CASE s.policy # "extend"
    <3>1. taken.end # "exhausted"
      BY <2>1, <2>2, <2>4 DEF Taken, Policies, None
    <3> QED
      BY <2>4, <3>1 DEF Extends, taken
  <2> QED
    BY <2>3, <2>4
<1> QED
  BY <1>3, <1>4, <1>5

(* A read of an extended row gives a value or runs out.                     *)
LEMMA SlotReadExtends ==
  ASSUME NEW p, IsPoint(p), NEW read \in ReadsOf(p), ~IsFault(read), NEW seed,
         NEW rows, NEW k, rows[read.field] # <<>>, Extends(p, read.field)
  PROVE  SlotRead(p, seed, rows, k, read).end \in {None, "exhausted"}
<1> DEFINE f == read.field
           s == SourceOf(p, f)
<1>1. f \in PartsOf[p.option]
  BY DEF ReadsOf, IsFault
<1>2. s.kind # "empty" /\ s.kind # "distribution" /\ s.policy = "extend"
  BY <1>1, SourceIs DEF Built, Extends, Rows
<1>3. SlotRead(p, seed, rows, k, read) = Taken(k, rows[f], "extend")
  BY <1>2 DEF SlotRead
<1>4. CASE k <= Len(rows[f])
  BY <1>3, <1>4 DEF Taken
<1>5. CASE ~(k <= Len(rows[f]))
  BY <1>3, <1>5 DEF Taken
<1> QED
  BY <1>4, <1>5

(* Two runs of the same reads: the same so far, or the first ran out of a   *)
(* row, and the other went on behind its end.                               *)
Full(p, rows) ==
  \A f \in PartsOf[p.option] : Extends(p, f) => rows[f] # <<>> /\ Len(rows[f]) \in Nat \ {0}
OwnRead(p, read) == read.clone => ~Extends(p, read.field)
Alike(d, e)  == d.status = e.status /\ d.seen = e.seen /\ d.own = e.own /\ d.clone = e.clone
Behind(d, e) ==
  /\ \A x \in PartsOf[d.point.option] : d.own[x] <= e.own[x]
  /\ d.rows[d.ran_out.field] = e.rows[d.ran_out.field] => e.status = "exhausted"
  /\ \/ e.status = "exhausted" /\ e.ran_out.field = d.ran_out.field
     \/ e.own[d.ran_out.field] > Len(d.rows[d.ran_out.field])
  /\ Extends(d.point, d.ran_out.field)
Twins(d, e)  == IF d.status = "exhausted" THEN Behind(d, e) ELSE Alike(d, e)
LEMMA TwinsGo ==
  ASSUME NEW a, NEW b, IsPoint(a.point), a.point = b.point, a.seed = b.seed,
         Prefixed(a.point, a.rows, b.rows), Full(a.point, a.rows), Full(a.point, b.rows),
         NEW d, Kept(a, d), Running(d), NEW e, Kept(b, e), Running(e), Twins(d, e),
         NEW read \in ReadsOf(a.point), OwnRead(a.point, read)
  PROVE  Twins(Step(d, read), Step(e, read))
<1> DEFINE p  == a.point
           P  == PartsOf[p.option]
           d1 == Step(d, read)
           e1 == Step(e, read)
<1>1. /\ d.point = p /\ e.point = p /\ d.seed = a.seed /\ e.seed = a.seed
      /\ d.rows = a.rows /\ e.rows = b.rows
  BY DEF Kept
<1>2. /\ d.own \in [P -> Nat] /\ d.clone \in [P -> Nat] /\ e.own \in [P -> Nat]
      /\ e.clone \in [P -> Nat]
  BY <1>1 DEF Running, Counters
<1>3. Kept(a, d1) /\ Kept(b, e1)
  BY StepKeeps
<1>4. Running(e1) /\ Running(d1) /\ \A x \in P : e.own[x] <= e1.own[x]
  BY CursorsGrow
<1>5. /\ d1.point = p /\ e1.point = p /\ d1.rows = a.rows /\ e1.rows = b.rows
      /\ e1.own \in [P -> Nat]
  BY <1>3, <1>4 DEF Kept, Running, Counters
<1>6. CASE d.status = "exhausted"
  <2> DEFINE f == d.ran_out.field
  <2>1. d1 = d
    BY <1>6 DEF Step
  <2>2. Behind(d, e)
    BY <1>6 DEF Twins
  <2>3. f \in P
    BY <1>1, <1>6 DEF Kept, ReadsOf
  <2>4. e.status = "exhausted" => e1 = e
    BY DEF Step
  <2>5. \A x \in P : d.own[x] <= e1.own[x]
    BY <1>1, <1>2, <1>4, <1>5, <2>2 DEF Behind
  <2>6. Len(a.rows[f]) \in Nat
    BY <1>1, <2>2, <2>3 DEF Behind, Full
  <2>7. e.own[f] > Len(a.rows[f]) => e1.own[f] > Len(a.rows[f])
    <3>1. e.own[f] \in Nat /\ e1.own[f] \in Nat /\ e.own[f] <= e1.own[f]
      BY <1>2, <1>4, <1>5, <2>3
    <3> QED
      BY <2>6, <3>1
  <2> HIDE DEF e1
  <2>8. Behind(d, e1)
    BY <1>1, <1>5, <2>2, <2>4, <2>5, <2>7 DEF Behind
  <2> QED
    BY <1>6, <2>1, <2>8 DEF Twins, e1
<1>7. CASE d.status # "exhausted" /\ d.status # "new"
  <2>1. Alike(d, e)
    BY <1>7 DEF Twins
  <2>2. d1 = d /\ e1 = e
    BY <1>7, <2>1 DEF Alike, Step
  <2> QED
    BY <2>2
<1>8. CASE d.status = "new" /\ IsFault(read)
  <2>1. Alike(d, e) /\ e.status = "new"
    BY <1>8 DEF Twins, Alike
  <2>2. d1 = [d EXCEPT !.status = "failed"] /\ e1 = [e EXCEPT !.status = "failed"]
    BY <1>8, <2>1 DEF Step
  <2>3. /\ d1.status = "failed" /\ d1.own = d.own /\ d1.clone = d.clone /\ d1.seen = d.seen
        /\ e1.status = "failed" /\ e1.own = e.own /\ e1.clone = e.clone /\ e1.seen = e.seen
    BY <2>2 DEF Kept, BlockFields
  <2> HIDE DEF d1, e1
  <2>4. Twins(d1, e1)
    BY <2>1, <2>3 DEF Twins, Alike
  <2> QED
    BY <2>4 DEF d1, e1
<1>9. CASE d.status = "new" /\ ~IsFault(read)
  <2> DEFINE f == read.field
             k == Place(d, read)
  <2>1. Alike(d, e) /\ e.status = "new"
    BY <1>9 DEF Twins, Alike
  <2>2. k \in Nat \ {0} /\ Place(e, read) = k /\ f \in P
    <3>1. k \in Nat \ {0}
      BY <1>9, CursorsGrow
    <3>2. Place(e, read) = k
      BY <2>1 DEF Place, Cursors, Alike
    <3>3. f \in P
      BY <1>9 DEF ReadsOf, IsFault
    <3> QED
      BY <3>1, <3>2, <3>3
  <2>3. /\ TakenBy(d, read) = SlotRead(p, a.seed, a.rows, k, read)
        /\ TakenBy(e, read) = SlotRead(p, a.seed, b.rows, k, read)
    BY <1>1, <2>2 DEF TakenBy
  <2>4. Ended(d, d1, read) \/ Went(d, d1, read)
    BY <1>1, <1>9, ReadGoes
  <2>5. Ended(e, e1, read) \/ Went(e, e1, read)
    BY <1>1, <1>9, <2>1, ReadGoes
  <2>6. /\ Prefixed(p, a.rows, b.rows)
        /\ Extends(p, f) => /\ a.rows[f] # <<>> /\ Len(a.rows[f]) \in Nat \ {0}
                            /\ b.rows[f] # <<>> /\ Len(b.rows[f]) \in Nat \ {0}
    BY <2>2 DEF Full
  <2>7. \/ TakenBy(d, read) = TakenBy(e, read)
        \/ TakenBy(d, read).end = "exhausted" /\ a.rows[f] # b.rows[f]
    BY <1>9, <2>2, <2>3, <2>6, SlotReadAgrees
  <2>8. TakenBy(d, read).end = "exhausted" =>
          /\ Extends(p, f) /\ k > Len(a.rows[f]) /\ ~read.clone
          /\ TakenBy(e, read).end \in {None, "exhausted"}
    <3>1. TakenBy(d, read).end = "exhausted" => Extends(p, f) /\ k > Len(a.rows[f])
      BY <1>9, <2>2, <2>3, <2>6, SlotReadEnds
    <3>2. Extends(p, f) => TakenBy(e, read).end \in {None, "exhausted"}
      BY <1>9, <2>3, <2>6, SlotReadExtends
    <3> QED
      BY <3>1, <3>2 DEF OwnRead
  <2> HIDE DEF d1, e1, k
  <2>9. CASE TakenBy(d, read) = TakenBy(e, read) /\ TakenBy(d, read).end = None
    <3>1. Went(d, d1, read) /\ Went(e, e1, read)
      BY <2>4, <2>5, <2>9 DEF Ended, None
    <3>2. Alike(d1, e1) /\ d1.status = "new"
      BY <2>1, <2>2, <2>9, <3>1 DEF Went, Alike, k
    <3> QED
      BY <3>2 DEF Twins, d1, e1
  <2>10. CASE TakenBy(d, read) = TakenBy(e, read) /\ TakenBy(d, read).end # None
    <3>1. Ended(d, d1, read) /\ Ended(e, e1, read)
      BY <2>4, <2>5, <2>10 DEF Went
    <3>2. Alike(d1, e1)
      BY <2>1, <2>10, <3>1 DEF Ended, Alike
    <3>3. CASE d1.status = "exhausted"
      <4>1. /\ d1.ran_out = read /\ e1.ran_out = read /\ e1.status = "exhausted"
            /\ Extends(p, f)
        BY <2>8, <2>10, <3>1, <3>2, <3>3 DEF Ended, Alike
      <4>2. \A x \in P : d1.own[x] <= e1.own[x]
        BY <1>5, <3>2 DEF Alike
      <4> QED
        BY <1>5, <3>3, <4>1, <4>2 DEF Twins, Behind, d1, e1
    <3> QED
      BY <3>2, <3>3 DEF Twins, d1, e1
  <2>11. CASE TakenBy(d, read).end = "exhausted" /\ a.rows[f] # b.rows[f]
    <3>1. Ended(d, d1, read) /\ d1.status = "exhausted" /\ d1.ran_out = read
      BY <2>4, <2>11 DEF Went, None, Ended
    <3>2. d1.own = d.own /\ d.own = e.own
      BY <2>1, <3>1 DEF Ended, Alike
    <3>3. \A x \in P : d1.own[x] <= e1.own[x]
      BY <1>4, <3>2 DEF e1
    <3>4. CASE Ended(e, e1, read)
      <4>1. e1.status = "exhausted" /\ e1.ran_out = read
        BY <2>8, <2>11, <3>4 DEF Ended, None
      <4> QED
        BY <1>5, <2>8, <2>11, <3>1, <3>3, <4>1 DEF Twins, Behind, d1, e1
    <3>5. CASE Went(e, e1, read)
      <4>1. e1.own = [e.own EXCEPT ![f] = MaxOf(@, k)]
        BY <2>2, <2>8, <2>11, <3>5 DEF Went
      <4>2. e1.own[f] = MaxOf(e.own[f], k) /\ e.own[f] \in Nat
        BY <1>2, <2>2, <4>1
      <4>3. e1.own[f] > Len(a.rows[f])
        BY <2>2, <2>6, <2>8, <2>11, <4>2 DEF MaxOf
      <4> QED
        BY <1>5, <2>8, <2>11, <3>1, <3>3, <4>3 DEF Twins, Behind, d1, e1
    <3> QED
      BY <2>5, <3>4, <3>5
  <2> QED
    BY <2>7, <2>9, <2>10, <2>11
<1> QED
  BY <1>6, <1>7, <1>8, <1>9

(* What a trial has taken from an extended row is in it.                    *)
Fed(d) ==
  /\ \A x \in PartsOf[d.point.option] : Extends(d.point, x) => d.own[x] <= Len(d.rows[x])
  /\ d.status = "exhausted" => Extends(d.point, d.ran_out.field) /\ ~d.ran_out.clone
LEMMA FedGoes ==
  ASSUME NEW a, IsPoint(a.point), Full(a.point, a.rows),
         NEW d, Kept(a, d), Running(d), Fed(d),
         NEW read \in ReadsOf(a.point), OwnRead(a.point, read)
  PROVE  Fed(Step(d, read))
<1> DEFINE p  == a.point
           P  == PartsOf[p.option]
           d1 == Step(d, read)
<1>1. d.point = p /\ d.rows = a.rows /\ d.seed = a.seed /\ d.own \in [P -> Nat]
  BY DEF Kept, Running, Counters
<1>2. d1.point = p /\ d1.rows = a.rows
  BY StepKeeps DEF Kept
<1>3. CASE d.status # "new"
  BY <1>3 DEF Step
<1>4. CASE d.status = "new" /\ IsFault(read)
  <2>1. d1 = [d EXCEPT !.status = "failed"]
    BY <1>4 DEF Step
  <2>2. d1.status = "failed" /\ d1.own = d.own
    BY <2>1 DEF Kept, BlockFields
  <2> HIDE DEF d1
  <2>3. Fed(d1)
    BY <1>1, <1>2, <2>2 DEF Fed
  <2> QED
    BY <2>3 DEF d1
<1>5. CASE d.status = "new" /\ ~IsFault(read)
  <2> DEFINE f == read.field
             k == Place(d, read)
  <2>1. k \in Nat \ {0} /\ f \in P
    <3>1. k \in Nat \ {0}
      BY <1>5, CursorsGrow
    <3>2. f \in P
      BY <1>5 DEF ReadsOf, IsFault
    <3> QED
      BY <3>1, <3>2
  <2>2. Ended(d, d1, read) \/ Went(d, d1, read)
    BY <1>1, <1>5, ReadGoes
  <2>3. TakenBy(d, read) = SlotRead(p, a.seed, a.rows, k, read)
    BY <1>1 DEF TakenBy
  <2>4. Extends(p, f) => a.rows[f] # <<>> /\ Len(a.rows[f]) \in Nat
    BY <2>1 DEF Full
  <2>5. /\ TakenBy(d, read).end = "exhausted" => Extends(p, f)
        /\ TakenBy(d, read).end = None /\ Extends(p, f) => k <= Len(a.rows[f])
    BY <1>5, <2>1, <2>3, <2>4, SlotReadEnds
  <2> HIDE DEF d1, k
  <2>6. CASE Ended(d, d1, read)
    <3>1. d1.own = d.own
      BY <2>6 DEF Ended
    <3>2. d1.status = "exhausted" => Extends(p, d1.ran_out.field) /\ ~d1.ran_out.clone
      BY <2>5, <2>6 DEF Ended, OwnRead
    <3> QED
      BY <1>1, <1>2, <3>1, <3>2 DEF Fed, d1
  <2>7. CASE Went(d, d1, read)
    <3>1. d1.status = "new"
      BY <2>7 DEF Went
    <3>2. \A x \in P : Extends(p, x) => d1.own[x] <= Len(a.rows[x])
      <4>1. \A x \in P : Extends(p, x) => d.own[x] <= Len(a.rows[x])
        BY <1>1 DEF Fed
      <4>2. CASE read.clone
        <5>1. d1.own = d.own
          BY <2>7, <4>2 DEF Went
        <5> QED
          BY <4>1, <5>1
      <4>3. CASE ~read.clone
        <5>1. d1.own = [d.own EXCEPT ![f] = MaxOf(@, k)]
          BY <2>7, <4>3 DEF Went, k
        <5>2. d1.own[f] = MaxOf(d.own[f], k) /\ \A x \in P \ {f} : d1.own[x] = d.own[x]
          BY <1>1, <2>1, <5>1
        <5>3. Extends(p, f) => k <= Len(a.rows[f])
          BY <2>5, <2>7 DEF Went
        <5>4. Extends(p, f) => d1.own[f] <= Len(a.rows[f])
          BY <2>1, <4>1, <5>2, <5>3 DEF MaxOf
        <5> QED
          BY <4>1, <5>2, <5>4
      <4> QED
        BY <4>2, <4>3
    <3> QED
      BY <1>2, <3>1, <3>2 DEF Fed, d1
  <2> QED
    BY <2>2, <2>6, <2>7
<1> QED
  BY <1>3, <1>4, <1>5

-----------------------------------------------------------------------------
(* Two whole trials *)

OwnOnly(p) == \A k \in DOMAIN p.reads : OwnRead(p, p.reads[k])
Ran(a, d)  == Kept(a, d) /\ Running(d) /\ Fed(d)

LEMMA FreshRuns ==
  ASSUME NEW p, NEW seed, NEW rows, NEW counts, DOMAIN rows = PartsOf[p.option],
         Full(p, rows), NEW a, a = Fresh(p, seed, rows, counts)
  PROVE  /\ Ran(a, a) /\ a.status = "new" /\ a.seen = <<>>
         /\ a.own = [f \in PartsOf[p.option] |-> 0] /\ a.clone = [f \in PartsOf[p.option] |-> 0]
         /\ a.point = p /\ a.seed = seed /\ a.rows = rows /\ a.extended = counts
<1>1. /\ DOMAIN a = BlockFields /\ a.status = "new" /\ a.point = p /\ a.seed = seed
      /\ a.rows = rows /\ a.extended = counts /\ a.ran_out = NoRead /\ a.seen = <<>>
      /\ a.own = [f \in PartsOf[p.option] |-> 0] /\ a.clone = [f \in PartsOf[p.option] |-> 0]
  BY DEF Fresh, BlockFields
<1>2. NoRead \in ReadsOf(p)
  BY DEF NoRead, ReadsOf
<1>3. Kept(a, a)
  BY <1>1, <1>2 DEF Kept, Statuses
<1>4. Running(a)
  BY <1>1 DEF Running, Counters
<1>5. Fed(a)
  <2>1. \A x \in PartsOf[p.option] : Extends(p, x) => a.own[x] <= Len(rows[x])
    BY <1>1 DEF Full
  <2> QED
    BY <1>1, <2>1 DEF Fed
<1> QED
  BY <1>1, <1>3, <1>4, <1>5 DEF Ran

(* The end of a trial that nothing ended.                                   *)
Final(end) == IF end.status = "new" THEN [end EXCEPT !.status = "success"] ELSE end
LEMMA FinalIs ==
  ASSUME NEW a, NEW d, Ran(a, d)
  PROVE  /\ Ran(a, Final(d)) /\ Final(d).status # "new"
         /\ Final(d).status = IF d.status = "new" THEN "success" ELSE d.status
         /\ Final(d).seen = d.seen /\ Final(d).own = d.own /\ Final(d).clone = d.clone
         /\ Final(d).ran_out = d.ran_out /\ Final(d).rows = d.rows /\ Final(d).point = d.point
<1>1. CASE d.status = "new"
  <2> DEFINE e == [d EXCEPT !.status = "success"]
  <2>1. Final(d) = e
    BY <1>1 DEF Final
  <2>2. /\ DOMAIN e = BlockFields /\ e.status = "success" /\ e.seen = d.seen /\ e.own = d.own
        /\ e.clone = d.clone /\ e.ran_out = d.ran_out /\ e.rows = d.rows /\ e.point = d.point
        /\ e.seed = d.seed /\ e.extended = d.extended
    BY DEF Ran, Kept, BlockFields
  <2> HIDE DEF e
  <2>3. Kept(a, e) /\ Running(e) /\ Fed(e)
    BY <2>2 DEF Ran, Kept, Running, Fed, Statuses
  <2> QED
    BY <1>1, <2>1, <2>2, <2>3 DEF Ran
<1>2. CASE d.status # "new"
  BY <1>2 DEF Final
<1> QED
  BY <1>1, <1>2

LEMMA TwinsEnd ==
  ASSUME NEW a, NEW b, NEW d, NEW e, Ran(a, d), Ran(b, e), Twins(d, e)
  PROVE  Twins(Final(d), Final(e))
<1> DEFINE d1 == Final(d)
           e1 == Final(e)
<1>1. /\ d1.status = IF d.status = "new" THEN "success" ELSE d.status
      /\ d1.seen = d.seen /\ d1.own = d.own /\ d1.clone = d.clone
      /\ d1.ran_out = d.ran_out /\ d1.rows = d.rows /\ d1.point = d.point
  BY FinalIs
<1>2. /\ e1.status = IF e.status = "new" THEN "success" ELSE e.status
      /\ e1.seen = e.seen /\ e1.own = e.own /\ e1.clone = e.clone
      /\ e1.ran_out = e.ran_out /\ e1.rows = e.rows /\ e1.point = e.point
  BY FinalIs
<1> HIDE DEF d1, e1
<1>3. CASE d.status = "exhausted"
  <2>1. Behind(d, e)
    BY <1>3 DEF Twins
  <2>2. Behind(d1, e1)
    BY <1>1, <1>2, <2>1 DEF Behind
  <2> QED
    BY <1>1, <1>3, <2>2 DEF Twins, d1, e1
<1>4. CASE d.status # "exhausted"
  <2>1. Alike(d, e)
    BY <1>4 DEF Twins
  <2>2. Alike(d1, e1) /\ d1.status # "exhausted"
    BY <1>1, <1>2, <1>4, <2>1 DEF Alike
  <2> QED
    BY <2>2 DEF Twins, d1, e1
<1> QED
  BY <1>3, <1>4

LEMMA TwinsPlayed ==
  ASSUME NEW p, IsPoint(p), OwnOnly(p), NEW seed, NEW rows, NEW longer, NEW x, NEW y,
         DOMAIN rows = PartsOf[p.option], DOMAIN longer = PartsOf[p.option],
         Full(p, rows), Full(p, longer), Prefixed(p, rows, longer),
         NEW a, a = Fresh(p, seed, rows, x), NEW b, b = Fresh(p, seed, longer, y)
  PROVE  /\ Ran(a, Played(a)) /\ Ran(b, Played(b)) /\ Twins(Played(a), Played(b))
         /\ Played(a).status # "new" /\ Played(b).status # "new"
<1> DEFINE N     == Len(p.reads)
           reads == p.reads
<1>1. N \in Nat /\ DOMAIN reads = 1 .. N
      /\ \A k \in 1 .. N : reads[k] \in ReadsOf(p) /\ OwnRead(p, reads[k])
  BY LenProperties DEF IsPoint, OwnOnly
<1>2. /\ Ran(a, a) /\ a.status = "new" /\ a.seen = <<>> /\ a.point = p /\ a.seed = seed
      /\ a.rows = rows /\ a.own = [f \in PartsOf[p.option] |-> 0] /\ a.clone = [f \in PartsOf[p.option] |-> 0]
  BY FreshRuns
<1>3. /\ Ran(b, b) /\ b.status = "new" /\ b.seen = <<>> /\ b.point = p /\ b.seed = seed
      /\ b.rows = longer /\ b.own = [f \in PartsOf[p.option] |-> 0] /\ b.clone = [f \in PartsOf[p.option] |-> 0]
  BY FreshRuns
<1>4. Twins(a, b)
  BY <1>2, <1>3 DEF Twins, Alike
<1>5. PICK f : SteppedSteps(f, a, reads, N)
  BY <1>1, SteppedFold
<1>6. PICK g : SteppedSteps(g, b, reads, N)
  BY <1>1, SteppedFold
<1> DEFINE T == {n \in 0 .. N : Ran(a, f[n]) /\ Ran(b, g[n]) /\ Twins(f[n], g[n])}
<1>7. 0 \in T
  BY <1>1, <1>2, <1>3, <1>4, <1>5, <1>6 DEF SteppedSteps
<1>8. ASSUME NEW n \in 0 .. N - 1, n \in T PROVE n + 1 \in T
  <2>1. n + 1 \in 1 .. N /\ n + 1 \in 0 .. N /\ (n + 1) - 1 = n
    BY <1>1
  <2> DEFINE read == reads[n + 1]
             d    == f[n]
             e    == g[n]
  <2>2. f[n + 1] = Step(d, read) /\ g[n + 1] = Step(e, read)
    BY <1>5, <1>6, <2>1 DEF SteppedSteps
  <2>3. read \in ReadsOf(p) /\ OwnRead(p, read)
    BY <1>1, <2>1
  <2>4. Ran(a, d) /\ Ran(b, e) /\ Twins(d, e)
    BY <1>8
  <2> HIDE DEF read, d, e
  <2>5. /\ Kept(a, d) /\ Running(d) /\ Fed(d) /\ Kept(b, e) /\ Running(e) /\ Fed(e)
        /\ IsPoint(a.point) /\ IsPoint(b.point) /\ a.point = b.point /\ a.seed = b.seed
        /\ Full(a.point, a.rows) /\ Full(b.point, b.rows) /\ Prefixed(a.point, a.rows, b.rows)
        /\ read \in ReadsOf(a.point) /\ OwnRead(a.point, read)
        /\ read \in ReadsOf(b.point) /\ OwnRead(b.point, read)
    BY <1>2, <1>3, <2>3, <2>4 DEF Ran
  <2>6. Kept(a, Step(d, read)) /\ Kept(b, Step(e, read))
    BY <2>5, StepKeeps
  <2>7. Running(Step(d, read)) /\ Running(Step(e, read))
    BY <2>5, CursorsGrow
  <2>8. Fed(Step(d, read)) /\ Fed(Step(e, read))
    BY <2>5, FedGoes
  <2>9. Twins(Step(d, read), Step(e, read))
    BY <1>2, <1>3, <2>4, <2>5, TwinsGo
  <2> QED
    BY <2>1, <2>2, <2>6, <2>7, <2>8, <2>9 DEF Ran
<1>9. N \in T
  <2> HIDE DEF T
  <2>1. 0 .. N \subseteq T
    BY <1>1, <1>7, <1>8, CountsUp
  <2> QED
    BY <1>1, <2>1
<1>10. Played(a) = Final(f[N]) /\ Played(b) = Final(g[N])
  BY <1>2, <1>3, <1>5, <1>6 DEF Played, Final, SteppedSteps
<1>11. Ran(a, f[N]) /\ Ran(b, g[N]) /\ Twins(f[N], g[N])
  BY <1>9
<1>12. Ran(a, Final(f[N])) /\ Final(f[N]).status # "new"
  BY <1>11, FinalIs
<1>13. Ran(b, Final(g[N])) /\ Final(g[N]).status # "new"
  BY <1>11, FinalIs
<1>14. Twins(Final(f[N]), Final(g[N]))
  BY <1>11, TwinsEnd
<1> QED
  BY <1>10, <1>12, <1>13, <1>14

-----------------------------------------------------------------------------
(* Rows and how often they were doubled *)

(* How often a row may be doubled: never, but for a source that extends.    *)
Fits(p, f) ==
  {d \in 0 .. Doublings :
     d = 0 \/ /\ SourceOf(p, f).policy = "extend"
              /\ SourceOf(p, f).max = NoMax \/ BaseLength(p, f) * 2^d <= SourceOf(p, f).max}
Top(p, f) == CHOOSE d \in Fits(p, f) : \A e \in Fits(p, f) : e <= d
LEMMA TopIs ==
  ASSUME NEW p, NEW f
  PROVE  /\ Top(p, f) \in Fits(p, f) /\ \A e \in Fits(p, f) : e <= Top(p, f)
         /\ Longest(p, f) = BaseLength(p, f) * 2 ^ Top(p, f)
<1> DEFINE F == Fits(p, f)
           S == {Doublings - d : d \in F}
<1>1. Doublings \in Nat
  BY CallAssumption
<1>2. F \in SUBSET (0 .. Doublings) /\ 0 \in F
  BY <1>1 DEF Fits
<1>3. Longest(p, f) = BaseLength(p, f) * 2 ^ Top(p, f)
  BY DEF Longest, Top, Fits
<1> HIDE DEF F
<1>4. S \in SUBSET Nat /\ Doublings - 0 \in S
  BY <1>1, <1>2
<1>5. PICK m \in S : \A x \in S : m <= x
  BY <1>4, LeastNatural
<1>6. PICK d \in F : m = Doublings - d
  BY <1>5
<1>7. \A e \in F : e <= d
  <2> TAKE e \in F
  <2>1. m <= Doublings - e
    BY <1>5
  <2> QED
    BY <1>1, <1>2, <1>6, <2>1
<1>8. Top(p, f) \in F /\ \A e \in F : e <= Top(p, f)
  BY <1>7 DEF Top, F
<1> QED
  BY <1>3, <1>8 DEF F

LEMMA BaseIs ==
  ASSUME NEW p, IsPoint(p), NEW f \in PartsOf[p.option], Generated(SourceOf(p, f))
  PROVE  BaseLength(p, f) \in Nat \ {0}
<1>1. Built(SourceOf(p, f))
  BY SourceIs
<1>2. /\ SourceOf(p, f).hint \in Nat \ {0} /\ Required \in Nat
      /\ SourceOf(p, f).max = NoMax \/ SourceOf(p, f).max \in Nat \ {0}
  BY <1>1, FieldAssumption DEF Built, Generated
<1> QED
  BY <1>2 DEF BaseLength, MaxOf, MinOf

LEMMA ExtendsIs ==
  ASSUME NEW p, IsPoint(p), NEW f \in PartsOf[p.option], Extends(p, f)
  PROVE  /\ Generated(SourceOf(p, f)) /\ SourceOf(p, f).stable
         /\ SourceOf(p, f).max = NoMax \/ SourceOf(p, f).max \in Nat
<1>1. Built(SourceOf(p, f))
  BY SourceIs
<1> QED
  BY <1>1 DEF Built, Extends, Generated

(* The rows of a trial: of each source, doubled as often as is counted.     *)
Doubling(p, f, n) == BaseLength(p, f) * 2 ^ n
RowFor(p, f, seed, n) ==
  LET s == SourceOf(p, f)
  IN  IF Generated(s) THEN RowOf(RowKey(p, f, seed, Doubling(p, f, n)))
      ELSE IF s.kind = "trace" THEN s.data ELSE <<>>
RowsFor(p, seed, rows, counts) ==
  /\ DOMAIN rows = PartsOf[p.option] /\ DOMAIN counts = PartsOf[p.option]
  /\ \A f \in PartsOf[p.option] :
       counts[f] \in Fits(p, f) /\ rows[f] = RowFor(p, f, seed, counts[f])

LEMMA DoublingIs ==
  ASSUME NEW p, IsPoint(p), NEW f \in PartsOf[p.option], Generated(SourceOf(p, f)), NEW n \in Nat
  PROVE  Doubling(p, f, n) \in Nat \ {0} /\ Doubling(p, f, n + 1) = 2 * Doubling(p, f, n)
<1> DEFINE B == BaseLength(p, f)
<1>1. B \in Nat \ {0}
  BY BaseIs
<1>2. 2 ^ n \in Nat \ {0} /\ 2 ^ (n + 1) = 2 * 2 ^ n
  BY PowerDoubles
<1>3. \A x, y \in Nat \ {0} : x * y \in Nat \ {0} /\ x * (2 * y) = 2 * (x * y)
  OBVIOUS
<1> HIDE DEF B
<1>4. Doubling(p, f, n) = B * 2 ^ n /\ Doubling(p, f, n + 1) = B * 2 ^ (n + 1)
  BY DEF Doubling, B
<1> QED
  BY <1>1, <1>2, <1>3, <1>4

LEMMA RowForIs ==
  ASSUME RawAreNatural, NEW p, IsPoint(p), NEW f \in PartsOf[p.option],
         Generated(SourceOf(p, f)), NEW seed \in Nat, NEW n \in Nat
  PROVE  /\ Doubling(p, f, n) \in Nat \ {0}
         /\ RowFor(p, f, seed, n) = Row(SourceOf(p, f), <<seed, TagOf(p, f)>>, Doubling(p, f, n))
         /\ Len(RowFor(p, f, seed, n)) = Doubling(p, f, n) /\ RowFor(p, f, seed, n) # <<>>
<1> DEFINE L == Doubling(p, f, n)
<1>1. L \in Nat \ {0}
  BY DoublingIs
<1> HIDE DEF L
<1>2. RowFor(p, f, seed, n) = RowOf(RowKey(p, f, seed, L))
  BY DEF RowFor, L
<1>3. /\ RowKey(p, f, seed, L) \in AllKeys /\ RowKey(p, f, seed, L).length = L
      /\ RowOf(RowKey(p, f, seed, L)) = Row(SourceOf(p, f), <<seed, TagOf(p, f)>>, L)
  BY <1>1, RowKeyIs
<1>4. Len(RowOf(RowKey(p, f, seed, L))) = L
  BY <1>3, RowOfIs
<1>5. RowFor(p, f, seed, n) # <<>>
  <2>1. Len(RowFor(p, f, seed, n)) # 0
    BY <1>1, <1>2, <1>4
  <2>2. Len(<<>>) = 0
    OBVIOUS
  <2> HIDE DEF L
  <2> QED
    BY <2>1, <2>2
<1> QED
  BY <1>1, <1>2, <1>3, <1>4, <1>5 DEF L

LEMMA RowsForFull ==
  ASSUME RawAreNatural, NEW p, IsPoint(p), NEW seed \in Nat, NEW rows, NEW counts,
         RowsFor(p, seed, rows, counts)
  PROVE  Full(p, rows)
<1> SUFFICES ASSUME NEW f \in PartsOf[p.option], Extends(p, f)
             PROVE  rows[f] # <<>> /\ Len(rows[f]) \in Nat \ {0}
  BY DEF Full
<1>1. Generated(SourceOf(p, f))
  BY ExtendsIs
<1>2. PICK n \in Nat : rows[f] = RowFor(p, f, seed, n)
  BY CallAssumption DEF RowsFor, Fits
<1>3. /\ Doubling(p, f, n) \in Nat \ {0} /\ Len(RowFor(p, f, seed, n)) = Doubling(p, f, n)
      /\ RowFor(p, f, seed, n) # <<>>
  BY <1>1, RowForIs
<1> QED
  BY <1>2, <1>3

LEMMA RowsForGrow ==
  ASSUME RawAreNatural, NEW p, IsPoint(p), NEW seed \in Nat, NEW rows, NEW counts, NEW longer,
         NEW more, RowsFor(p, seed, rows, counts), RowsFor(p, seed, longer, more),
         \A f \in PartsOf[p.option] : counts[f] <= more[f]
  PROVE  Prefixed(p, rows, longer)
<1> SUFFICES ASSUME NEW f \in PartsOf[p.option], rows[f] # longer[f]
             PROVE  /\ Extends(p, f) /\ Len(rows[f]) \in Nat \ {0} /\ Len(longer[f]) \in Nat
                    /\ rows[f] # <<>> /\ longer[f] # <<>> /\ Len(rows[f]) <= Len(longer[f])
                    /\ \A i \in 1 .. Len(rows[f]) : rows[f][i] = longer[f][i]
  BY DEF Prefixed
<1> DEFINE s == SourceOf(p, f)
           g == <<seed, TagOf(p, f)>>
           m == counts[f]
           n == more[f]
           L(k) == Doubling(p, f, k)
<1>1. /\ m \in Fits(p, f) /\ n \in Fits(p, f) /\ m \in Nat /\ n \in Nat /\ m <= n
      /\ rows[f] = RowFor(p, f, seed, m) /\ longer[f] = RowFor(p, f, seed, n)
  BY CallAssumption DEF RowsFor, Fits
<1> HIDE DEF m, n
<1>2. m < n
  BY <1>1
<1>3. Extends(p, f)
  BY <1>1, <1>2 DEF Fits, Extends
<1>4. Generated(s) /\ s.stable /\ Built(s)
  BY <1>3, ExtendsIs, SourceIs
<1>5. /\ rows[f] = Row(s, g, L(m)) /\ L(m) \in Nat \ {0} /\ Len(rows[f]) = L(m) /\ rows[f] # <<>>
      /\ longer[f] = Row(s, g, L(n)) /\ L(n) \in Nat \ {0} /\ Len(longer[f]) = L(n)
      /\ longer[f] # <<>>
  BY <1>1, <1>4, RowForIs
<1>6. L(m) <= L(n)
  <2>1. 2 * 2 ^ m <= 2 ^ n /\ 2 ^ m \in Nat /\ 2 ^ n \in Nat
    BY <1>1, <1>2, PowerGrows, PowerDoubles
  <2>2. 2 ^ m <= 2 ^ n
    BY <2>1
  <2>3. \A b, x, y \in Nat : x <= y => b * x <= b * y
    OBVIOUS
  <2>4. BaseLength(p, f) \in Nat
    BY <1>4, BaseIs
  <2> QED
    BY <2>1, <2>2, <2>3, <2>4 DEF Doubling
<1> HIDE DEF L, s, g
<1>7. BeginsWith(s, g, L(m), L(n))
  <2>1. L(m) \in 0 .. L(n) /\ L(n) \in Nat
    BY <1>5, <1>6
  <2> QED
    BY <1>4, <2>1, RowIs
<1>8. \A i \in 1 .. Len(rows[f]) : rows[f][i] = longer[f][i]
  BY <1>5, <1>7 DEF BeginsWith
<1> QED
  BY <1>3, <1>5, <1>6, <1>8

-----------------------------------------------------------------------------
(* What a trial's outcome should be *)

LongestRows(p, seed) == [f \in PartsOf[p.option] |-> LongestRow(p, f, seed)]
Tops(p)              == [f \in PartsOf[p.option] |-> Top(p, f)]
NoCounts(p)          == [f \in PartsOf[p.option] |-> 0]
LEMMA LongestFor ==
  ASSUME NEW p, NEW seed
  PROVE  /\ RowsFor(p, seed, LongestRows(p, seed), Tops(p))
         /\ Ideal(p, seed) = Outcome(Played(Fresh(p, seed, LongestRows(p, seed), NoCounts(p))))
<1>1. \A f \in PartsOf[p.option] : /\ Top(p, f) \in Fits(p, f)
                                   /\ LongestRow(p, f, seed) = RowFor(p, f, seed, Top(p, f))
  <2> TAKE f \in PartsOf[p.option]
  <2>1. Top(p, f) \in Fits(p, f) /\ Longest(p, f) = Doubling(p, f, Top(p, f))
    BY TopIs DEF Doubling
  <2> QED
    BY <2>1 DEF LongestRow, RowFor
<1>2. RowsFor(p, seed, LongestRows(p, seed), Tops(p))
  BY <1>1 DEF RowsFor, LongestRows, Tops
<1> QED
  BY <1>2 DEF Ideal, LongestRows, NoCounts

Least(o) ==
  ~o.failed =>
    \A f \in DOMAIN o.extended :
      Extends(o.point, f) =>
        /\ o.consumed[f] <= Doubling(o.point, f, o.extended[f])
        /\ o.extended[f] > 0 => 2 * o.consumed[f] > Doubling(o.point, f, o.extended[f])
GoodOutcome(o) == OwnOnly(o.point) => Agrees(o, Ideal(o.point, o.seed)) /\ Least(o)

(* A row that was doubled was needed, but for the one that ran out last.    *)
Tight(d) ==
  \A f \in PartsOf[d.point.option] :
    d.extended[f] > 0 /\ ~(d.status = "exhausted" /\ f = d.ran_out.field) =>
      2 * d.own[f] > Len(d.rows[f])
GoodBlock(b) ==
  /\ RowsFor(b.point, b.seed, b.rows, b.extended)
  /\ b.status = "new" => /\ b = Fresh(b.point, b.seed, b.rows, b.extended)
                         /\ b.extended = NoCounts(b.point)
  /\ b.status = "exhausted" => b = Played(Fresh(b.point, b.seed, b.rows, b.extended)) /\ Tight(b)
  /\ b.status \in {"success", "failed"} => GoodOutcome(Outcome(b))

LEMMA OutcomeIs ==
  ASSUME NEW b
  PROVE  /\ Outcome(b).point = b.point /\ Outcome(b).seed = b.seed
         /\ Outcome(b).failed = (b.status # "success") /\ Outcome(b).consumed = b.own
         /\ Outcome(b).extended = b.extended
  BY DEF Outcome

(* Trials of a point and a seed that end alike have outcomes that agree.    *)
LEMMA OutcomesAgree ==
  ASSUME NEW d, NEW e, d.point = e.point, d.seed = e.seed,
         (d.status = "success") <=> (e.status = "success"),
         d.status = "success" => d.seen = e.seen
  PROVE  Agrees(Outcome(d), Outcome(e))
<1> DEFINE o(b, failed, seen) ==
             [point |-> b.point, seed |-> b.seed, failed |-> failed, seen |-> seen,
              consumed |-> b.own, extended |-> b.extended]
           cleared(b) == [Outcome(b) EXCEPT !.extended = 0, !.consumed = 0]
           kept(p, s, failed, seen) ==
             [point |-> p, seed |-> s, failed |-> failed, seen |-> seen,
              consumed |-> 0, extended |-> 0]
<1>1. ASSUME NEW b, NEW failed, NEW seen, Outcome(b) = o(b, failed, seen)
      PROVE  cleared(b) = kept(b.point, b.seed, failed, seen)
  <2> DEFINE u == o(b, failed, seen)
             v == [point |-> b.point, seed |-> b.seed, failed |-> failed, seen |-> seen,
                   consumed |-> b.own, extended |-> 0]
  <2>1. [u EXCEPT !.extended = 0] = v
    BY SMT
  <2>2. [v EXCEPT !.consumed = 0] = kept(b.point, b.seed, failed, seen)
    BY SMT
  <2> HIDE DEF u, v, kept
  <2>3. [u EXCEPT !.extended = 0, !.consumed = 0] = [[u EXCEPT !.extended = 0] EXCEPT !.consumed = 0]
    BY SMT
  <2>4. [u EXCEPT !.extended = 0, !.consumed = 0] = kept(b.point, b.seed, failed, seen)
    BY <2>1, <2>2, <2>3
  <2>5. Outcome(b) = u
    BY <1>1 DEF u
  <2> QED
    BY <2>4, <2>5
<1>2. Agrees(Outcome(d), Outcome(e)) <=> cleared(d) = cleared(e)
  BY DEF Agrees
<1> HIDE DEF kept, cleared
<1>3. CASE d.status = "success"
  <2>1. Outcome(d) = o(d, FALSE, d.seen) /\ Outcome(e) = o(e, FALSE, e.seen)
    BY <1>3 DEF Outcome
  <2> HIDE DEF o
  <2>2. /\ cleared(d) = kept(d.point, d.seed, FALSE, d.seen)
        /\ cleared(e) = kept(e.point, e.seed, FALSE, e.seen)
    BY <1>1, <2>1
  <2> QED
    BY <1>2, <1>3, <2>2
<1>4. CASE d.status # "success"
  <2>1. Outcome(d) = o(d, TRUE, <<>>) /\ Outcome(e) = o(e, TRUE, <<>>)
    BY <1>4 DEF Outcome
  <2> HIDE DEF o
  <2>2. /\ cleared(d) = kept(d.point, d.seed, TRUE, <<>>)
        /\ cleared(e) = kept(e.point, e.seed, TRUE, <<>>)
    BY <1>1, <2>1
  <2> QED
    BY <1>2, <1>4, <2>2
<1> QED
  BY <1>3, <1>4

LEMMA PlayedGood ==
  ASSUME RawAreNatural, NEW p, IsPoint(p), OwnOnly(p), NEW seed \in Nat, NEW rows, NEW counts,
         RowsFor(p, seed, rows, counts), NEW a, a = Fresh(p, seed, rows, counts),
         NEW d, d = Played(a), Tight(d)
  PROVE  GoodBlock(d)
<1> DEFINE P == PartsOf[p.option]
           w == LongestRows(p, seed)
           l == Fresh(p, seed, w, NoCounts(p))
           e == Played(l)
<1>1. RowsFor(p, seed, w, Tops(p)) /\ Ideal(p, seed) = Outcome(e)
  BY LongestFor
<1>2. Full(p, rows) /\ Full(p, w)
  BY <1>1, RowsForFull
<1>3. Prefixed(p, rows, w)
  <2>1. \A f \in P : counts[f] <= Tops(p)[f]
    <3> TAKE f \in P
    <3>1. counts[f] \in Fits(p, f) /\ Tops(p)[f] = Top(p, f)
      BY DEF RowsFor, Tops
    <3> QED
      BY <3>1, TopIs
  <2> HIDE DEF w
  <2> QED
    BY <1>1, <2>1, RowsForGrow
<1> HIDE DEF w
<1>4. DOMAIN rows = P /\ DOMAIN w = P
  BY <1>1 DEF RowsFor
<1>5. PICK b : b = l
  OBVIOUS
<1>6. Ran(a, Played(a)) /\ Ran(b, Played(b)) /\ Twins(Played(a), Played(b)) /\ Played(a).status # "new"
  BY <1>2, <1>3, <1>4, <1>5, TwinsPlayed
<1> HIDE DEF e
<1>7. Ran(a, d) /\ Ran(b, e) /\ Twins(d, e) /\ d.status # "new"
  BY <1>5, <1>6 DEF e
<1>8. /\ a.point = p /\ a.seed = seed /\ a.rows = rows /\ a.extended = counts
      /\ b.point = p /\ b.seed = seed
  BY <1>5 DEF Fresh
<1>9. /\ d.point = p /\ d.seed = seed /\ d.rows = rows /\ d.extended = counts /\ d.status \in Statuses
      /\ e.point = p /\ e.seed = seed
  BY <1>7, <1>8 DEF Ran, Kept
<1>10. CASE d.status = "exhausted"
  BY <1>9, <1>10 DEF GoodBlock
<1>11. CASE d.status # "exhausted"
  <2>1. Alike(d, e)
    BY <1>7, <1>11 DEF Twins
  <2>2. Agrees(Outcome(d), Ideal(p, seed))
    BY <1>1, <1>9, <2>1, OutcomesAgree DEF Alike
  <2>3. ASSUME NEW f \in P, Extends(p, f)
        PROVE  /\ d.own[f] <= Doubling(p, f, counts[f])
               /\ counts[f] > 0 => 2 * d.own[f] > Doubling(p, f, counts[f])
    <3>1. counts[f] \in Nat /\ rows[f] = RowFor(p, f, seed, counts[f])
      BY CallAssumption DEF RowsFor, Fits
    <3>2. Generated(SourceOf(p, f))
      BY <2>3, ExtendsIs
    <3>3. Len(RowFor(p, f, seed, counts[f])) = Doubling(p, f, counts[f])
      <4>1. PICK n \in Nat : n = counts[f]
        BY <3>1
      <4> QED
        BY <3>2, <4>1, RowForIs
    <3>4. d.own[f] <= Len(rows[f])
      BY <1>7, <1>9, <2>3 DEF Ran, Fed
    <3>5. counts[f] > 0 => 2 * d.own[f] > Len(rows[f])
      BY <1>9, <1>11 DEF Tight
    <3> QED
      BY <3>1, <3>3, <3>4, <3>5
  <2>4. Least(Outcome(d))
    <3>1. /\ Outcome(d).point = p /\ Outcome(d).consumed = d.own /\ Outcome(d).extended = counts
      BY <1>9, OutcomeIs
    <3>2. DOMAIN counts = P
      BY DEF RowsFor
    <3> QED
      BY <2>3, <3>1, <3>2 DEF Least
  <2>5. GoodOutcome(Outcome(d))
    BY <1>9, <2>2, <2>4, OutcomeIs DEF GoodOutcome
  <2> QED
    BY <1>7, <1>9, <1>11, <2>5 DEF GoodBlock
<1> QED
  BY <1>10, <1>11

-----------------------------------------------------------------------------
(* A trial that is rerun *)

(* A doubled row is that of the next count.                                 *)
LEMMA DoubledRow ==
  ASSUME RawAreNatural, NEW b, IsPoint(b.point), b.seed \in Nat,
         NEW f \in PartsOf[b.point.option], Generated(SourceOf(b.point, f)),
         NEW n \in Nat, b.rows[f] = RowFor(b.point, f, b.seed, n),
         NEW old, SoundCache(old.cache), NEW memory \in Nat
  PROVE  /\ Doubled(b, old, f, memory).rows =
              [old.rows EXCEPT ![f] = RowFor(b.point, f, b.seed, n + 1)]
         /\ Doubled(b, old, f, memory).extended = [old.extended EXCEPT ![f] = @ + 1]
<1> DEFINE length == 2 * Len(b.rows[f])
           key    == RowKey(b.point, f, b.seed, length)
           keys   == <<key>>
           got    == Fetched(old.cache, keys, memory)
           e      == Doubled(b, old, f, memory)
<1>1. length = Doubling(b.point, f, n + 1) /\ length \in Nat
  <2>1. Len(RowFor(b.point, f, b.seed, n)) = Doubling(b.point, f, n)
    BY RowForIs
  <2>2. Doubling(b.point, f, n) \in Nat /\ Doubling(b.point, f, n + 1) = 2 * Doubling(b.point, f, n)
    BY DoublingIs
  <2> QED
    BY <2>1, <2>2
<1> HIDE DEF length
<1>2. key \in AllKeys
  BY <1>1, RowKeyIs
<1>3. RowOf(key) = RowFor(b.point, f, b.seed, n + 1)
  BY <1>1 DEF RowFor
<1>4. e.rows = [old.rows EXCEPT ![f] = got.rows[key]] /\ e.extended = [old.extended EXCEPT ![f] = @ + 1]
  BY DEF Doubled, length
<1> HIDE DEF key, e
<1>5. /\ DOMAIN keys = 1 .. Len(keys) /\ \A i \in 1 .. Len(keys) : keys[i] \in AllKeys
      /\ \A i, j \in 1 .. Len(keys) : keys[i] = keys[j] => i = j
      /\ key \in Range(keys) /\ Len(keys) \in Nat
  <2>1. Len(keys) = 1 /\ DOMAIN keys = 1 .. 1 /\ keys[1] = key
    OBVIOUS
  <2> HIDE DEF keys
  <2>2. key \in Range(keys)
    BY <2>1 DEF Range
  <2> QED
    BY <1>2, <2>1, <2>2
<1> HIDE DEF keys
<1>6. got.rows = [x \in Range(keys) |-> RowOf(x)]
  <2>1. PICK N \in Nat : N = Len(keys)
    BY <1>5
  <2> QED
    BY <1>5, <2>1, FetchedIs
<1>7. got.rows[key] = RowOf(key)
  BY <1>5, <1>6
<1> HIDE DEF got
<1> QED
  BY <1>3, <1>4, <1>7 DEF e

(* Of one target, all or none can be extended.                              *)
LEMMA ExtensibleOne ==
  ASSUME NEW b, NEW f, Targets(b) = <<f>>
  PROVE  /\ MayExtend(b, f) => /\ Len(Extensible(b)) = 1 /\ Extensible(b)[1] = f
                               /\ DOMAIN Extensible(b) = 1 .. 1
         /\ ~MayExtend(b, f) => Len(Extensible(b)) = 0 /\ DOMAIN Extensible(b) = 1 .. 0
<1> DEFINE s  == <<f>>
           I  == {i \in DOMAIN s : \A j \in 1 .. i : MayExtend(b, s[j])}
           q  == Picked(s, I)
           at == InOrder(I)
<1>1. Extensible(b) = q
  BY DEF Extensible
<1>2. (MayExtend(b, f) => I = {1}) /\ (~MayExtend(b, f) => I = {})
  <2>1. DOMAIN s = {1} /\ s[1] = f
    OBVIOUS
  <2>2. \A i \in {1} : \A j \in 1 .. i : j = 1
    OBVIOUS
  <2>3. 1 \in 1 .. 1
    OBVIOUS
  <2> HIDE DEF s
  <2>4. 1 \in I <=> MayExtend(b, f)
    BY <2>1, <2>2, <2>3
  <2>5. I \subseteq {1}
    BY <2>1
  <2> HIDE DEF I
  <2> QED
    BY <2>4, <2>5
<1>3. I \in SUBSET Int /\ IsFiniteSet(I)
  <2>1. IsFiniteSet({1})
    BY FS_Singleton
  <2>2. IsFiniteSet({})
    BY FS_EmptySet
  <2> HIDE DEF I
  <2> QED
    BY <1>2, <2>1, <2>2
<1>4. s[1] = f
  OBVIOUS
<1> HIDE DEF I, s
<1>5. /\ Len(q) = Cardinality(I) /\ Len(q) \in Nat
      /\ q = [n \in 1 .. Len(q) |-> q[n]] /\ PickedPlaces(I, q, s, at)
  BY <1>3, PickedIs
<1> HIDE DEF q, at
<1>6. DOMAIN q = 1 .. Len(q)
  BY <1>5
<1>7. CASE MayExtend(b, f)
  <2>1. I = {1} /\ Cardinality(I) = 1
    BY <1>2, <1>7, FS_Singleton
  <2>2. Len(q) = 1
    BY <1>5, <2>1
  <2>3. at[1] \in I /\ q[1] = s[at[1]]
    BY <1>5, <2>2 DEF PickedPlaces
  <2> QED
    BY <1>1, <1>4, <1>6, <1>7, <2>1, <2>2, <2>3
<1>8. CASE ~MayExtend(b, f)
  <2>1. I = {} /\ Cardinality(I) = 0
    BY <1>2, <1>8, FS_EmptySet
  <2>2. Len(q) = 0
    BY <1>5, <2>1
  <2> QED
    BY <1>1, <1>6, <1>8, <2>2
<1> QED
  BY <1>7, <1>8

(* Its rows after that: the target's is doubled, or none.                   *)
LEMMA ExtendedOne ==
  ASSUME RawAreNatural, NEW b, IsPoint(b.point), b.seed \in Nat,
         NEW f \in PartsOf[b.point.option], Generated(SourceOf(b.point, f)),
         NEW n \in Nat, b.rows[f] = RowFor(b.point, f, b.seed, n),
         Targets(b) = <<f>>, NEW c, SoundCache(c), NEW memory \in Nat,
         NEW all, all = Extended(b, c, memory)
  PROVE  /\ MayExtend(b, f) =>
              /\ all.rows = [b.rows EXCEPT ![f] = RowFor(b.point, f, b.seed, n + 1)]
              /\ all.extended = [b.extended EXCEPT ![f] = @ + 1]
         /\ ~MayExtend(b, f) => all.rows = b.rows /\ all.extended = b.extended
<1> DEFINE q    == Extensible(b)
           base == [cache |-> c, rows |-> b.rows, extended |-> b.extended]
<1>1. PICK N \in {0, 1} : /\ DOMAIN q = 1 .. N
                          /\ N = 1 => MayExtend(b, f) /\ q[1] = f
                          /\ N = 0 => ~MayExtend(b, f)
  BY ExtensibleOne
<1>2. PICK h : DoubledSteps(h, b, memory, base, q, N)
  BY <1>1, DoubledFold
<1>3. base.cache = c /\ base.rows = b.rows /\ base.extended = b.extended
  OBVIOUS
<1>4. all = h[N] /\ h[0] = base
  BY <1>2 DEF Extended, DoubledSteps
<1> HIDE DEF base, q
<1>5. CASE N = 0
  BY <1>1, <1>3, <1>4, <1>5
<1>6. CASE N = 1
  <2>1. h[1] = Doubled(b, h[1 - 1], q[1], memory)
    BY <1>2, <1>6 DEF DoubledSteps
  <2>2. all = Doubled(b, base, f, memory)
    BY <1>1, <1>4, <1>6, <2>1
  <2>3. SoundCache(base.cache)
    BY <1>3
  <2>4. /\ all.rows = [base.rows EXCEPT ![f] = RowFor(b.point, f, b.seed, n + 1)]
        /\ all.extended = [base.extended EXCEPT ![f] = @ + 1]
    BY <2>2, <2>3, DoubledRow
  <2> QED
    BY <1>1, <1>3, <1>6, <2>4
<1> QED
  BY <1>1, <1>5, <1>6

(* A row that cannot be extended is as long as it will ever be.             *)
LEMMA TopReached ==
  ASSUME NEW b, IsPoint(b.point), NEW f \in PartsOf[b.point.option], Extends(b.point, f),
         NEW n \in Fits(b.point, f), b.extended[f] = n,
         Len(b.rows[f]) = Doubling(b.point, f, n)
  PROVE  /\ ~MayExtend(b, f) => Top(b.point, f) = n
         /\ MayExtend(b, f) => n + 1 \in Fits(b.point, f)
<1> DEFINE p == b.point
           s == SourceOf(p, f)
           B == BaseLength(p, f)
<1>1. /\ Generated(s) /\ s.stable /\ s.policy = "extend" /\ B \in Nat
      /\ s.max = NoMax \/ s.max \in Nat
  BY ExtendsIs, BaseIs DEF Extends
<1>2. n \in Nat /\ n <= Doublings /\ Doublings \in Nat
  BY CallAssumption DEF Fits
<1>3. Doubling(p, f, n) \in Nat /\ Doubling(p, f, n + 1) = 2 * Doubling(p, f, n)
  BY <1>1, <1>2, DoublingIs
<1>4. MayExtend(b, f) <=>
        n < Doublings /\ (s.max = NoMax \/ Doubling(p, f, n + 1) <= s.max)
  BY <1>1, <1>3 DEF MayExtend
<1>5. ASSUME MayExtend(b, f) PROVE n + 1 \in Fits(p, f)
  <2>1. n + 1 \in 0 .. Doublings
    BY <1>2, <1>4, <1>5
  <2> QED
    BY <1>1, <1>4, <1>5, <2>1 DEF Fits, Doubling
<1>6. ASSUME ~MayExtend(b, f) PROVE Top(p, f) = n
  <2>1. Top(p, f) \in Fits(p, f) /\ n <= Top(p, f)
    BY TopIs
  <2> SUFFICES ASSUME n < Top(p, f) PROVE FALSE
    BY <1>2, <2>1 DEF Fits
  <2> DEFINE m == Top(p, f)
  <2>2. m \in Nat /\ m <= Doublings /\ n < Doublings
    BY <1>2, <2>1 DEF Fits
  <2>3. s.max # NoMax /\ s.max \in Nat /\ ~(Doubling(p, f, n + 1) <= s.max)
    BY <1>1, <1>4, <1>6, <2>2
  <2>4. Doubling(p, f, m) <= s.max
    BY <1>2, <2>1, <2>3 DEF Fits, Doubling
  <2>5. Doubling(p, f, n + 1) <= Doubling(p, f, m)
    <3>1. 2 * 2 ^ n <= 2 ^ m /\ 2 ^ (n + 1) = 2 * 2 ^ n /\ 2 ^ n \in Nat /\ 2 ^ m \in Nat
      BY <1>2, <2>2, PowerGrows, PowerDoubles
    <3>2. \A x, y, z \in Nat : x <= y => z * x <= z * y
      OBVIOUS
    <3>3. 2 ^ (n + 1) \in Nat /\ 2 ^ (n + 1) <= 2 ^ m
      BY <3>1
    <3> HIDE DEF B
    <3>4. B * 2 ^ (n + 1) <= B * 2 ^ m
      BY <1>1, <3>1, <3>2, <3>3
    <3> QED
      BY <3>4 DEF Doubling, B
  <2>6. Doubling(p, f, n + 1) \in Nat /\ Doubling(p, f, m) \in Nat
    BY <1>1, <1>3, <2>2, DoublingIs
  <2> QED
    BY <2>3, <2>4, <2>5, <2>6
<1> QED
  BY <1>5, <1>6

Rerun(b, all) ==
  IF Len(Extensible(b)) < Len(Targets(b)) \/ Targets(b) = <<>>
  THEN [b EXCEPT !.status = "failed", !.extended = all.extended]
  ELSE Played(Replayed(b, all.rows, all.extended))
LEMMA ExtendGood ==
  ASSUME RawAreNatural, NEW b, IsPoint(b.point), OwnOnly(b.point), b.seed \in Nat,
         Sound(b), b.status = "exhausted", GoodBlock(b),
         NEW c, SoundCache(c), NEW memory \in Nat, NEW all, all = Extended(b, c, memory)
  PROVE  GoodBlock(Rerun(b, all))
<1>0. ASSUME NEW x \in PartsOf[b.point.option], Generated(SourceOf(b.point, x)), NEW m \in Nat
      PROVE  Len(RowFor(b.point, x, b.seed, m)) = Doubling(b.point, x, m)
  BY <1>0, RowForIs
<1> DEFINE p == b.point
           P == PartsOf[p.option]
           f == b.ran_out.field
           w == LongestRows(p, b.seed)
           d == Rerun(b, all)
<1>1. PICK a : a = Fresh(p, b.seed, b.rows, b.extended)
  OBVIOUS
<1>2. PICK l : l = Fresh(p, b.seed, w, NoCounts(p))
  OBVIOUS
<1>3. RowsFor(p, b.seed, b.rows, b.extended) /\ b = Played(a) /\ Tight(b)
  BY <1>1 DEF GoodBlock
<1>4. RowsFor(p, b.seed, w, Tops(p)) /\ Ideal(p, b.seed) = Outcome(Played(l))
  BY <1>2, LongestFor
<1> HIDE DEF w
<1>5. /\ DOMAIN b.rows = P /\ DOMAIN b.extended = P /\ DOMAIN w = P
      /\ Full(p, b.rows) /\ Full(p, w)
  <2>1. Full(p, b.rows)
    BY <1>3, RowsForFull
  <2>2. Full(p, w)
    BY <1>4, RowsForFull
  <2> QED
    BY <1>3, <1>4, <2>1, <2>2 DEF RowsFor
<1>6. Prefixed(p, b.rows, w)
  <2>1. \A x \in P : b.extended[x] <= Tops(p)[x]
    BY <1>3, TopIs DEF RowsFor, Tops
  <2> QED
    BY <1>3, <1>4, <2>1, RowsForGrow
<1>7. Ran(a, b) /\ Ran(l, Played(l)) /\ Twins(b, Played(l))
  BY <1>1, <1>2, <1>3, <1>5, <1>6, TwinsPlayed
<1>8. /\ l.point = p /\ l.seed = b.seed /\ l.rows = w /\ a.point = p
  BY <1>1, <1>2 DEF Fresh
<1>9. /\ Played(l).point = p /\ Played(l).seed = b.seed /\ Played(l).rows = w
      /\ Behind(b, Played(l)) /\ Extends(p, f) /\ ~b.ran_out.clone /\ f \in P
  BY <1>7, <1>8 DEF Ran, Kept, Twins, Fed, Sound, ReadsOf
<1>10. Targets(b) = <<f>> /\ Len(Targets(b)) = 1 /\ Targets(b) # <<>>
  BY <1>9 DEF Targets
<1>11. PICK n \in Nat : /\ n \in Fits(p, f) /\ b.extended[f] = n
                        /\ b.rows[f] = RowFor(p, f, b.seed, n)
  BY <1>3, <1>9, CallAssumption DEF RowsFor, Fits
<1>12. Generated(SourceOf(p, f))
  BY <1>9, ExtendsIs
<1>13. Len(b.rows[f]) = Doubling(p, f, n)
  <2>1. Len(RowFor(p, f, b.seed, n)) = Doubling(p, f, n)
    BY <1>0, <1>9, <1>12
  <2> QED
    BY <1>11, <2>1
<1>14. /\ ~MayExtend(b, f) => Top(p, f) = n
       /\ MayExtend(b, f) => n + 1 \in Fits(p, f)
  BY <1>9, <1>11, <1>13, TopReached
<1>15. /\ MayExtend(b, f) =>
            /\ all.rows = [b.rows EXCEPT ![f] = RowFor(p, f, b.seed, n + 1)]
            /\ all.extended = [b.extended EXCEPT ![f] = @ + 1]
       /\ ~MayExtend(b, f) => all.rows = b.rows /\ all.extended = b.extended
  BY <1>9, <1>10, <1>11, <1>12, ExtendedOne
<1>16. CASE ~MayExtend(b, f)
  <2> DEFINE e == [b EXCEPT !.status = "failed", !.extended = b.extended]
  <2>1. Len(Extensible(b)) = 0
    BY <1>10, <1>16, ExtensibleOne
  <2>2. d = e
    <3>1. d = [b EXCEPT !.status = "failed", !.extended = all.extended]
      BY <1>10, <2>1 DEF Rerun
    <3>2. all.extended = b.extended
      BY <1>15, <1>16
    <3> HIDE DEF d
    <3> QED
      BY <3>1, <3>2
  <2>3. /\ e.status = "failed" /\ e.point = p /\ e.seed = b.seed /\ e.rows = b.rows
        /\ e.extended = b.extended
    BY DEF Sound, BlockFields
  <2> HIDE DEF d, e
  <2>4. b.rows[f] = w[f]
    BY <1>4, <1>9, <1>11, <1>14, <1>16 DEF RowsFor, Tops
  <2>5. Played(l).status = "exhausted"
    BY <1>9, <2>4 DEF Behind
  <2>6. Agrees(Outcome(e), Outcome(Played(l)))
    BY <1>9, <2>3, <2>5, OutcomesAgree
  <2>7. GoodOutcome(Outcome(e))
    BY <1>4, <2>3, <2>6, OutcomeIs DEF GoodOutcome, Least
  <2>8. GoodBlock(e)
    BY <1>3, <2>3, <2>7 DEF GoodBlock
  <2> QED
    BY <2>2, <2>8 DEF d
<1>17. CASE MayExtend(b, f)
  <2> DEFINE rows == all.rows
             more == all.extended
  <2>1. PICK a1 : a1 = Fresh(p, b.seed, rows, more)
    OBVIOUS
  <2>2. Len(Extensible(b)) = 1
    BY <1>10, <1>17, ExtensibleOne
  <2>3. d = Played(a1)
    BY <1>10, <2>1, <2>2 DEF Rerun, Replayed
  <2> HIDE DEF d
  <2>4. /\ DOMAIN rows = P /\ DOMAIN more = P
        /\ rows[f] = RowFor(p, f, b.seed, n + 1) /\ more[f] = n + 1
        /\ \A x \in P \ {f} : rows[x] = b.rows[x] /\ more[x] = b.extended[x]
    BY <1>5, <1>9, <1>11, <1>15, <1>17
  <2> HIDE DEF rows, more
  <2>5. RowsFor(p, b.seed, rows, more)
    BY <1>3, <1>14, <1>17, <2>4 DEF RowsFor
  <2>6. Full(p, rows)
    BY <2>5, RowsForFull
  <2>7. \A x \in P : b.extended[x] <= more[x]
    BY <1>3, <1>11, <2>4, CallAssumption DEF RowsFor, Fits
  <2>8. Prefixed(p, b.rows, rows)
    BY <1>3, <2>5, <2>7, RowsForGrow
  <2>9. Ran(a1, d) /\ Twins(b, d)
    <3>1. Ran(a1, Played(a1)) /\ Twins(Played(a), Played(a1))
      BY <1>1, <1>5, <2>1, <2>4, <2>6, <2>8, TwinsPlayed
    <3> QED
      BY <1>3, <2>3, <3>1
  <2>10. /\ d.point = p /\ d.rows = rows /\ d.extended = more /\ Behind(b, d)
         /\ d.own \in [P -> Nat] /\ b.own \in [P -> Nat]
    <3>1. a1.point = p /\ a1.rows = rows /\ a1.extended = more
      BY <2>1 DEF Fresh
    <3> QED
      BY <1>7, <2>9, <3>1 DEF Ran, Kept, Running, Counters, Twins
  <2>11. ASSUME NEW x \in P, more[x] > 0, ~(d.status = "exhausted" /\ x = d.ran_out.field)
         PROVE  2 * d.own[x] > Len(rows[x])
    <3>1. CASE x = f
      <4>1. d.own[f] > Len(b.rows[f])
        BY <2>10, <2>11, <3>1 DEF Behind
      <4>2. n + 1 \in Nat
        OBVIOUS
      <4>3. Len(rows[f]) = Doubling(p, f, n + 1)
        <5>1. Len(RowFor(p, f, b.seed, n + 1)) = Doubling(p, f, n + 1)
          BY <1>0, <1>9, <1>12, <4>2
        <5> QED
          BY <2>4, <5>1
      <4>4. Doubling(p, f, n) \in Nat /\ Doubling(p, f, n + 1) = 2 * Doubling(p, f, n)
        BY <1>9, <1>12, DoublingIs
      <4>5. d.own[f] \in Nat
        BY <1>9, <2>10
      <4> QED
        BY <1>13, <3>1, <4>1, <4>3, <4>4, <4>5
    <3>2. CASE x # f
      <4>1. b.extended[x] > 0 /\ rows[x] = b.rows[x]
        BY <2>4, <2>11, <3>2
      <4>2. 2 * b.own[x] > Len(b.rows[x])
        BY <1>3, <3>2, <4>1 DEF Tight
      <4>3. Len(b.rows[x]) \in Nat
        <5>1. b.extended[x] \in Fits(p, x) /\ b.extended[x] # 0
          BY <1>3, <4>1 DEF RowsFor
        <5>2. Extends(p, x)
          BY <5>1 DEF Fits, Extends
        <5> QED
          BY <1>5, <5>2 DEF Full
      <4>4. b.own[x] <= d.own[x] /\ b.own[x] \in Nat /\ d.own[x] \in Nat
        BY <2>10 DEF Behind
      <4>5. \A i, j, k \in Nat : 2 * i > k /\ i <= j => 2 * j > k
        OBVIOUS
      <4> QED
        BY <4>1, <4>2, <4>3, <4>4, <4>5
    <3> QED
      BY <3>1, <3>2
  <2>12. Tight(d)
    BY <2>10, <2>11 DEF Tight
  <2>13. GoodBlock(d)
    BY <2>1, <2>3, <2>5, <2>12, PlayedGood
  <2> QED
    BY <2>13 DEF d
<1> QED
  BY <1>16, <1>17

-----------------------------------------------------------------------------
(* What a call collects *)

(* What flattening builds, step by step.                                    *)
Builds(q, flat) == /\ FlattenSeq(q) = flat[Len(q)] /\ flat[1] = q[1]
                   /\ \A i \in 2 .. Len(q) : flat[i] = flat[i - 1] \o q[i]
LEMMA FlattenBuilds ==
  ASSUME NEW q, Len(q) \in Nat, Len(q) # 0
  PROVE  \E flat : Builds(q, flat)
BY Flattened DEF Builds

(* The results of one more chunk.                                           *)
Chained(q, w) == q \o w
Followed(s, N, x, t) ==
  /\ DOMAIN s = 1 .. N /\ Len(s) = N
  /\ t = [i \in 1 .. N + 1 |-> IF i \in 1 .. N THEN s[i] ELSE x]
LEMMA FlattenMore ==
  ASSUME NEW s, NEW N \in Nat, NEW x, NEW t, Followed(s, N, x, t)
  PROVE  FlattenSeq(t) = IF N = 0 THEN x ELSE Chained(FlattenSeq(s), x)
<1>0. /\ DOMAIN s = 1 .. N /\ Len(s) = N
      /\ t = [i \in 1 .. N + 1 |-> IF i \in 1 .. N THEN s[i] ELSE x]
  BY DEF Followed
<1>1. Len(t) = N + 1 /\ Len(t) \in Nat /\ Len(t) # 0
  BY <1>0, IsRowLength DEF IsRow
<1>2. /\ \A i \in 1 .. N : i \in 1 .. N + 1 /\ t[i] = s[i]
      /\ t[N + 1] = x
  BY <1>0
<1>3. PICK flat : /\ FlattenSeq(t) = flat[Len(t)] /\ flat[1] = t[1]
                  /\ \A i \in 2 .. Len(t) : flat[i] = flat[i - 1] \o t[i]
  <2>1. \E flat : Builds(t, flat)
    BY ONLY <1>1, FlattenBuilds
  <2> QED
    BY <2>1 DEF Builds
<1>4. CASE N = 0
  BY <1>1, <1>2, <1>3, <1>4
<1>5. CASE N # 0
  <2>1. PICK less : /\ FlattenSeq(s) = less[N] /\ less[1] = s[1]
                    /\ \A i \in 2 .. N : less[i] = less[i - 1] \o s[i]
    BY <1>0, <1>5, Flattened
  <2> DEFINE T == {n \in 0 .. N - 1 : less[n + 1] = flat[n + 1]}
  <2>2. N - 1 \in Nat /\ 0 \in T
    BY <1>2, <1>3, <1>5, <2>1
  <2>3. ASSUME NEW n \in 0 .. (N - 1) - 1, n \in T PROVE n + 1 \in T
    <3>1. /\ (n + 1) + 1 \in 2 .. N /\ (n + 1) + 1 \in 2 .. N + 1 /\ (n + 1) + 1 \in 1 .. N
          /\ ((n + 1) + 1) - 1 = n + 1 /\ n + 1 \in 0 .. N - 1
      BY <1>5
    <3>2. less[(n + 1) + 1] = less[n + 1] \o s[(n + 1) + 1]
      BY <2>1, <3>1
    <3>3. flat[(n + 1) + 1] = flat[n + 1] \o t[(n + 1) + 1]
      BY <1>1, <1>3, <3>1
    <3>4. t[(n + 1) + 1] = s[(n + 1) + 1]
      BY <1>2, <3>1
    <3>5. less[n + 1] = flat[n + 1]
      BY <2>3
    <3>6. less[(n + 1) + 1] = flat[(n + 1) + 1]
      BY <3>2, <3>3, <3>4, <3>5
    <3> QED
      BY <3>1, <3>6
  <2>4. N - 1 \in T
    <3> HIDE DEF T
    <3>1. 0 .. N - 1 \subseteq T
      BY <2>2, <2>3, CountsUp
    <3> QED
      BY <2>2, <3>1
  <2>5. less[N] = flat[N]
    BY <2>4
  <2>6. N + 1 \in 2 .. Len(t) /\ (N + 1) - 1 = N
    BY <1>1, <1>5
  <2>7. flat[N + 1] = flat[N] \o t[N + 1]
    BY <1>3, <2>6
  <2> QED
    BY <1>1, <1>2, <1>3, <1>5, <2>1, <2>5, <2>7 DEF Chained
<1> QED
  BY <1>4, <1>5

(* Every position is in a group.                                            *)
Covers(gs, N) ==
  \A i \in 1 .. N : \E g \in DOMAIN gs : \E l \in 1 .. N : l \in DOMAIN gs[g] /\ gs[g][l] = i
LEMMA GroupedCover ==
  ASSUME NEW positions, PositionsOK(positions)
  PROVE  Covers(Grouped(positions), Len(positions))
<1> DEFINE N       == Len(positions)
           option  == [i \in DOMAIN positions |-> design[positions[i].point].option]
           options == Distinct(option)
           of(g)   == {i \in DOMAIN positions : option[i] = options[g]}
           gs      == Grouped(positions)
<1>1. N \in Nat \ {0} /\ DOMAIN positions = 1 .. N
  BY IsRowLength DEF PositionsOK
<1>2. DOMAIN option = 1 .. N
  BY <1>1
<1>3. gs = [g \in DOMAIN options |-> InOrder(of(g))]
  BY DEF Grouped
<1> HIDE DEF option
<1>4. OncePresent(option, N)
  BY <1>1, <1>2, DistinctIs
<1>5. /\ DOMAIN options = 1 .. Len(options)
      /\ \A i \in 1 .. N : \E n \in 1 .. Len(options) : options[n] = option[i]
  BY <1>4 DEF OncePresent
<1> HIDE DEF options, gs
<1> SUFFICES ASSUME NEW i \in 1 .. N
             PROVE  \E g \in DOMAIN gs : \E l \in 1 .. N : l \in DOMAIN gs[g] /\ gs[g][l] = i
  BY DEF Covers, gs
<1>6. PICK g \in 1 .. Len(options) : options[g] = option[i]
  BY <1>5
<1> DEFINE S == of(g)
           C == Cardinality(S)
<1>7. S \in SUBSET (1 .. N) /\ IsFiniteSet(1 .. N) /\ Cardinality(1 .. N) = N
  <2>1. S \in SUBSET (1 .. N)
    BY <1>1
  <2>2. \A n \in Nat \ {0} : IsFiniteSet(1 .. n) /\ Cardinality(1 .. n) = n
    BY FS_Interval
  <2> HIDE DEF S
  <2> QED
    BY <1>1, <2>1, <2>2
<1>8. S \in SUBSET Int /\ IsFiniteSet(S) /\ i \in S /\ C <= N
  BY <1>1, <1>6, <1>7, FS_Subset
<1>9. gs[g] = InOrder(S) /\ g \in DOMAIN gs
  BY <1>3, <1>5
<1> HIDE DEF S
<1>10. /\ C \in Nat /\ InOrder(S) \in [1 .. C -> S]
       /\ \A x \in S : \E n \in 1 .. C : InOrder(S)[n] = x
  BY <1>8, InOrderIs
<1>11. PICK l \in 1 .. C : InOrder(S)[l] = i
  BY <1>8, <1>10
<1>12. l \in 1 .. N /\ l \in DOMAIN gs[g] /\ gs[g][l] = i
  BY <1>1, <1>8, <1>9, <1>10, <1>11
<1> QED
  BY <1>9, <1>12

-----------------------------------------------------------------------------
(* The blocks of a chunk *)

(* Each trial of the chunk is as it should be, and ran before extension.    *)
OwnGood(b)   == OwnOnly(b.point) => GoodBlock(b)
OwnRan(b)    == OwnOnly(b.point) => b.status # "new"
BlocksGood ==
  phase \in {"native", "extend"} =>
    \A t \in DOMAIN blocks : OwnGood(blocks[t]) /\ (phase = "extend" => OwnRan(blocks[t]))

LEMMA PlayedEnds ==
  ASSUME RawAreNatural, NEW p, IsPoint(p), OwnOnly(p), NEW seed \in Nat, NEW rows, NEW counts,
         RowsFor(p, seed, rows, counts), NEW a, a = Fresh(p, seed, rows, counts)
  PROVE  Played(a).status # "new" /\ Ran(a, Played(a))
<1>1. Full(p, rows) /\ DOMAIN rows = PartsOf[p.option]
  BY RowsForFull DEF RowsFor
<1>2. Prefixed(p, rows, rows)
  BY DEF Prefixed
<1> QED
  BY <1>1, <1>2, TwinsPlayed

LEMMA BindGood ==
  ASSUME RawAreNatural, ExperimentInv, BindChunk
  PROVE  BlocksGood'
<1> DEFINE bound == Bound(cache[Home], request.memory)
           row(p, f, seed) == LET s == SourceOf(p, f)
                              IN  IF Generated(s) THEN bound.rows[RowKey(p, f, seed, BaseLength(p, f))]
                                  ELSE IF s.kind = "trace" THEN s.data ELSE <<>>
           rows(p, seed) == [f \in PartsOf[p.option] |-> row(p, f, seed)]
           none(p) == [f \in PartsOf[p.option] |-> 0]
           block(l, r) == Fresh(Point(Group[l]), SeedAt(l, r), rows(Point(Group[l]), SeedAt(l, r)),
                                none(Point(Group[l])))
<1>1. /\ phase = "bind" /\ phase' = "native"
      /\ blocks' = [t \in (DOMAIN Group) \X ChunkReps |-> block(t[1], t[2])]
  BY DEF BindChunk, plan
<1>2. StateOK /\ RequestOK /\ GroupsOK /\ phase # "idle"
  BY <1>1 DEF ExperimentInv
<1>3. ExperimentInv'
  BY BindKeeps
<1>4. ASSUME NEW t \in DOMAIN blocks' PROVE OwnGood(blocks'[t])
  <2> DEFINE p == Point(Group[t[1]])
             s == SeedAt(t[1], t[2])
             w == rows(p, s)
             b == blocks'[t]
  <2>1. t \in (DOMAIN Group) \X ChunkReps
    BY <1>1
  <2>2. b = Fresh(p, s, w, none(p))
    BY <1>1, <2>1
  <2>3. IsPoint(p) /\ s \in Nat
    BY <1>2, <2>1, TrialIs
  <2>4. /\ b.status = "new" /\ b.point = p /\ b.seed = s /\ b.rows = w
        /\ b.extended = NoCounts(p)
    BY <2>2 DEF Fresh, NoCounts
  <2>5. HasRows(b, w) /\ AsPlanned(b)
    BY <1>1, <1>3, <2>4 DEF ExperimentInv, BlocksOK, BlockOK, Sound
  <2>6. DOMAIN w = PartsOf[p.option] /\ DOMAIN NoCounts(p) = PartsOf[p.option]
    BY DEF NoCounts
  <2>7. \A f \in PartsOf[p.option] : NoCounts(p)[f] = 0
    BY DEF NoCounts
  <2>8. \A f \in PartsOf[p.option] : 0 \in Fits(p, f)
    BY CallAssumption DEF Fits
  <2>9. \A f \in PartsOf[p.option] :
          ~Generated(SourceOf(p, f)) =>
             w[f] = IF SourceOf(p, f).kind = "trace" THEN SourceOf(p, f).data ELSE <<>>
    OBVIOUS
  <2> HIDE DEF w, p, s, b
  <2>10. ASSUME NEW f \in PartsOf[p.option] PROVE w[f] = RowFor(p, f, s, 0)
    <3>1. CASE Generated(SourceOf(p, f))
      <4>1. w[f] = RowOf(RowKey(p, f, s, BaseLength(p, f)))
        BY <2>4, <2>5, <2>6, <3>1 DEF HasRows, AsPlanned
      <4>2. Doubling(p, f, 0) = BaseLength(p, f)
        <5>1. 2 ^ 0 = 1
          BY PowerDoubles
        <5>2. BaseLength(p, f) \in Nat
          BY <2>3, <3>1, SourceIs
        <5> QED
          BY <5>1, <5>2 DEF Doubling
      <4> QED
        BY <3>1, <4>1, <4>2 DEF RowFor
    <3>2. CASE ~Generated(SourceOf(p, f))
      BY <2>9, <3>2 DEF RowFor
    <3> QED
      BY <3>1, <3>2
  <2>11. RowsFor(p, s, w, NoCounts(p))
    BY <2>6, <2>7, <2>8, <2>10 DEF RowsFor
  <2>12. b = Fresh(p, s, w, NoCounts(p))
    BY <2>2 DEF NoCounts
  <2>13. GoodBlock(b)
    BY <2>4, <2>11, <2>12 DEF GoodBlock
  <2> QED
    BY <2>13 DEF b, OwnGood
<1> HIDE DEF block
<1> QED
  BY <1>1, <1>4 DEF BlocksGood

(* One trial changes.                                                       *)
LEMMA BlocksStayGood ==
  ASSUME BlocksGood, phase \in {"native", "extend"}, NEW t \in DOMAIN blocks, NEW d,
         blocks' = [blocks EXCEPT ![t] = d], OwnGood(d),
         phase' = "extend" => OwnRan(d),
         phase' = "extend" => phase = "extend" \/ \A u \in (DOMAIN blocks) \ {t} :
                                                    blocks[u].status # "new"
  PROVE  BlocksGood'
<1>1. DOMAIN blocks' = DOMAIN blocks /\ \A u \in DOMAIN blocks :
        blocks'[u] = IF u = t THEN d ELSE blocks[u]
  OBVIOUS
<1>2. ASSUME NEW u \in DOMAIN blocks
      PROVE  OwnGood(blocks'[u]) /\ (phase' = "extend" => OwnRan(blocks'[u]))
  <2>1. CASE u = t
    BY <1>1, <2>1
  <2>2. CASE u # t
    <3>1. blocks'[u] = blocks[u]
      BY <1>1, <2>2
    <3>2. OwnGood(blocks[u]) /\ (phase = "extend" => OwnRan(blocks[u]))
      BY DEF BlocksGood
    <3>3. phase' = "extend" => phase = "extend" \/ blocks[u].status # "new"
      BY <2>2
    <3>4. phase' = "extend" => OwnRan(blocks[u])
      BY <3>2, <3>3 DEF OwnRan
    <3> QED
      BY <3>1, <3>2, <3>4
  <2> QED
    BY <2>1, <2>2
<1> QED
  BY <1>1, <1>2 DEF BlocksGood

LEMMA RunTrialGood ==
  ASSUME RawAreNatural, ExperimentInv, BlocksGood, NEW t \in DOMAIN blocks, RunTrial(t)
  PROVE  BlocksGood'
<1> DEFINE b == blocks[t]
           d == Played(b)
<1>1. /\ phase = "native" /\ phase' \in {"native", "extend"} /\ b.status = "new"
      /\ blocks' = [blocks EXCEPT ![t] = d]
      /\ phase' = "extend" => \A u \in (DOMAIN blocks) \ {t} : blocks[u].status # "new"
  BY DEF RunTrial, plan
<1>2. StateOK /\ RequestOK /\ GroupsOK /\ phase # "idle"
  BY <1>1 DEF ExperimentInv
<1>3. BlockOK(t, b) /\ t \in (DOMAIN Group) \X ChunkReps
  BY <1>1 DEF ExperimentInv, BlocksOK
<1>4. IsPoint(b.point) /\ Sound(b) /\ b.seed \in Nat
  BY <1>2, <1>3, TrialIs DEF BlockOK
<1>5. d.point = b.point
  BY <1>4, PlayedSound
<1>6. OwnGood(b)
  BY <1>1 DEF BlocksGood
<1> HIDE DEF b
<1>7. ASSUME OwnOnly(b.point) PROVE GoodBlock(d) /\ d.status # "new"
  <2>1. /\ RowsFor(b.point, b.seed, b.rows, b.extended)
        /\ b = Fresh(b.point, b.seed, b.rows, b.extended) /\ b.extended = NoCounts(b.point)
    BY <1>1, <1>6, <1>7 DEF OwnGood, GoodBlock, b
  <2>2. d.status # "new" /\ Ran(b, d)
    BY <1>4, <1>7, <2>1, PlayedEnds
  <2>3. Tight(d)
    BY <2>1, <2>2 DEF Tight, Ran, Kept, NoCounts
  <2>4. GoodBlock(d)
    BY <1>4, <1>7, <2>1, <2>3, PlayedGood
  <2> QED
    BY <2>2, <2>4
<1> HIDE DEF d
<1>8. OwnGood(d) /\ OwnRan(d)
  BY <1>5, <1>7 DEF OwnGood, OwnRan
<1> QED
  BY <1>1, <1>8, BlocksStayGood

LEMMA ExtendKeepsGood ==
  ASSUME RawAreNatural, ExperimentInv, BlocksGood, Extend
  PROVE  BlocksGood'
<1> DEFINE t   == CHOOSE t \in Exhausted : \A u \in Exhausted \ {t} : Earlier(t, u)
           b   == blocks[t]
           c   == cache[Home]
           all == Extended(b, c, request.memory)
           d   == Rerun(b, all)
<1>1. /\ phase = "extend" /\ phase' = "extend" /\ Exhausted # {}
      /\ blocks' = [blocks EXCEPT ![t] = d]
  BY DEF Extend, plan, Rerun
<1>2. /\ StateOK /\ RequestOK /\ GroupsOK /\ BlocksOK /\ phase # "idle"
      /\ request.memory \in Nat
  BY <1>1 DEF ExperimentInv, RequestOK
<1>3. t \in DOMAIN blocks /\ b.status = "exhausted"
  <2>1. \E u \in Exhausted : \A v \in Exhausted \ {u} : Earlier(u, v)
    BY <1>1, <1>2, FirstExhausted
  <2>2. t \in Exhausted
    BY <2>1
  <2> HIDE DEF t
  <2> QED
    BY <2>2 DEF Exhausted
<1> HIDE DEF t
<1>4. BlockOK(t, b) /\ t \in (DOMAIN Group) \X ChunkReps
  BY <1>1, <1>2, <1>3 DEF BlocksOK
<1>5. IsPoint(b.point) /\ Sound(b) /\ b.seed \in Nat
  BY <1>2, <1>4, TrialIs DEF BlockOK
<1>6. SoundCache(c)
  BY <1>2, GroupIs DEF ExperimentInv, CachesOK
<1>7. OwnGood(b)
  BY <1>1, <1>3 DEF BlocksGood
<1>8. ExtendedSo(b, all, c, request.memory)
  BY <1>2, <1>3, <1>5, <1>6, ExtendedIs DEF Sound
<1> HIDE DEF all, b
<1>9. ASSUME OwnOnly(b.point) PROVE GoodBlock(d)
  <2>1. GoodBlock(b)
    BY <1>7, <1>9 DEF OwnGood
  <2> QED
    BY <1>2, <1>3, <1>5, <1>6, <1>9, <2>1, ExtendGood DEF all
<1>10. d.point = b.point /\ (OwnOnly(b.point) => d.status # "new")
  <2>1. CASE Len(Extensible(b)) < Len(Targets(b)) \/ Targets(b) = <<>>
    <3>1. d = [b EXCEPT !.status = "failed", !.extended = all.extended]
      BY <2>1 DEF Rerun
    <3> HIDE DEF d
    <3> QED
      BY <1>5, <3>1 DEF Sound, BlockFields
  <2>2. CASE ~(Len(Extensible(b)) < Len(Targets(b)) \/ Targets(b) = <<>>)
    <3> DEFINE e == Fresh(b.point, b.seed, all.rows, all.extended)
    <3>1. d = Played(e)
      BY <2>2 DEF Rerun, Replayed
    <3>2. e.point = b.point /\ e.seed = b.seed
      BY DEF Fresh
    <3> HIDE DEF d, e
    <3>3. HasRows(e, all.rows) /\ HasCounts(e, all.extended)
      BY <1>8, <3>2 DEF ExtendedSo, HasRows, HasCounts
    <3>4. Sound(e) /\ e.rows = all.rows
      BY <3>3, FreshIs DEF e
    <3>5. Kept(e, d) /\ e.extended = all.extended
      <4>1. Kept(e, e) /\ e.extended = all.extended
        BY <3>3, FreshIs DEF e
      <4> QED
        BY <1>5, <3>1, <3>2, <4>1, PlayedIs
    <3>6. d.point = b.point /\ d.seed = b.seed /\ d.rows = all.rows /\ d.extended = all.extended
      BY <3>2, <3>4, <3>5 DEF Kept
    <3>7. ASSUME OwnOnly(b.point) PROVE d.status # "new"
      <4>1. RowsFor(b.point, b.seed, all.rows, all.extended)
        BY <1>9, <3>6, <3>7 DEF GoodBlock
      <4> QED
        BY <1>5, <3>1, <3>7, <4>1, PlayedEnds DEF e
    <3> QED
      BY <3>6, <3>7
  <2> QED
    BY <2>1, <2>2
<1> HIDE DEF d
<1>11. OwnGood(d) /\ OwnRan(d)
  BY <1>9, <1>10 DEF OwnGood, OwnRan
<1> QED
  BY <1>1, <1>3, <1>11, BlocksStayGood DEF b

(* An outcome of a position and a replication.                              *)
ResultGood(o, i, r) ==
  GoodOutcome(o) /\ o.point = Point(i) /\ o.seed = request.positions[i].seeds[r]
GoodSoFar(q, i, n) == IsRow(q, n) /\ \A r \in 1 .. n : ResultGood(q[r], i, r)
FlatAt(cs, l)      == FlattenSeq([c \in DOMAIN cs |-> cs[c][l]])

(* The chunks of the group so far have the outcomes of the replications     *)
(* before the next chunk.                                                   *)
ChunksOK ==
  phase # "idle" =>
    /\ Len(chunks) \in Nat /\ IsRow(chunks, Len(chunks))
    /\ Len(chunks) = 0 => start = 0
    /\ Len(chunks) # 0 => /\ DOMAIN chunks[1] = DOMAIN Group
                          /\ \A l \in DOMAIN Group : GoodSoFar(FlatAt(chunks, l), Group[l], start)

LEMMA AppendRow ==
  ASSUME NEW q, NEW n \in Nat, IsRow(q, n), NEW x
  PROVE  /\ Len(Append(q, x)) = n + 1 /\ DOMAIN Append(q, x) = 1 .. n + 1
         /\ IsRow(Append(q, x), n + 1) /\ Append(q, x)[n + 1] = x
         /\ \A i \in 1 .. n : Append(q, x)[i] = q[i]
<1> DEFINE S == {q[i] : i \in 1 .. n} \cup {x}
<1>1. Len(q) = n /\ DOMAIN q = 1 .. n /\ q \in Seq({q[i] : i \in 1 .. n})
  BY IsRowLength
<1>2. q \in Seq(S) /\ x \in S
  BY <1>1
<1> HIDE DEF S
<1>3. /\ Append(q, x) \in Seq(S) /\ Len(Append(q, x)) = n + 1 /\ Append(q, x)[n + 1] = x
      /\ \A i \in 1 .. n : Append(q, x)[i] = q[i]
  BY <1>1, <1>2, AppendProperties
<1> QED
  BY <1>3 DEF IsRow

ChainedIs(q, n, w, m) ==
  /\ IsRow(Chained(q, w), n + m) /\ \A i \in 1 .. n : Chained(q, w)[i] = q[i]
  /\ \A i \in 1 .. n + m : i > n => Chained(q, w)[i] = w[i - n]
LEMMA ConcatRow ==
  ASSUME NEW q, NEW n \in Nat, IsRow(q, n), NEW w, NEW m \in Nat, IsRow(w, m)
  PROVE  ChainedIs(q, n, w, m)
<1> DEFINE S == {q[i] : i \in 1 .. n} \cup {w[i] : i \in 1 .. m}
<1>1. /\ Len(q) = n /\ DOMAIN q = 1 .. n /\ q \in Seq({q[i] : i \in 1 .. n})
      /\ Len(w) = m /\ DOMAIN w = 1 .. m /\ w \in Seq({w[i] : i \in 1 .. m})
  BY IsRowLength
<1>2. q \in Seq(S) /\ w \in Seq(S)
  BY <1>1
<1> HIDE DEF S
<1>3. /\ q \o w \in Seq(S) /\ Len(q \o w) = n + m
      /\ \A i \in 1 .. n + m : (q \o w)[i] = IF i <= n THEN q[i] ELSE w[i - n]
  BY <1>1, <1>2, ConcatProperties
<1> QED
  BY <1>3 DEF IsRow, Chained, ChainedIs

(* A chunk has the outcomes of its trials.                                  *)
Several == MinOf(size, Count - start)
LEMMA ChunkResultGood ==
  ASSUME ExperimentInv, BlocksGood, phase = "extend", Exhausted = {}
  PROVE  /\ Several \in Nat /\ DOMAIN ChunkResult = DOMAIN Group
         /\ \A l \in DOMAIN Group :
              /\ IsRow(ChunkResult[l], Several)
              /\ \A i \in 1 .. Several : ResultGood(ChunkResult[l][i], Group[l], start + i)
<1>1. StateOK /\ RequestOK /\ GroupsOK /\ BlocksOK
  BY DEF ExperimentInv
<1>2. start \in 0 .. Count - 1 /\ size \in Nat \ {0} /\ Count \in Nat \ {0}
  BY <1>1 DEF StateOK, RequestOK, GroupsOK
<1>3. Several \in Nat /\ Several = IF size < Count - start THEN size ELSE Count - start
  BY <1>2 DEF Several, MinOf
<1>4. \A i \in 1 .. Several : start + i \in ChunkReps
  BY <1>2, <1>3 DEF ChunkReps, MinOf
<1>5. ChunkResult = [l \in DOMAIN Group |-> [i \in 1 .. Several |-> Outcome(blocks[<<l, start + i>>])]]
  BY DEF ChunkResult, Several
<1> HIDE DEF Several
<1>6. ASSUME NEW l \in DOMAIN Group, NEW i \in 1 .. Several
      PROVE  ResultGood(ChunkResult[l][i], Group[l], start + i)
  <2> DEFINE r == start + i
             t == <<l, r>>
             b == blocks[t]
  <2>1. ChunkResult[l][i] = Outcome(b)
    BY <1>5
  <2>2. t \in (DOMAIN Group) \X ChunkReps /\ t[1] = l /\ t[2] = r
    BY <1>4
  <2>3. t \in DOMAIN blocks /\ BlockOK(t, b)
    BY <1>1, <2>2 DEF BlocksOK
  <2> HIDE DEF t
  <2>4. OwnGood(b) /\ OwnRan(b) /\ b.status # "exhausted"
    BY <2>3 DEF BlocksGood, Exhausted
  <2> HIDE DEF b
  <2>5. b.point = Point(Group[l]) /\ b.seed = request.positions[Group[l]].seeds[r]
    BY <2>2, <2>3 DEF BlockOK, SeedAt
  <2>6. b.status \in Statuses
    BY <2>3 DEF BlockOK, Sound
  <2>7. ASSUME OwnOnly(b.point) PROVE GoodOutcome(Outcome(b))
    BY <2>4, <2>6, <2>7 DEF OwnGood, OwnRan, GoodBlock, Statuses
  <2>8. Outcome(b).point = b.point /\ Outcome(b).seed = b.seed
    BY OutcomeIs
  <2>9. GoodOutcome(Outcome(b))
    BY <2>7, <2>8 DEF GoodOutcome
  <2> QED
    BY <2>1, <2>5, <2>8, <2>9 DEF ResultGood
<1>7. \A l \in DOMAIN Group : IsRow(ChunkResult[l], Several)
  BY <1>5 DEF IsRow
<1>8. DOMAIN ChunkResult = DOMAIN Group
  BY <1>5
<1> QED
  BY <1>3, <1>6, <1>7, <1>8

LEMMA GoodJoined ==
  ASSUME NEW q, NEW i, NEW n \in Nat, GoodSoFar(q, i, n), NEW w, NEW m \in Nat, IsRow(w, m),
         \A k \in 1 .. m : ResultGood(w[k], i, n + k)
  PROVE  GoodSoFar(Chained(q, w), i, n + m)
<1>1. IsRow(q, n) /\ \A r \in 1 .. n : ResultGood(q[r], i, r)
  BY DEF GoodSoFar
<1>2. /\ IsRow(Chained(q, w), n + m) /\ \A k \in 1 .. n : Chained(q, w)[k] = q[k]
      /\ \A k \in 1 .. n + m : k > n => Chained(q, w)[k] = w[k - n]
  <2>1. ChainedIs(q, n, w, m)
    BY <1>1, ConcatRow
  <2> QED
    BY <2>1 DEF ChainedIs
<1>3. ASSUME NEW r \in 1 .. n + m PROVE ResultGood(Chained(q, w)[r], i, r)
  <2>1. CASE r <= n
    <3>1. r \in 1 .. n
      BY <2>1
    <3> QED
      BY <1>1, <1>2, <3>1
  <2>2. CASE r > n
    <3>1. r - n \in 1 .. m /\ n + (r - n) = r
      BY <2>2
    <3>2. Chained(q, w)[r] = w[r - n]
      BY <1>2, <2>2
    <3>3. ResultGood(w[r - n], i, n + (r - n))
      BY <3>1
    <3> QED
      BY <3>1, <3>2, <3>3
  <2> QED
    BY <2>1, <2>2
<1> QED
  BY <1>2, <1>3 DEF GoodSoFar

(* The outcomes of a position with one more chunk.                          *)
OneChunkMore(cs, result, done) == done = Append(cs, result)
LEMMA FlatMore ==
  ASSUME NEW cs, NEW N \in Nat, IsRow(cs, N), NEW result, NEW done,
         OneChunkMore(cs, result, done), NEW l
  PROVE  FlatAt(done, l) = IF N = 0 THEN result[l] ELSE Chained(FlatAt(cs, l), result[l])
<1>1. /\ DOMAIN done = 1 .. N + 1 /\ done[N + 1] = result /\ \A i \in 1 .. N : done[i] = cs[i]
      /\ DOMAIN cs = 1 .. N
  BY AppendRow, IsRowLength DEF OneChunkMore
<1> DEFINE s == [c \in DOMAIN cs |-> cs[c][l]]
           x == result[l]
           t == [c \in DOMAIN done |-> done[c][l]]
<1>2. DOMAIN s = 1 .. N /\ IsRow(s, N)
  BY <1>1 DEF IsRow
<1>3. t = [i \in 1 .. N + 1 |-> IF i \in 1 .. N THEN s[i] ELSE x]
  <2>1. DOMAIN t = 1 .. N + 1
    BY <1>1
  <2>2. ASSUME NEW i \in 1 .. N + 1 PROVE t[i] = IF i \in 1 .. N THEN s[i] ELSE x
    <3>1. i \in 1 .. N \/ i = N + 1
      OBVIOUS
    <3>2. N + 1 \notin 1 .. N
      OBVIOUS
    <3> QED
      BY <1>1, <3>1, <3>2
  <2> QED
    BY <2>1, <2>2
<1>4. FlatAt(done, l) = FlattenSeq(t) /\ FlatAt(cs, l) = FlattenSeq(s)
  BY DEF FlatAt
<1> HIDE DEF s, t, x
<1>5. Followed(s, N, x, t)
  <2>1. Len(s) = N
    BY <1>2, IsRowLength
  <2> QED
    BY <1>2, <1>3, <2>1 DEF Followed
<1>6. FlattenSeq(t) = IF N = 0 THEN x ELSE Chained(FlattenSeq(s), x)
  BY <1>5, FlattenMore
<1> QED
  BY <1>4, <1>6 DEF x

(* The chunks with one more.                                                *)
LEMMA GatheredGood ==
  ASSUME ExperimentInv, BlocksGood, ChunksOK, phase = "extend", Exhausted = {},
         NEW done, done = Append(chunks, ChunkResult)
  PROVE  /\ Len(done) \in Nat \ {0} /\ IsRow(done, Len(done)) /\ DOMAIN done[1] = DOMAIN Group
         /\ \A l \in DOMAIN Group : GoodSoFar(FlatAt(done, l), Group[l], start + Several)
<1> DEFINE N == Len(chunks)
<1>1. /\ N \in Nat /\ IsRow(chunks, N)
      /\ N = 0 => start = 0
      /\ N # 0 => /\ DOMAIN chunks[1] = DOMAIN Group
                  /\ \A l \in DOMAIN Group : GoodSoFar(FlatAt(chunks, l), Group[l], start)
  BY DEF ChunksOK
<1>2. start \in Nat
  BY DEF ExperimentInv, RequestOK, GroupsOK
<1> HIDE DEF N
<1>3. /\ Len(done) = N + 1 /\ DOMAIN done = 1 .. N + 1 /\ IsRow(done, N + 1)
      /\ done[N + 1] = ChunkResult /\ \A i \in 1 .. N : done[i] = chunks[i]
  BY <1>1, AppendRow
<1>4. /\ Several \in Nat /\ DOMAIN ChunkResult = DOMAIN Group
      /\ \A l \in DOMAIN Group :
           /\ IsRow(ChunkResult[l], Several)
           /\ \A i \in 1 .. Several : ResultGood(ChunkResult[l][i], Group[l], start + i)
  BY ChunkResultGood
<1>5. DOMAIN done[1] = DOMAIN Group
  <2>1. CASE N = 0
    BY <1>3, <1>4, <2>1
  <2>2. CASE N # 0
    <3>1. 1 \in 1 .. N
      BY <1>1, <2>2
    <3> QED
      BY <1>1, <1>3, <2>2, <3>1
  <2> QED
    BY <2>1, <2>2
<1>6. ASSUME NEW l \in DOMAIN Group
      PROVE  GoodSoFar(FlatAt(done, l), Group[l], start + Several)
  <2> DEFINE x == ChunkResult[l]
  <2>1. OneChunkMore(chunks, ChunkResult, done)
    BY DEF OneChunkMore
  <2>2. FlatAt(done, l) = IF N = 0 THEN x ELSE Chained(FlatAt(chunks, l), x)
    BY <1>1, <2>1, FlatMore
  <2>3. /\ IsRow(x, Several)
        /\ \A i \in 1 .. Several : ResultGood(x[i], Group[l], start + i)
    BY <1>4
  <2> HIDE DEF x
  <2>4. CASE N = 0
    <3>1. start = 0 /\ start + Several = Several /\ FlatAt(done, l) = x
      BY <1>1, <1>4, <2>2, <2>4
    <3>2. \A i \in 1 .. Several : start + i = i
      BY <1>4, <3>1
    <3> QED
      BY <2>3, <3>1, <3>2 DEF GoodSoFar
  <2>5. CASE N # 0
    <3>1. FlatAt(done, l) = Chained(FlatAt(chunks, l), x)
      BY <2>2, <2>5
    <3>2. GoodSoFar(FlatAt(chunks, l), Group[l], start)
      BY <1>1, <2>5
    <3>3. GoodSoFar(Chained(FlatAt(chunks, l), x), Group[l], start + Several)
      BY <1>2, <1>4, <2>3, <3>2, GoodJoined
    <3> QED
      BY <3>1, <3>3
  <2> QED
    BY <2>4, <2>5
<1>7. Len(done) \in Nat \ {0} /\ IsRow(done, Len(done))
  BY <1>1, <1>3
<1> QED
  BY <1>5, <1>6, <1>7

-----------------------------------------------------------------------------
(* What a call has of its trials *)

(* The positions are of all trials, or of those that were selected.         *)
AskedOK ==
  \/ request.trials = <<>> /\ request.positions \in {AllTrials, <<>>}
  \/ /\ request.trials \in Selections /\ request.trials # <<>>
     /\ \A i \in Range(request.trials) : i < Len(design) * Replications
     /\ request.positions = [k \in DOMAIN request.trials |-> Selected(request.trials[k])]
CoverOK == phase # "idle" => Covers(groups, Len(request.positions))

(* Each part has the outcomes of its group.                                 *)
GoodPart(part, g) ==
  \A l \in DOMAIN groups[g] : \A r \in 1 .. Count : ResultGood(part.outcomes[l][r], groups[g][l], r)
PartsOK ==
  phase # "idle" =>
    IsRow(parts, group - 1) /\ \A g \in 1 .. group - 1 : GoodPart(parts[g], g)

(* And a call that is done has those of all positions.                      *)
DoneOK ==
  results = "done" =>
    /\ phase = "idle"
    /\ \A i \in DOMAIN request.positions : \A r \in 1 .. Count : ResultGood(Merged(parts)[i][r], i, r)

Gathered    == AskedOK /\ CoverOK /\ ChunksOK /\ PartsOK /\ DoneOK
OutcomesInv == ExperimentInv /\ BlocksGood /\ Gathered

LEMMA InitGathers ==
  ASSUME Init
  PROVE  OutcomesInv
<1>1. ExperimentInv
  BY InitKeeps
<1>2. phase = "idle" /\ results = "none" /\ request.trials = <<>> /\ request.positions = <<>>
  BY DEF Init
<1>3. BlocksGood
  BY <1>2 DEF BlocksGood
<1>4. Gathered
  BY <1>2 DEF Gathered, AskedOK, CoverOK, ChunksOK, PartsOK, DoneOK
<1> QED
  BY <1>1, <1>3, <1>4 DEF OutcomesInv

(* What is asked for does not change before the next call.                  *)
SameAsked ==
  /\ design' = design /\ seeding' = seeding /\ request' = request
LEMMA AskedStays ==
  ASSUME AskedOK, SameAsked
  PROVE  AskedOK'
<1>1. AllTrials' = AllTrials /\ \A i : Selected(i)' = Selected(i)
  BY DEF SameAsked, AllTrials, Selected
<1> QED
  BY <1>1 DEF AskedOK, SameAsked

LEMMA ResultsStay ==
  ASSUME SameAsked
  PROVE  /\ Count' = Count /\ \A o, i, r : ResultGood(o, i, r)' <=> ResultGood(o, i, r)
         /\ \A q, i, n : GoodSoFar(q, i, n)' <=> GoodSoFar(q, i, n)
<1>1. Count' = Count /\ \A i : Point(i)' = Point(i)
  BY DEF SameAsked, Count, Point
<1>2. \A o, i, r : ResultGood(o, i, r)' <=> ResultGood(o, i, r)
  BY <1>1 DEF ResultGood, SameAsked
<1> QED
  BY <1>1, <1>2 DEF GoodSoFar

(* A step within a chunk.                                                   *)
LEMMA GatheredStays ==
  ASSUME Gathered, phase # "idle", SameAsked, groups' = groups, group' = group,
         start' = start, chunks' = chunks, parts' = parts, results' # "done"
  PROVE  Gathered'
<1>1. AskedOK'
  BY AskedStays DEF Gathered
<1>2. CoverOK'
  BY DEF Gathered, CoverOK, SameAsked
<1>3. /\ Count' = Count /\ \A o, i, r : ResultGood(o, i, r)' <=> ResultGood(o, i, r)
      /\ \A q, i, n : GoodSoFar(q, i, n)' <=> GoodSoFar(q, i, n)
  BY ResultsStay
<1>4. Group' = Group
  BY DEF Group
<1>5. ChunksOK'
  BY <1>3, <1>4 DEF Gathered, ChunksOK, FlatAt
<1>6. PartsOK'
  BY <1>3 DEF Gathered, PartsOK, GoodPart
<1>7. DoneOK'
  BY DEF DoneOK
<1> QED
  BY <1>1, <1>2, <1>5, <1>6, <1>7 DEF Gathered

LEMMA CallGathers ==
  ASSUME OutcomesInv, NEW trials, NEW positions, NEW memory \in Memories, NEW on_failure,
         Call(trials, positions, memory, on_failure), PositionsOK(positions),
         \/ trials = <<>> /\ positions = AllTrials
         \/ /\ trials \in Selections /\ trials # <<>>
            /\ \A i \in Range(trials) : i < Len(design) * Replications
            /\ positions = [k \in DOMAIN trials |-> Selected(trials[k])]
  PROVE  OutcomesInv'
<1>1. /\ phase = "idle" /\ phase' = "plan"
      /\ request' = [trials |-> trials, positions |-> positions, memory |-> memory,
                     on_failure |-> on_failure]
      /\ groups' = Grouped(positions) /\ group' = 1 /\ start' = 0 /\ results' = "none"
      /\ chunks' = <<>> /\ parts' = <<>>
      /\ design' = design /\ seeding' = seeding
  BY DEF Call, plan
<1>2. ExperimentInv'
  BY CallKeeps DEF OutcomesInv
<1>3. BlocksGood'
  BY <1>1 DEF BlocksGood
<1>4. request'.positions = positions /\ request'.trials = trials
  BY <1>1
<1>5. AllTrials' = AllTrials /\ \A i : Selected(i)' = Selected(i)
  BY <1>1 DEF AllTrials, Selected
<1>6. AskedOK'
  BY <1>1, <1>4, <1>5 DEF AskedOK
<1>7. CoverOK'
  <2>1. Covers(Grouped(positions), Len(positions))
    BY GroupedCover
  <2> QED
    BY <1>1, <1>4, <2>1 DEF CoverOK
<1>8. ChunksOK'
  <2>1. Len(chunks') = 0 /\ IsRow(chunks', 0)
    BY <1>1 DEF IsRow
  <2> QED
    BY <1>1, <2>1 DEF ChunksOK
<1>9. PartsOK'
  <2>1. IsRow(parts', 0)
    BY <1>1 DEF IsRow
  <2> QED
    BY <1>1, <2>1 DEF PartsOK
<1>10. DoneOK'
  BY <1>1 DEF DoneOK
<1> QED
  BY <1>2, <1>3, <1>6, <1>7, <1>8, <1>9, <1>10 DEF OutcomesInv, Gathered

LEMMA UserGathers ==
  ASSUME OutcomesInv, User
  PROVE  OutcomesInv'
<1>1. PICK memory \in Memories, on_failure \in Failures :
        \/ RunAll(memory, on_failure)
        \/ \E trials \in Selections : RunOnly(trials, memory, on_failure)
  BY DEF User
<1>2. StateOK
  BY DEF OutcomesInv, ExperimentInv
<1>3. CASE RunAll(memory, on_failure)
  <2>1. PICK positions : positions = AllTrials
    OBVIOUS
  <2>2. Call(<<>>, positions, memory, on_failure)
    BY <1>3, <2>1 DEF RunAll
  <2>3. PositionsOK(positions)
    BY <1>2, <2>1, AllTrialsAre
  <2> QED
    BY <2>1, <2>2, <2>3, CallGathers
<1>4. ASSUME NEW trials \in Selections, RunOnly(trials, memory, on_failure) PROVE OutcomesInv'
  <2>1. PICK positions : positions = [k \in DOMAIN trials |-> Selected(trials[k])]
    OBVIOUS
  <2>2. /\ trials # <<>> /\ \A i \in Range(trials) : i < Len(design) * Replications
        /\ Call(trials, positions, memory, on_failure)
    BY <1>4, <2>1 DEF RunOnly
  <2>3. PositionsOK(positions)
    BY <1>2, <2>1, <2>2, SelectedAre
  <2> QED
    BY <2>1, <2>2, <2>3, CallGathers
<1> QED
  BY <1>1, <1>3, <1>4

(* The group whose last chunk was collected.                                *)
LEMMA PartGathered ==
  ASSUME OutcomesInv, phase = "extend", Exhausted = {}, start + size >= Count,
         NEW done, done = Append(chunks, ChunkResult)
  PROVE  GoodPart(Part(done), group)
<1>1. /\ Len(done) \in Nat \ {0} /\ IsRow(done, Len(done)) /\ DOMAIN done[1] = DOMAIN Group
      /\ \A l \in DOMAIN Group : GoodSoFar(FlatAt(done, l), Group[l], start + Several)
  BY GatheredGood DEF OutcomesInv, Gathered
<1>2. start + Several = Count
  <2>1. start \in 0 .. Count - 1 /\ size \in Nat \ {0} /\ Count \in Nat \ {0}
    BY DEF OutcomesInv, ExperimentInv, StateOK, RequestOK, GroupsOK
  <2> QED
    BY <2>1 DEF Several, MinOf
<1>3. Part(done).outcomes = Joined(done)
  BY DEF Part
<1>4. \A l \in DOMAIN Group : Joined(done)[l] = FlatAt(done, l)
  BY <1>1 DEF Joined, FlatAt
<1> QED
  BY <1>1, <1>2, <1>3, <1>4 DEF GoodPart, GoodSoFar, Group

(* A position is in the group that owns it.                                 *)
LEMMA OwnerIs ==
  ASSUME ExperimentInv, CoverOK, phase # "idle", NEW i \in DOMAIN request.positions
  PROVE  /\ Owner(i)[1] \in 1 .. Len(groups) /\ Owner(i)[2] \in DOMAIN groups[Owner(i)[1]]
         /\ groups[Owner(i)[1]][Owner(i)[2]] = i
<1> DEFINE N == Len(request.positions)
           O == {<<g, l>> : g \in DOMAIN groups, l \in DOMAIN request.positions}
           Owns(o) == o[2] \in DOMAIN groups[o[1]] /\ groups[o[1]][o[2]] = i
<1>1. /\ N \in Nat \ {0} /\ DOMAIN request.positions = 1 .. N
      /\ DOMAIN groups = 1 .. Len(groups)
  BY IsRowLength DEF ExperimentInv, RequestOK, GroupsOK
<1>2. PICK g \in DOMAIN groups : \E l \in 1 .. N : l \in DOMAIN groups[g] /\ groups[g][l] = i
  BY <1>1 DEF CoverOK, Covers
<1>3. PICK l \in 1 .. N : l \in DOMAIN groups[g] /\ groups[g][l] = i
  BY <1>2
<1>4. <<g, l>> \in O /\ Owns(<<g, l>>)
  BY <1>1, <1>3
<1>5. Owner(i) = CHOOSE o \in O : Owns(o)
  BY DEF Owner
<1>6. Owner(i) \in O /\ Owns(Owner(i))
  <2> HIDE DEF O, Owns
  <2> QED
    BY <1>4, <1>5
<1> QED
  BY <1>1, <1>6

(* What the parts of all groups have, the call has.                         *)
LEMMA MergedGood ==
  ASSUME ExperimentInv, CoverOK, phase # "idle", NEW ps,
         \A g \in 1 .. Len(groups) : GoodPart(ps[g], g),
         NEW i \in DOMAIN request.positions, NEW r \in 1 .. Count
  PROVE  ResultGood(Merged(ps)[i][r], i, r)
<1>1. /\ Owner(i)[1] \in 1 .. Len(groups) /\ Owner(i)[2] \in DOMAIN groups[Owner(i)[1]]
      /\ groups[Owner(i)[1]][Owner(i)[2]] = i
  BY OwnerIs
<1>2. Merged(ps)[i] = ps[Owner(i)[1]].outcomes[Owner(i)[2]]
  BY DEF Merged
<1>3. GoodPart(ps[Owner(i)[1]], Owner(i)[1])
  BY <1>1
<1> QED
  BY <1>1, <1>2, <1>3 DEF GoodPart

LEMMA CollectGathers ==
  ASSUME OutcomesInv, Collect
  PROVE  OutcomesInv'
<1> DEFINE done == Append(chunks, ChunkResult)
           all  == Append(parts, Part(done))
<1>1. /\ phase = "extend" /\ Exhausted = {} /\ SameAsked
      /\ \/ phase' = "idle" /\ results' = "raised"
         \/ /\ ~(start + size >= Count) /\ chunks' = done /\ start' = start + size
            /\ phase' = "bind" /\ groups' = groups /\ group' = group /\ parts' = parts
            /\ results' = results
         \/ /\ start + size >= Count /\ group < Len(groups) /\ group' = group + 1
            /\ phase' = "plan" /\ parts' = all /\ chunks' = <<>> /\ start' = 0
            /\ groups' = groups /\ results' = results
         \/ /\ start + size >= Count /\ ~(group < Len(groups)) /\ parts' = all
            /\ phase' = "idle" /\ results' = "done" /\ groups' = groups
  BY DEF Collect, SameAsked, plan
<1>2. /\ ExperimentInv /\ BlocksGood /\ AskedOK /\ CoverOK /\ ChunksOK /\ PartsOK /\ DoneOK
  BY DEF OutcomesInv, Gathered
<1>3. ExperimentInv'
  BY <1>2, CollectKeeps
<1>4. BlocksGood'
  BY <1>1 DEF BlocksGood
<1>5. AskedOK'
  BY <1>1, <1>2, AskedStays
<1>6. CoverOK'
  BY <1>1, <1>2 DEF CoverOK, SameAsked
<1>7. /\ Count' = Count /\ \A o, i, r : ResultGood(o, i, r)' <=> ResultGood(o, i, r)
      /\ \A q, i, n : GoodSoFar(q, i, n)' <=> GoodSoFar(q, i, n)
  BY <1>1, ResultsStay
<1>8. /\ start \in Nat /\ size \in Nat \ {0} /\ Count \in Nat \ {0}
      /\ group \in 1 .. Len(groups) /\ Len(groups) \in Nat
  BY <1>1, <1>2 DEF ExperimentInv, StateOK, RequestOK, GroupsOK
<1>9. /\ IsRow(parts, group - 1) /\ \A g \in 1 .. group - 1 : GoodPart(parts[g], g)
      /\ results # "done"
  BY <1>1, <1>2 DEF PartsOK, DoneOK
<1>10. CASE phase' = "idle" /\ results' = "raised"
  <2>1. ChunksOK' /\ PartsOK' /\ DoneOK'
    BY <1>10 DEF ChunksOK, PartsOK, DoneOK
  <2> QED
    BY <1>3, <1>4, <1>5, <1>6, <2>1 DEF OutcomesInv, Gathered
<1>11. CASE /\ ~(start + size >= Count) /\ chunks' = done /\ start' = start + size
            /\ phase' = "bind" /\ groups' = groups /\ group' = group /\ parts' = parts
            /\ results' = results
  <2>1. /\ Len(done) \in Nat \ {0} /\ IsRow(done, Len(done)) /\ DOMAIN done[1] = DOMAIN Group
        /\ \A l \in DOMAIN Group : GoodSoFar(FlatAt(done, l), Group[l], start + Several)
    BY <1>1, <1>2, GatheredGood
  <2>2. Several = size
    BY <1>8, <1>11 DEF Several, MinOf
  <2>3. Group' = Group
    BY <1>11 DEF Group
  <2> HIDE DEF done
  <2>4. ChunksOK'
    BY <1>7, <1>11, <2>1, <2>2, <2>3 DEF ChunksOK, FlatAt
  <2>5. PartsOK'
    BY <1>7, <1>9, <1>11 DEF PartsOK, GoodPart
  <2>6. DoneOK'
    BY <1>9, <1>11 DEF DoneOK
  <2> QED
    BY <1>3, <1>4, <1>5, <1>6, <2>4, <2>5, <2>6 DEF OutcomesInv, Gathered
<1>12. ASSUME start + size >= Count
       PROVE  IsRow(all, group) /\ \A g \in 1 .. group : GoodPart(all[g], g)
  <2>1. GoodPart(Part(done), group)
    BY <1>1, <1>12, PartGathered
  <2> HIDE DEF done
  <2>2. group - 1 \in Nat /\ (group - 1) + 1 = group
    BY <1>8
  <2>3. /\ IsRow(all, (group - 1) + 1) /\ all[(group - 1) + 1] = Part(done)
        /\ \A g \in 1 .. group - 1 : all[g] = parts[g]
    BY <1>9, <2>2, AppendRow
  <2> HIDE DEF all
  <2>4. \A g \in 1 .. group : g = group \/ g \in 1 .. group - 1
    BY <1>8
  <2> QED
    BY <1>9, <2>1, <2>2, <2>3, <2>4
<1>13. CASE /\ start + size >= Count /\ group < Len(groups) /\ group' = group + 1
            /\ phase' = "plan" /\ parts' = all /\ chunks' = <<>> /\ start' = 0
            /\ groups' = groups /\ results' = results
  <2>1. IsRow(all, group) /\ \A g \in 1 .. group : GoodPart(all[g], g)
    BY <1>12, <1>13
  <2> HIDE DEF all
  <2>2. group' - 1 = group
    BY <1>8, <1>13
  <2>3. PartsOK'
    BY <1>7, <1>13, <2>1, <2>2 DEF PartsOK, GoodPart
  <2>4. Len(chunks') = 0 /\ IsRow(chunks', 0)
    BY <1>13 DEF IsRow
  <2>5. ChunksOK'
    BY <1>13, <2>4 DEF ChunksOK
  <2>6. DoneOK'
    BY <1>9, <1>13 DEF DoneOK
  <2> QED
    BY <1>3, <1>4, <1>5, <1>6, <2>3, <2>5, <2>6 DEF OutcomesInv, Gathered
<1>14. CASE /\ start + size >= Count /\ ~(group < Len(groups)) /\ parts' = all
            /\ phase' = "idle" /\ results' = "done" /\ groups' = groups
  <2>1. group = Len(groups)
    BY <1>8, <1>14
  <2>2. \A g \in 1 .. Len(groups) : GoodPart(all[g], g)
    BY <1>12, <1>14, <2>1
  <2> HIDE DEF all
  <2>3. \A i \in DOMAIN request.positions : \A r \in 1 .. Count :
          ResultGood(Merged(all)[i][r], i, r)
    BY <1>1, <1>2, <2>2, MergedGood
  <2>4. Merged(parts)' = Merged(all)
    BY <1>1, <1>14 DEF Merged, Owner, SameAsked
  <2>5. DoneOK'
    BY <1>1, <1>7, <1>14, <2>3, <2>4 DEF DoneOK, SameAsked
  <2>6. ChunksOK' /\ PartsOK'
    BY <1>14 DEF ChunksOK, PartsOK
  <2> QED
    BY <1>3, <1>4, <1>5, <1>6, <2>5, <2>6 DEF OutcomesInv, Gathered
<1> QED
  BY <1>1, <1>10, <1>11, <1>13, <1>14

LEMMA StepGathers ==
  ASSUME RawAreNatural, OutcomesInv, [Next]_vars
  PROVE  OutcomesInv'
<1>1. ExperimentInv /\ BlocksGood /\ Gathered /\ (phase # "idle" => results # "done")
  BY DEF OutcomesInv, Gathered, DoneOK
<1>2. CASE User
  BY <1>2, UserGathers
<1>3. CASE Plan
  <2>1. /\ phase = "plan" /\ phase' \in {"idle", "bind"} /\ SameAsked /\ groups' = groups
        /\ group' = group /\ start' = start /\ chunks' = chunks /\ parts' = parts
        /\ results' \in {results, "refused"}
    BY <1>3 DEF Plan, SameAsked, plan
  <2>2. ExperimentInv'
    BY <1>1, <1>3, PlanKeeps
  <2>3. BlocksGood'
    BY <2>1 DEF BlocksGood
  <2>4. Gathered'
    BY <1>1, <2>1, GatheredStays
  <2> QED
    BY <2>2, <2>3, <2>4 DEF OutcomesInv
<1>4. CASE BindChunk
  <2>1. /\ phase = "bind" /\ SameAsked /\ groups' = groups /\ group' = group /\ start' = start
        /\ chunks' = chunks /\ parts' = parts /\ results' = results
    BY <1>4 DEF BindChunk, SameAsked, plan
  <2>2. ExperimentInv' /\ BlocksGood'
    BY <1>1, <1>4, BindKeeps, BindGood
  <2>3. Gathered'
    BY <1>1, <2>1, GatheredStays
  <2> QED
    BY <2>2, <2>3 DEF OutcomesInv
<1>5. ASSUME NEW t \in DOMAIN blocks, RunTrial(t) PROVE OutcomesInv'
  <2>1. /\ phase = "native" /\ SameAsked /\ groups' = groups /\ group' = group /\ start' = start
        /\ chunks' = chunks /\ parts' = parts /\ results' = results
    BY <1>5 DEF RunTrial, SameAsked, plan
  <2>2. ExperimentInv' /\ BlocksGood'
    BY <1>1, <1>5, RunTrialKeeps, RunTrialGood
  <2>3. Gathered'
    BY <1>1, <2>1, GatheredStays
  <2> QED
    BY <2>2, <2>3 DEF OutcomesInv
<1>6. CASE Extend
  <2>1. /\ phase = "extend" /\ SameAsked /\ groups' = groups /\ group' = group /\ start' = start
        /\ chunks' = chunks /\ parts' = parts /\ results' = results
    BY <1>6 DEF Extend, SameAsked, plan
  <2>2. ExperimentInv' /\ BlocksGood'
    BY <1>1, <1>6, ExtendKeeps, ExtendKeepsGood
  <2>3. Gathered'
    BY <1>1, <2>1, GatheredStays
  <2> QED
    BY <2>2, <2>3 DEF OutcomesInv
<1>7. CASE Collect
  BY <1>7, CollectGathers
<1>8. CASE UNCHANGED vars
  <2>1. /\ design' = design /\ seeding' = seeding /\ request' = request /\ phase' = phase
        /\ groups' = groups /\ group' = group /\ start' = start /\ size' = size
        /\ row_groups' = row_groups /\ chunks' = chunks /\ parts' = parts /\ results' = results
        /\ blocks' = blocks
    BY <1>8 DEF vars, plan, work
  <2>2. ExperimentInv'
    BY <1>1, <1>8, StepKeepsInv
  <2>3. BlocksGood'
    BY <1>1, <2>1 DEF BlocksGood
  <2>4. SameAsked
    BY <2>1 DEF SameAsked
  <2>5. Gathered'
    <3>1. CASE phase # "idle"
      BY <1>1, <2>1, <2>4, <3>1, GatheredStays
    <3>2. CASE phase = "idle"
      <4>1. AskedOK'
        BY <1>1, <2>4, AskedStays DEF Gathered
      <4>2. CoverOK' /\ ChunksOK' /\ PartsOK'
        BY <2>1, <3>2 DEF CoverOK, ChunksOK, PartsOK
      <4>3. Count' = Count /\ \A o, i, r : ResultGood(o, i, r)' <=> ResultGood(o, i, r)
        BY <2>4, ResultsStay
      <4>4. Merged(parts)' = Merged(parts)
        BY <2>1 DEF Merged, Owner
      <4>5. DoneOK'
        BY <1>1, <2>1, <4>3, <4>4 DEF Gathered, DoneOK
      <4> QED
        BY <4>1, <4>2, <4>5 DEF Gathered
    <3> QED
      BY <3>1, <3>2
  <2> QED
    BY <2>2, <2>3, <2>5 DEF OutcomesInv
<1> QED
  BY <1>2, <1>3, <1>4, <1>5, <1>6, <1>7, <1>8 DEF Next, Progress

-----------------------------------------------------------------------------
(* Which trial a position is *)

LEMMA FlatIndex ==
  ASSUME NEW a \in Nat, NEW b \in Nat, NEW n \in Nat, b < n
  PROVE  (a * n + b) \div n = a /\ (a * n + b) % n = b
<1>1. n > 0 /\ a * n \in Int
  OBVIOUS
<1> DEFINE i == a * n + b
<1>2. i \in Int /\ i = n * (i \div n) + (i % n) /\ i % n \in 0 .. n - 1 /\ i \div n \in Int
  <2>1. \A x \in Int, y \in Int : y > 0 => /\ x = y * (x \div y) + (x % y) /\ x % y \in 0 .. y - 1
                                           /\ x \div y \in Int
    OBVIOUS
  <2> QED
    BY <1>1, <2>1
<1> QED
  BY <1>1, <1>2

LEMMA SelectedIs ==
  ASSUME StateOK, NEW p \in DOMAIN design, NEW replication \in 1 .. Replications,
         NEW i, i = (p - 1) * Replications + replication - 1
  PROVE  Selected(i) = [point |-> p, seeds |-> <<Seeds(seeding, p, replication)>>]
<1>1. p \in Nat /\ p - 1 \in Nat /\ (p - 1) + 1 = p
  BY DesignIs
<1>2. /\ Replications \in Nat /\ replication - 1 \in Nat /\ replication - 1 < Replications
      /\ (replication - 1) + 1 = replication
  BY CallAssumption
<1>3. i = (p - 1) * Replications + (replication - 1)
  BY <1>1, <1>2
<1>4. i \div Replications = p - 1 /\ i % Replications = replication - 1
  BY <1>1, <1>2, <1>3, FlatIndex
<1> QED
  BY <1>1, <1>2, <1>4 DEF Selected

LEMMA PositionIs ==
  ASSUME StateOK, AskedOK, NEW i \in DOMAIN request.positions, NEW r \in 1 .. Count,
         NEW p \in DOMAIN design, NEW replication \in 1 .. Replications,
         IsTrial(i, r, p, replication)
  PROVE  /\ Point(i) = design[p]
         /\ request.positions[i].seeds[r] = Seeds(seeding, p, replication)
<1>1. CASE request.trials = <<>> /\ request.positions \in {AllTrials, <<>>}
  <2>1. p = i /\ replication = r
    BY <1>1 DEF IsTrial
  <2>2. request.positions = AllTrials
    BY <1>1
  <2>3. AllTrials[p] = [point |-> p,
                        seeds |-> [k \in 1 .. Replications |-> Seeds(seeding, p, k)]]
    BY DEF AllTrials
  <2>4. request.positions[i].point = p
    BY <2>1, <2>2, <2>3
  <2>5. request.positions[i].seeds = [k \in 1 .. Replications |-> Seeds(seeding, p, k)]
    BY <2>1, <2>2, <2>3
  <2> QED
    BY <2>1, <2>4, <2>5 DEF Point
<1>2. CASE /\ request.trials \in Selections /\ request.trials # <<>>
           /\ \A k \in Range(request.trials) : k < Len(design) * Replications
           /\ request.positions = [k \in DOMAIN request.trials |-> Selected(request.trials[k])]
  <2>1. request.trials[i] = (p - 1) * Replications + replication - 1
    BY <1>2 DEF IsTrial
  <2>2. request.positions[i] = [point |-> p, seeds |-> <<Seeds(seeding, p, replication)>>]
    BY <1>2, <2>1, SelectedIs
  <2>3. Count = 1
    <3>1. DOMAIN request.trials = 1 .. Len(request.trials)
      BY <1>2, CallAssumption
    <3>2. 1 \in DOMAIN request.trials
      BY <1>2, <3>1
    <3> QED
      BY <1>2, <3>2 DEF Count, Selected
  <2> QED
    BY <2>2, <2>3 DEF Point
<1> QED
  BY <1>1, <1>2 DEF AskedOK

-----------------------------------------------------------------------------
(* The theorems about outcomes *)

(* The invariant, of every experiment.                                      *)
THEOREM OutcomesInvHolds ==
  ASSUME RawAreNatural
  PROVE  Spec => []OutcomesInv
<1>1. Init => OutcomesInv
  BY InitGathers
<1>2. OutcomesInv /\ [Next]_vars => OutcomesInv'
  BY StepGathers
<1> QED
  BY <1>1, <1>2, PTL DEF Spec

(* A trial is rerun on longer rows just as often as it has to, whatever     *)
(* rows its values were taken from and however its chunk was cut.           *)
THEOREM ExtendsLeast ==
  ASSUME RawAreNatural
  PROVE  Spec => []LeastExtended
<1>1. ASSUME OutcomesInv, results = "done",
             NEW i \in DOMAIN request.positions, NEW r \in 1 .. Count,
             ~Merged(parts)[i][r].failed,
             \A k \in DOMAIN Merged(parts)[i][r].point.reads :
               ~Merged(parts)[i][r].point.reads[k].clone,
             NEW f \in DOMAIN Merged(parts)[i][r].extended,
             SourceOf(Merged(parts)[i][r].point, f).policy = "extend"
      PROVE  LET o == Merged(parts)[i][r]
                 length == BaseLength(o.point, f) * 2 ^ o.extended[f]
             IN  o.consumed[f] <= length /\ (o.extended[f] > 0 => 2 * o.consumed[f] > length)
  <2> DEFINE o == Merged(parts)[i][r]
  <2>1. GoodOutcome(o)
    BY <1>1 DEF OutcomesInv, Gathered, DoneOK, ResultGood
  <2>2. OwnOnly(o.point)
    BY <1>1 DEF OwnOnly, OwnRead
  <2>3. Least(o)
    BY <2>1, <2>2 DEF GoodOutcome
  <2> QED
    BY <1>1, <2>3 DEF Least, Extends, Doubling
<1>2. OutcomesInv => LeastExtended
  BY <1>1 DEF LeastExtended
<1> QED
  BY <1>2, OutcomesInvHolds, PTL

(* The reads of a spawned copy are of fields that are not extended.         *)
CopiesReadOwn == \A d \in Designs : \A p \in DOMAIN d : OwnOnly(d[p])

(* A trial has the outcome of its point and its original seed alone, as if  *)
(* enough values had been generated up front.                               *)
THEOREM OutcomesAreIdeal ==
  ASSUME RawAreNatural, CopiesReadOwn
  PROVE  Spec => []OutcomesIdeal
<1>1. ASSUME OutcomesInv, results = "done",
             NEW i \in DOMAIN request.positions, NEW r \in 1 .. Count,
             NEW p \in DOMAIN design, NEW replication \in 1 .. Replications,
             IsTrial(i, r, p, replication)
      PROVE  Agrees(Merged(parts)[i][r], Ideal(design[p], Seeds(seeding, p, replication)))
  <2> DEFINE o == Merged(parts)[i][r]
  <2>1. StateOK /\ AskedOK
    BY <1>1 DEF OutcomesInv, ExperimentInv, Gathered
  <2>2. GoodOutcome(o) /\ o.point = Point(i) /\ o.seed = request.positions[i].seeds[r]
    BY <1>1 DEF OutcomesInv, Gathered, DoneOK, ResultGood
  <2>3. Point(i) = design[p] /\ request.positions[i].seeds[r] = Seeds(seeding, p, replication)
    BY <1>1, <2>1, PositionIs
  <2>4. OwnOnly(design[p])
    BY <2>1 DEF StateOK, CopiesReadOwn
  <2> QED
    BY <2>2, <2>3, <2>4 DEF GoodOutcome
<1>2. OutcomesInv => OutcomesIdeal
  BY <1>1 DEF OutcomesIdeal
<1> QED
  BY <1>2, OutcomesInvHolds, PTL

-----------------------------------------------------------------------------
(* What a report of inputs gives *)

(* What is reported of an outcome, in whatever call it has.                 *)
ReportedOf(o, f) ==
  LET s == SourceOf(o.point, f)
      g == <<o.seed, TagOf(o.point, f)>>
      n == o.consumed[f]
  IN  CASE s.kind = "empty"        -> <<>>
        [] s.kind = "trace"        -> s.data
        [] s.kind = "distribution" -> [k \in 1 .. n |-> Raw(g[1], g[2], k)]
        [] OTHER -> Again(s, g, n)
FirstTurn(o, f) ==
  LET turn == BaseLength(o.point, f)
  IN  SubSeq(ReportedOf(o, f), 1, turn) = SubSeq(ReadIn(o, f), 1, turn)
Exact(o) ==
  ~o.failed => \A f \in DOMAIN o.consumed \ SeriesFields :
                 /\ Whole(o, f)  => ReportedOf(o, f) = ReadIn(o, f)
                 /\ Longer(o, f) => FirstTurn(o, f)

(* What a trial has seen after n reads: those of a static slot are the      *)
(* first that its row or stream gives.                                      *)
OwnNext(f)       == [field |-> f, clone |-> FALSE, bucket |-> -1]
GivenBy(d, f, k) == SlotRead(d.point, d.seed, d.rows, k, OwnNext(f))
OwnSeen(d, f)  == {i \in DOMAIN d.seen : d.seen[i][1].field = f /\ ~d.seen[i][1].clone}
OwnValues(d, f) == Picked(d.seen, OwnSeen(d, f))
Slot(d, f) ==
  /\ Len(OwnValues(d, f)) = d.own[f]
  /\ \A k \in 1 .. d.own[f] :
       GivenBy(d, f, k).end = None /\ OwnValues(d, f)[k][2] = GivenBy(d, f, k).value
SeenFirst(d, n) ==
  /\ Len(d.seen) \in Nat /\ IsRow(d.seen, Len(d.seen)) /\ Len(d.seen) <= n
  /\ d.status = "new" => Len(d.seen) = n
  /\ \A i \in 1 .. Len(d.seen) : d.seen[i][1] = d.point.reads[i]
Told(d, n) ==
  SeenFirst(d, n) /\ \A f \in PartsOf[d.point.option] \ SeriesFields : Slot(d, f)

(* A trial that sees no more has been told the same.                        *)
LEMMA ToldStays ==
  ASSUME NEW d, NEW n \in Nat, Told(d, n), NEW e, e.seen = d.seen, e.own = d.own,
         e.point = d.point, e.seed = d.seed, e.rows = d.rows,
         NEW m \in Nat, n <= m, e.status = "new" => d.status = "new" /\ m = n
  PROVE  Told(e, m)
<1>1. SeenFirst(e, m)
  <2>1. Len(d.seen) \in Nat /\ Len(d.seen) <= n
    BY DEF Told, SeenFirst
  <2>2. Len(d.seen) <= m
    BY <2>1
  <2> QED
    BY <2>2 DEF Told, SeenFirst
<1>2. ASSUME NEW f \in PartsOf[d.point.option] \ SeriesFields PROVE Slot(e, f)
  <2>1. Slot(d, f)
    BY DEF Told
  <2>2. OwnSeen(e, f) = OwnSeen(d, f) /\ \A k : GivenBy(e, f, k) = GivenBy(d, f, k)
    BY DEF OwnSeen, GivenBy
  <2> QED
    BY <2>1, <2>2 DEF Slot, OwnValues
<1> QED
  BY <1>1, <1>2 DEF Told

(* One more value that is seen.                                             *)
OwnMore(d, e, n, read, f) ==
  /\ OwnSeen(d, f) \in SUBSET (1 .. n)
  /\ read.field = f /\ ~read.clone => OwnSeen(e, f) = OwnSeen(d, f) \cup {n + 1}
  /\ ~(read.field = f /\ ~read.clone) => OwnSeen(e, f) = OwnSeen(d, f)
SeesNext(d, e, read, value) == e.seen = Append(d.seen, <<read, value>>)
LEMMA SeenMore ==
  ASSUME NEW d, NEW n \in Nat, SeenFirst(d, n), d.status = "new", NEW e, NEW read, NEW value,
         SeesNext(d, e, read, value)
  PROVE  /\ Len(e.seen) = n + 1 /\ IsRow(e.seen, n + 1) /\ \A i \in 1 .. n : e.seen[i] = d.seen[i]
         /\ e.seen[n + 1] = <<read, value>>
         /\ \A f : OwnMore(d, e, n, read, f)
<1>1. Len(d.seen) = n /\ IsRow(d.seen, n)
  BY DEF SeenFirst
<1>2. /\ Len(e.seen) = n + 1 /\ DOMAIN e.seen = 1 .. n + 1 /\ IsRow(e.seen, n + 1)
      /\ e.seen[n + 1] = <<read, value>> /\ \A i \in 1 .. n : e.seen[i] = d.seen[i]
  BY <1>1, AppendRow DEF SeesNext
<1>3. DOMAIN d.seen = 1 .. n
  BY <1>1, IsRowLength
<1>4. ASSUME NEW f PROVE OwnMore(d, e, n, read, f)
  <2>1. n + 1 \in DOMAIN e.seen /\ e.seen[n + 1][1] = read
    BY <1>2
  <2>2. /\ \A i \in 1 .. n : i \in OwnSeen(e, f) <=> i \in OwnSeen(d, f)
        /\ n + 1 \in OwnSeen(e, f) <=> (read.field = f /\ ~read.clone)
    BY <1>2, <1>3, <2>1 DEF OwnSeen
  <2>3. OwnSeen(d, f) \in SUBSET (1 .. n) /\ OwnSeen(e, f) \in SUBSET (1 .. n + 1)
    BY <1>2, <1>3 DEF OwnSeen
  <2>4. \A i : i \in 1 .. n + 1 <=> i \in 1 .. n \/ i = n + 1
    OBVIOUS
  <2>5. CASE read.field = f /\ ~read.clone
    <3>1. OwnSeen(e, f) = OwnSeen(d, f) \cup {n + 1}
      BY <2>2, <2>3, <2>4, <2>5
    <3> QED
      BY <2>3, <2>5, <3>1 DEF OwnMore
  <2>6. CASE ~(read.field = f /\ ~read.clone)
    <3>1. OwnSeen(e, f) = OwnSeen(d, f)
      BY <2>2, <2>3, <2>4, <2>6
    <3> QED
      BY <2>3, <2>6, <3>1 DEF OwnMore
  <2> QED
    BY <2>5, <2>6
<1> QED
  BY <1>2, <1>4

LEMMA ToldGoes ==
  ASSUME NEW b, IsPoint(b.point), InTurn(b.point), NEW d, Kept(b, d), Running(d),
         NEW n \in Nat, Told(d, n), n + 1 \in DOMAIN b.point.reads
  PROVE  Told(Step(d, b.point.reads[n + 1]), n + 1)
<1> DEFINE p    == b.point
           read == p.reads[n + 1]
           e    == Step(d, read)
<1>1. read \in ReadsOf(p) /\ d.point = p /\ d.own \in [PartsOf[p.option] -> Nat]
  BY DEF IsPoint, Kept, Running, Counters
<1>2. e.point = p /\ e.seed = d.seed /\ e.rows = d.rows
  BY <1>1, StepKeeps DEF Kept
<1>3. CASE d.status # "new"
  <2>1. e = d
    BY <1>3 DEF Step
  <2> HIDE DEF e, read
  <2>2. Told(d, n + 1)
    BY <1>3, ToldStays
  <2> QED
    BY <2>1, <2>2 DEF e, read
<1>4. CASE d.status = "new" /\ IsFault(read)
  <2>1. e = [d EXCEPT !.status = "failed"]
    BY <1>4 DEF Step
  <2>2. e.status = "failed" /\ e.own = d.own /\ e.seen = d.seen
    BY <2>1 DEF Kept, BlockFields
  <2> HIDE DEF e, read
  <2>3. Told(e, n + 1)
    BY <1>1, <1>2, <2>2, ToldStays
  <2> QED
    BY <2>3 DEF e, read
<1>5. CASE d.status = "new" /\ ~IsFault(read)
  <2> DEFINE k == Place(d, read)
  <2>1. Ended(d, e, read) \/ Went(d, e, read)
    BY <1>1, <1>5, ReadGoes
  <2>2. read.field \in PartsOf[p.option] /\ k \in Nat \ {0}
    <3>1. k \in Nat \ {0}
      BY <1>1, <1>5, CursorsGrow
    <3>2. read.field \in PartsOf[p.option]
      BY <1>1, <1>5 DEF ReadsOf, IsFault
    <3> QED
      BY <3>1, <3>2
  <2>3. SeenFirst(d, n) /\ \A f \in PartsOf[p.option] \ SeriesFields : Slot(d, f)
    BY <1>1 DEF Told
  <2>4. ~read.clone /\ read.field \notin SeriesFields => read.bucket < 0
    BY <2>2 DEF InTurn, OwnReads
  <2>5. d.point.reads[n + 1] = read
    BY <1>1
  <2> HIDE DEF e, read
  <2>6. CASE Ended(d, e, read)
    <3>1. e.seen = d.seen /\ e.own = d.own /\ e.status # "new"
      BY <2>6 DEF Ended
    <3>2. Told(e, n + 1)
      BY <1>1, <1>2, <3>1, ToldStays
    <3> QED
      BY <3>2 DEF e, read
  <2>7. CASE Went(d, e, read)
    <3> DEFINE value == TakenBy(d, read).value
    <3>1. /\ TakenBy(d, read).end = None /\ e.status = "new" /\ SeesNext(d, e, read, value)
          /\ e.own = IF read.clone THEN d.own ELSE [d.own EXCEPT ![read.field] = MaxOf(@, k)]
      BY <2>7 DEF Went, SeesNext
    <3> HIDE DEF value
    <3>2. SeenFirst(e, n + 1)
      <4>1. /\ Len(e.seen) = n + 1 /\ IsRow(e.seen, n + 1) /\ e.seen[n + 1] = <<read, value>>
            /\ \A i \in 1 .. n : e.seen[i] = d.seen[i]
        BY <1>5, <2>3, <3>1, SeenMore
      <4>2. Len(d.seen) = n /\ \A i \in 1 .. n : d.seen[i][1] = p.reads[i]
        BY <1>1, <1>5, <2>3 DEF SeenFirst
      <4>3. \A i \in 1 .. n + 1 : i \in 1 .. n \/ i = n + 1
        OBVIOUS
      <4>4. p.reads[n + 1] = read
        BY DEF read
      <4>5. ASSUME NEW i \in 1 .. n + 1 PROVE e.seen[i][1] = p.reads[i]
        <5>1. CASE i \in 1 .. n
          BY <4>1, <4>2, <5>1
        <5>2. CASE i = n + 1
          BY <4>1, <4>4, <5>2
        <5> QED
          BY <4>3, <5>1, <5>2
      <4> QED
        BY <1>2, <4>1, <4>5 DEF SeenFirst
    <3>3. ASSUME NEW f \in PartsOf[p.option] \ SeriesFields PROVE Slot(e, f)
      <4> DEFINE I == OwnSeen(d, f)
      <4>1. Slot(d, f)
        BY <2>3
      <4>2. /\ \A i \in 1 .. n : e.seen[i] = d.seen[i]
            /\ e.seen[n + 1] = <<read, value>> /\ I \in SUBSET (1 .. n)
            /\ read.field = f /\ ~read.clone => OwnSeen(e, f) = I \cup {n + 1}
            /\ ~(read.field = f /\ ~read.clone) => OwnSeen(e, f) = I
        <5>1. /\ \A i \in 1 .. n : e.seen[i] = d.seen[i]
              /\ e.seen[n + 1] = <<read, value>> /\ OwnMore(d, e, n, read, f)
          BY <1>5, <2>3, <3>1, SeenMore
        <5> QED
          BY <5>1 DEF OwnMore
      <4>3. IsFiniteSet(I) /\ I \in SUBSET Int /\ \A i \in I : i < n + 1 /\ e.seen[i] = d.seen[i]
        <5>1. IsFiniteSet(1 .. n)
          BY FS_Interval
        <5>2. IsFiniteSet(I)
          BY <4>2, <5>1, FS_Subset
        <5>3. \A i \in I : i \in 1 .. n
          BY <4>2
        <5> QED
          BY <4>2, <5>2, <5>3
      <4>4. \A j : GivenBy(e, f, j) = GivenBy(d, f, j)
        BY <1>1, <1>2 DEF GivenBy
      <4>5. d.own[f] \in Nat /\ OwnValues(d, f) = Picked(d.seen, I) /\ Len(Picked(d.seen, I)) = d.own[f]
        BY <1>1, <4>1 DEF OwnValues, Slot
      <4> HIDE DEF I
      <4>6. /\ Picked(e.seen, I) = Picked(d.seen, I)
            /\ Len(Picked(e.seen, I \cup {n + 1})) = d.own[f] + 1
            /\ \A j \in 1 .. d.own[f] : Picked(e.seen, I \cup {n + 1})[j] = Picked(d.seen, I)[j]
            /\ Picked(e.seen, I \cup {n + 1})[d.own[f] + 1] = e.seen[n + 1]
        <5>1. PICK m \in Int : m = n + 1
          OBVIOUS
        <5>2. \A i \in I : i < m /\ e.seen[i] = d.seen[i]
          BY <4>3, <5>1
        <5>3. OneMore(d.seen, e.seen, I, m)
          BY ONLY <4>3, <5>1, <5>2, PickedMore
        <5> QED
          BY <4>5, <5>1, <5>3 DEF OneMore
      <4>7. CASE ~(read.field = f /\ ~read.clone)
        <5>1. OwnValues(e, f) = OwnValues(d, f)
          BY <4>2, <4>5, <4>6, <4>7 DEF OwnValues
        <5>2. e.own[f] = d.own[f]
          BY <1>1, <3>1, <4>7
        <5> QED
          BY <4>1, <4>4, <5>1, <5>2 DEF Slot
      <4>8. CASE read.field = f /\ ~read.clone
        <5>1. k = d.own[f] + 1
          BY <2>4, <4>8 DEF Place, Cursors
        <5>2. e.own[f] = d.own[f] + 1
          <6>1. e.own[f] = MaxOf(d.own[f], k)
            BY <1>1, <3>1, <4>8
          <6> QED
            BY <4>5, <5>1, <6>1 DEF MaxOf
        <5>3. TakenBy(d, read) = GivenBy(d, f, d.own[f] + 1)
          BY <4>8, <5>1 DEF TakenBy, GivenBy, SlotRead, OwnNext
        <5>4. OwnValues(e, f) = Picked(e.seen, I \cup {n + 1})
          BY <4>2, <4>8 DEF OwnValues
        <5>5. e.seen[n + 1][2] = GivenBy(d, f, d.own[f] + 1).value
          BY <4>2, <5>3 DEF value
        <5>6. GivenBy(d, f, d.own[f] + 1).end = None
          BY <3>1, <5>3
        <5>7. \A j \in 1 .. d.own[f] :
                GivenBy(d, f, j).end = None /\ Picked(d.seen, I)[j][2] = GivenBy(d, f, j).value
          BY <4>1, <4>5 DEF Slot
        <5>8. \A j \in 1 .. d.own[f] + 1 : j \in 1 .. d.own[f] \/ j = d.own[f] + 1
          BY <4>5
        <5>9. ASSUME NEW j \in 1 .. e.own[f]
              PROVE  GivenBy(e, f, j).end = None /\ OwnValues(e, f)[j][2] = GivenBy(e, f, j).value
          <6>1. j \in 1 .. d.own[f] \/ j = d.own[f] + 1
            BY <5>2, <5>8
          <6>2. GivenBy(e, f, j) = GivenBy(d, f, j)
            BY <4>4
          <6>3. CASE j \in 1 .. d.own[f]
            <7>1. OwnValues(e, f)[j] = Picked(d.seen, I)[j]
              BY <4>6, <5>4, <6>3
            <7> QED
              BY <5>7, <6>2, <6>3, <7>1
          <6>4. CASE j = d.own[f] + 1
            <7>1. OwnValues(e, f)[j] = e.seen[n + 1]
              BY <4>6, <5>4, <6>4
            <7> QED
              BY <5>5, <5>6, <6>2, <6>4, <7>1
          <6> QED
            BY <6>1, <6>3, <6>4
        <5> QED
          BY <4>6, <5>2, <5>4, <5>9 DEF Slot
      <4> QED
        BY <4>7, <4>8
    <3>4. Told(e, n + 1)
      BY <1>2, <3>2, <3>3 DEF Told
    <3> QED
      BY <3>4 DEF e, read
  <2> QED
    BY <2>1, <2>6, <2>7 DEF e, read
<1> QED
  BY <1>3, <1>4, <1>5

(* So has a whole trial.                                                    *)
LEMMA ToldPlayed ==
  ASSUME NEW p, IsPoint(p), InTurn(p), NEW seed, NEW rows, NEW counts,
         DOMAIN rows = PartsOf[p.option], NEW a, a = Fresh(p, seed, rows, counts)
  PROVE  /\ Kept(a, Played(a)) /\ Running(Played(a)) /\ Told(Played(a), Len(p.reads))
         /\ a.point = p /\ a.seed = seed /\ a.rows = rows
<1> DEFINE N     == Len(p.reads)
           reads == p.reads
<1>1. N \in Nat /\ DOMAIN reads = 1 .. N /\ \A k \in 1 .. N : reads[k] \in ReadsOf(p)
  BY LenProperties DEF IsPoint
<1>2. /\ DOMAIN a = BlockFields /\ a.status = "new" /\ a.point = p /\ a.seed = seed
      /\ a.rows = rows /\ a.ran_out = NoRead /\ a.seen = <<>>
      /\ a.own = [f \in PartsOf[p.option] |-> 0] /\ a.clone = [f \in PartsOf[p.option] |-> 0]
  BY DEF Fresh, BlockFields
<1>3. Kept(a, a) /\ Running(a)
  <2>1. NoRead \in ReadsOf(p)
    BY DEF NoRead, ReadsOf
  <2> QED
    BY <1>2, <2>1 DEF Kept, Statuses, Running, Counters
<1>4. Told(a, 0)
  <2>1. SeenFirst(a, 0)
    <3>1. Len(<<>>) = 0 /\ IsRow(<<>>, 0)
      BY DEF IsRow
    <3> QED
      BY <1>2, <3>1 DEF SeenFirst
  <2>2. ASSUME NEW f \in PartsOf[p.option] \ SeriesFields PROVE Slot(a, f)
    <3>1. OwnSeen(a, f) = {} /\ a.own[f] = 0
      BY <1>2 DEF OwnSeen
    <3>2. IsFiniteSet({}) /\ Cardinality({}) = 0
      BY FS_EmptySet
    <3>3. Len(Picked(a.seen, {})) = 0
      BY <3>2, PickedIs
    <3> QED
      BY <3>1, <3>3 DEF Slot, OwnValues
  <2> QED
    BY <1>2, <2>1, <2>2 DEF Told
<1>5. PICK f : SteppedSteps(f, a, reads, N)
  BY <1>1, SteppedFold
<1> DEFINE T == {n \in 0 .. N : Kept(a, f[n]) /\ Running(f[n]) /\ Told(f[n], n)}
<1>6. 0 \in T
  BY <1>1, <1>3, <1>4, <1>5 DEF SteppedSteps
<1>7. ASSUME NEW n \in 0 .. N - 1, n \in T PROVE n + 1 \in T
  <2>1. n + 1 \in 1 .. N /\ n + 1 \in 0 .. N /\ (n + 1) - 1 = n /\ n \in Nat
    BY <1>1
  <2> DEFINE d == f[n]
  <2>2. f[n + 1] = Step(d, reads[n + 1])
    BY <1>5, <2>1 DEF SteppedSteps
  <2>3. Kept(a, d) /\ Running(d) /\ Told(d, n)
    BY <1>7
  <2> HIDE DEF d
  <2>4. IsPoint(a.point) /\ InTurn(a.point) /\ a.point.reads = reads /\ n + 1 \in DOMAIN reads
        /\ reads[n + 1] \in ReadsOf(a.point)
    BY <1>1, <1>2, <2>1
  <2>5. Kept(a, Step(d, reads[n + 1]))
    BY <2>3, <2>4, StepKeeps
  <2>6. Running(Step(d, reads[n + 1]))
    BY <2>3, <2>4, CursorsGrow
  <2>7. Told(Step(d, reads[n + 1]), n + 1)
    BY <2>1, <2>3, <2>4, ToldGoes
  <2> QED
    BY <2>1, <2>2, <2>5, <2>6, <2>7
<1>8. N \in T
  <2> HIDE DEF T
  <2>1. 0 .. N \subseteq T
    BY <1>1, <1>6, <1>7, CountsUp
  <2> QED
    BY <1>1, <2>1
<1> DEFINE d == f[N]
           e == Final(d)
<1>9. Played(a) = e
  BY <1>2, <1>5 DEF Played, Final, SteppedSteps
<1>10. Kept(a, d) /\ Running(d) /\ Told(d, N)
  BY <1>8
<1> HIDE DEF d
<1>11. CASE d.status # "new"
  BY <1>2, <1>9, <1>10, <1>11 DEF Final
<1>12. CASE d.status = "new"
  <2>1. e = [d EXCEPT !.status = "success"]
    BY <1>12 DEF Final
  <2>2. /\ DOMAIN e = BlockFields /\ e.status = "success" /\ e.seen = d.seen /\ e.own = d.own
        /\ e.clone = d.clone /\ e.ran_out = d.ran_out /\ e.rows = d.rows /\ e.point = d.point
        /\ e.seed = d.seed /\ e.extended = d.extended
    BY <1>10, <2>1 DEF Kept, BlockFields
  <2> HIDE DEF e
  <2>3. Kept(a, e) /\ Running(e)
    BY <1>10, <2>2 DEF Kept, Running, Statuses
  <2>4. Told(e, N)
    BY <1>1, <1>10, <2>2, ToldStays
  <2> QED
    BY <1>2, <1>9, <2>3, <2>4
<1> QED
  BY <1>11, <1>12

(* What a trial has taken of a row, within its length, is what a row of any *)
(* allowed length begins with.                                              *)
LEMMA RowAgain ==
  ASSUME RawAreNatural, NEW d, NEW p, d.point = p, IsPoint(p), d.seed \in Nat,
         HasRows(d, d.rows), NEW f \in PartsOf[p.option], Generated(SourceOf(p, f)),
         NEW n, n \in Nat \ {0}, SourceOf(p, f).stable \/ n = Len(d.rows[f])
  PROVE  \A k \in 1 .. n : k <= Len(d.rows[f]) =>
           Row(SourceOf(p, f), <<d.seed, TagOf(p, f)>>, n)[k] = d.rows[f][k]
<1> DEFINE s   == SourceOf(p, f)
           g   == <<d.seed, TagOf(p, f)>>
           row == Row(s, g, n)
           L   == Len(d.rows[f])
<1>1. Built(s)
  BY SourceIs
<1>2. L \in Nat /\ d.rows[f] = Row(s, g, L)
  BY RowKeyIs DEF HasRows
<1>3. ASSUME NEW k \in 1 .. n, k <= L PROVE row[k] = d.rows[f][k]
  <2>1. CASE s.stable
    <3>1. k \in 0 .. L /\ k \in 0 .. n
      BY <1>2, <1>3
    <3>2. BeginsWith(s, g, k, L) /\ BeginsWith(s, g, k, n)
      BY <1>1, <1>2, <2>1, <3>1, RowIs
    <3> QED
      BY <1>2, <3>2 DEF BeginsWith
  <2>2. CASE n = L
    BY <1>2, <2>2
  <2> QED
    BY <2>1, <2>2
<1> QED
  BY <1>3

(* What a trial has taken of a row, but for what it read round, is in it.   *)
LEMMA WithinRow ==
  ASSUME NEW d, NEW p, d.point = p, IsPoint(p), d.own \in Counters(p), HasRows(d, d.rows),
         NEW f \in PartsOf[p.option], Slot(d, f), Generated(SourceOf(p, f)),
         NEW m \in 0 .. d.own[f], m <= BaseLength(p, f) \/ SourceOf(p, f).policy # "wrap"
  PROVE  m <= Len(d.rows[f]) /\ \A k \in 1 .. m : OwnValues(d, f)[k][2] = d.rows[f][k]
<1> DEFINE s == SourceOf(p, f)
           N == d.own[f]
           L == Len(d.rows[f])
<1>1. N \in Nat /\ L \in Nat /\ BaseLength(p, f) <= L /\ BaseLength(p, f) \in Nat
  BY SourceIs DEF HasRows, Counters
<1>2. s.policy \in Policies /\ s.kind # "empty" /\ s.kind # "distribution"
  BY SourceIs DEF Built, Generated, Rows
<1>3. \A k : GivenBy(d, f, k) = Taken(k, d.rows[f], s.policy)
  BY <1>2 DEF GivenBy, SlotRead, OwnNext
<1>4. \A k \in 1 .. N : Taken(k, d.rows[f], s.policy).end = None
                        /\ OwnValues(d, f)[k][2] = Taken(k, d.rows[f], s.policy).value
  BY <1>3 DEF Slot
<1>5. m \in Nat /\ m <= N /\ (s.policy = "wrap" => m <= L)
  BY <1>1
<1> HIDE DEF N, L, s
<1>6. ASSUME NEW k \in 1 .. m PROVE k <= L /\ OwnValues(d, f)[k][2] = d.rows[f][k]
  <2>1. k \in 1 .. N
    BY <1>1, <1>5
  <2>2. Taken(k, d.rows[f], s.policy).end = None
    BY <1>4, <2>1
  <2>3. d.rows[f] # <<>>
    <3> SUFFICES ASSUME d.rows[f] = <<>> PROVE FALSE
      OBVIOUS
    <3>1. Taken(k, d.rows[f], s.policy).end = "failed"
      BY DEF Taken
    <3> QED
      BY <2>2, <3>1 DEF None
  <2>4. k <= L
    <3> SUFFICES ASSUME ~(k <= L) PROVE FALSE
      OBVIOUS
    <3>1. s.policy # "wrap"
      BY <1>1, <1>5
    <3>2. Taken(k, d.rows[f], s.policy).end \in {"success", "exhausted", "failed"}
      BY <1>2, <2>3, <3>1 DEF Taken, Policies, L
    <3> QED
      BY <2>2, <3>2 DEF None
  <2>5. Taken(k, d.rows[f], s.policy).value = d.rows[f][k]
    BY <2>3, <2>4 DEF Taken, L
  <2> QED
    BY <1>4, <2>1, <2>4, <2>5
<1>7. m <= L
  <2>1. m # 0 => m \in 1 .. m
    BY <1>5
  <2> QED
    BY <1>1, <1>5, <1>6, <2>1
<1> QED
  BY <1>6, <1>7 DEF L

(* What a trial saw is what is reported of it.                              *)
LEMMA ToldExact ==
  ASSUME RawAreNatural, NEW d, NEW n \in Nat, Told(d, n), NEW p, d.point = p, IsPoint(p),
         d.own \in Counters(p), HasRows(d, d.rows), d.seed \in Nat
  PROVE  Exact(Outcome(d))
<1> DEFINE o == Outcome(d)
<1>1. /\ o.point = p /\ o.seed = d.seed /\ o.failed = (d.status # "success")
      /\ o.consumed = d.own /\ (d.status = "success" => o.seen = d.seen)
  BY DEF Outcome
<1> HIDE DEF o
<1> SUFFICES ASSUME d.status = "success", NEW f \in PartsOf[p.option] \ SeriesFields,
                    Whole(o, f) \/ Longer(o, f)
             PROVE  /\ Whole(o, f) => ReportedOf(o, f) = ReadIn(o, f)
                    /\ Longer(o, f) => FirstTurn(o, f)
  BY <1>1 DEF Exact, Counters, o
<1> DEFINE s      == SourceOf(p, f)
           g      == <<d.seed, TagOf(p, f)>>
           N      == d.own[f]
           values == [k \in 1 .. N |-> OwnValues(d, f)[k][2]]
<1>2. Slot(d, f) /\ SeenFirst(d, n) /\ N \in Nat
  BY DEF Told, Counters
<1>3. ReadIn(o, f) = values
  <2>1. OwnSeen(d, f) \in SUBSET Int /\ IsFiniteSet(OwnSeen(d, f))
    <3>1. DOMAIN d.seen = 1 .. Len(d.seen) /\ Len(d.seen) \in Nat
      BY <1>2, IsRowLength DEF SeenFirst
    <3>2. OwnSeen(d, f) \in SUBSET (1 .. Len(d.seen))
      BY <3>1 DEF OwnSeen
    <3>3. IsFiniteSet(1 .. Len(d.seen))
      BY <3>1, FS_Interval
    <3> QED
      BY <3>2, <3>3, FS_Subset
  <2>2. DOMAIN OwnValues(d, f) = 1 .. N
    <3>1. OwnValues(d, f) = [k \in 1 .. Len(OwnValues(d, f)) |-> OwnValues(d, f)[k]]
      BY <2>1, PickedIs DEF OwnValues
    <3> QED
      BY <1>2, <3>1 DEF Slot
  <2>3. ReadIn(o, f) = [k \in DOMAIN OwnValues(d, f) |-> OwnValues(d, f)[k][2]]
    BY <1>1 DEF ReadIn, OwnValues, OwnSeen
  <2> QED
    BY <2>2, <2>3
<1>4. /\ s.kind = "empty" => ReportedOf(o, f) = <<>>
      /\ s.kind = "distribution" => ReportedOf(o, f) = [k \in 1 .. N |-> Raw(g[1], g[2], k)]
      /\ Generated(s) => ReportedOf(o, f) = Again(s, g, N)
  BY <1>1 DEF ReportedOf, Generated, Rows
<1>5. Built(s) /\ g[1] = d.seed /\ g[2] = TagOf(p, f)
  BY SourceIs
<1>6. \A k \in 1 .. N : GivenBy(d, f, k).end = None /\ OwnValues(d, f)[k][2] = GivenBy(d, f, k).value
  BY <1>2 DEF Slot
<1> HIDE DEF g
<1> DEFINE B == BaseLength(p, f)
           L == Len(d.rows[f])
<1>10. /\ ReadRound(o, f) <=> (Generated(s) /\ s.policy = "wrap" /\ N > B)
       /\ FromLength(o, f) <=> (Generated(s) /\ ~s.stable /\ N # B)
       /\ Whole(o, f) <=> (s.kind # "trace" /\ ~ReadRound(o, f) /\ ~FromLength(o, f))
       /\ Longer(o, f) <=> (/\ ReadRound(o, f) /\ ~FromLength(o, f)
                            /\ s.max = NoMax \/ N <= s.max)
  <2>1. o.consumed[f] = N /\ SourceOf(o.point, f) = s /\ BaseLength(o.point, f) = B
    BY <1>1
  <2>2. ReadRound(o, f) <=> (Generated(s) /\ s.policy = "wrap" /\ N > B)
    BY <2>1 DEF ReadRound
  <2>3. FromLength(o, f) <=> (Generated(s) /\ ~s.stable /\ N # B)
    BY <2>1, Zenon DEF FromLength
  <2>4. Whole(o, f) <=> (s.kind # "trace" /\ ~ReadRound(o, f) /\ ~FromLength(o, f))
    BY <2>1 DEF Whole
  <2>5. Longer(o, f) <=> (/\ ReadRound(o, f) /\ ~FromLength(o, f)
                          /\ s.max = NoMax \/ N <= s.max)
    BY <2>1 DEF Longer
  <2> QED
    BY <2>2, <2>3, <2>4, <2>5, Zenon
<1>11. s.kind # "trace" /\ (s.kind = "empty" \/ s.kind = "distribution" => ~Longer(o, f))
  <2>1. Generated(s) => s.kind # "trace" /\ s.kind # "empty" /\ s.kind # "distribution"
    BY DEF Generated, Rows
  <2> QED
    BY <1>10, <2>1, Zenon
<1>7. CASE s.kind = "empty"
  <2>1. \A k : GivenBy(d, f, k).end = "failed"
    BY <1>7 DEF GivenBy, SlotRead, OwnNext
  <2>2. N = 0
    <3>1. N # 0 => 1 \in 1 .. N
      BY <1>2
    <3> QED
      BY <1>6, <2>1, <3>1 DEF None
  <2>3. values = <<>>
    BY <2>2
  <2> QED
    BY <1>3, <1>4, <1>7, <1>11, <2>3
<1>8. CASE s.kind = "distribution"
  <2>1. \A k : GivenBy(d, f, k).value = Raw(d.seed, TagOf(p, f), k)
    BY <1>8 DEF GivenBy, SlotRead, OwnNext
  <2>2. \A k \in 1 .. N : OwnValues(d, f)[k][2] = Raw(g[1], g[2], k)
    BY <1>5, <1>6, <2>1
  <2> QED
    BY <1>3, <1>4, <1>8, <1>11, <2>2
<1>9. CASE Generated(s)
  <2> DEFINE M   == MaxOf(1, N)
             row == Row(s, g, M)
  <2>1. /\ B \in Nat /\ L \in Nat /\ B <= L
        /\ s.max = NoMax \/ (L <= s.max /\ s.max \in Nat \ {0})
        /\ s.stable \/ L = B
    BY <1>5, <1>9, SourceIs DEF HasRows, Allowed, Built, Generated
  <2>2. M \in Nat \ {0} /\ N <= M /\ (N # 0 => M = N)
    BY <1>2 DEF MaxOf
  <2>3. ReportedOf(o, f) = IF s.max # NoMax /\ M > s.max THEN NoRows ELSE SubSeq(row, 1, N)
    BY <1>4, <1>9 DEF Again
  <2>4. ASSUME NEW m \in 0 .. N, m <= B \/ s.policy # "wrap", N = 0 \/ s.stable \/ N = L
        PROVE  m <= L /\ \A k \in 1 .. m : row[k] = values[k]
    <3>1. m <= L /\ \A k \in 1 .. m : OwnValues(d, f)[k][2] = d.rows[f][k]
      BY <1>2, <1>9, <2>4, WithinRow
    <3>2. CASE N = 0
      BY <1>2, <3>1, <3>2
    <3>3. CASE N # 0
      <4>1. m \in 0 .. M /\ (s.stable \/ M = L)
        BY <1>2, <2>2, <2>4, <3>3
      <4>2. \A k \in 1 .. m : row[k] = d.rows[f][k]
        <5>1. PICK x : x = M
          OBVIOUS
        <5>2. x \in Nat \ {0} /\ \A k \in 1 .. m : k \in 1 .. x /\ k <= Len(d.rows[f])
          BY <1>2, <2>2, <3>1, <4>1, <5>1
        <5>3. f \in PartsOf[p.option] /\ (SourceOf(p, f).stable \/ x = Len(d.rows[f]))
          BY <1>9, <4>1, <5>1, Zenon
        <5>4. \A k \in 1 .. x : k <= Len(d.rows[f]) =>
                Row(SourceOf(p, f), <<d.seed, TagOf(p, f)>>, x)[k] = d.rows[f][k]
          BY <1>9, <5>2, <5>3, RowAgain, SMTT(60)
        <5>5. row = Row(SourceOf(p, f), <<d.seed, TagOf(p, f)>>, x)
          BY <5>1 DEF g
        <5> QED
          BY <5>2, <5>4, <5>5, Zenon
      <4>3. \A k \in 1 .. m : k \in 1 .. N
        BY <1>2
      <4> QED
        BY <3>1, <4>2, <4>3
    <3> QED
      BY <3>2, <3>3
  <2> HIDE DEF row, M
  <2>6. ASSUME Whole(o, f) PROVE ReportedOf(o, f) = ReadIn(o, f)
    <3>0. ~(s.policy = "wrap" /\ N > B) /\ ~(~s.stable /\ N # B)
      BY <1>9, <1>10, <2>6, Zenon
    <3>1. (s.policy = "wrap" => N <= B) /\ (s.stable \/ N = B)
      <4>1. s.policy = "wrap" => N <= B
        BY <1>2, <2>1, <3>0
      <4>2. s.stable \/ N = B
        BY <3>0, Zenon
      <4> QED
        BY <4>1, <4>2, Zenon
    <3>2. N <= L /\ \A k \in 1 .. N : row[k] = values[k]
      <4>1. N \in 0 .. N /\ (N <= B \/ s.policy # "wrap") /\ (N = 0 \/ s.stable \/ N = L)
        BY <1>2, <2>1, <3>1
      <4> QED
        BY <2>4, <4>1
    <3>3. ~(s.max # NoMax /\ M > s.max)
      BY <1>2, <2>1, <2>2, <3>2 DEF MaxOf, M
    <3>4. SubSeq(row, 1, N) = [k \in 1 .. N |-> row[k]]
      BY <1>2
    <3>5. [k \in 1 .. N |-> row[k]] = values
      BY <3>2
    <3> QED
      BY <1>3, <2>3, <3>3, <3>4, <3>5
  <2>7. ASSUME Longer(o, f) PROVE FirstTurn(o, f)
    <3>1. N > B /\ s.stable /\ (s.max = NoMax \/ N <= s.max)
      <4>1. N > B => N # B
        BY <1>2, <2>1
      <4> QED
        BY <1>9, <1>10, <2>7, <4>1, Zenon
    <3>2. \A k \in 1 .. B : row[k] = values[k]
      <4>1. B \in 0 .. N
        BY <1>2, <2>1, <3>1
      <4>2. B <= B
        BY <2>1
      <4> QED
        BY <2>4, <3>1, <4>1, <4>2, Zenon
    <3>3. N # 0 /\ M = N
      BY <1>2, <2>1, <2>2, <3>1
    <3>4. ReportedOf(o, f) = SubSeq(row, 1, N)
      BY <1>2, <2>1, <2>3, <3>1, <3>3
    <3>5. \A q, w : B <= N =>
            /\ SubSeq(SubSeq(q, 1, N), 1, B) = [k \in 1 .. B |-> q[k]]
            /\ SubSeq([k \in 1 .. N |-> w[k]], 1, B) = [k \in 1 .. B |-> w[k]]
      BY <1>2, <2>1
    <3>6. SubSeq(values, 1, B) = [k \in 1 .. B |-> values[k]]
      BY <1>2, <2>1, <3>1
    <3>7. SubSeq(ReportedOf(o, f), 1, B) = [k \in 1 .. B |-> row[k]]
      BY <1>2, <2>1, <3>1, <3>4, <3>5
    <3>8. [k \in 1 .. B |-> row[k]] = [k \in 1 .. B |-> values[k]]
      BY <3>2
    <3> QED
      BY <1>1, <1>3, <3>6, <3>7, <3>8 DEF FirstTurn
  <2> QED
    BY <2>6, <2>7
<1> QED
  BY <1>5, <1>7, <1>8, <1>9, <1>11 DEF Built, Generated, Rows

-----------------------------------------------------------------------------
(* The blocks, whose outcomes are reported                                  *)

ExactBlock(b) ==
  /\ Exact(Outcome(b))
  /\ b.status = "new" => b = Fresh(b.point, b.seed, b.rows, b.extended)
BlocksExact == phase \in {"native", "extend"} => \A t \in DOMAIN blocks : ExactBlock(blocks[t])

LEMMA UnendedExact ==
  ASSUME NEW b, b.status # "success"
  PROVE  Exact(Outcome(b))
BY DEF Exact, Outcome

LEMMA PointReports ==
  ASSUME Reportable, StateOK, RequestOK, GroupsOK, phase # "idle",
         NEW t \in (DOMAIN Group) \X ChunkReps
  PROVE  InTurn(Point(Group[t[1]]))
<1>1. t[1] \in DOMAIN Group
  OBVIOUS
<1>2. Group[t[1]] \in 1 .. Len(request.positions)
  BY <1>1, GroupIs
<1>3. request.positions[Group[t[1]]].point \in DOMAIN design /\ design \in Designs
  BY <1>2 DEF RequestOK, StateOK
<1> QED
  BY <1>3 DEF Point, Reportable

(* A trial that ran from its start has an outcome that is reported.         *)
LEMMA PlayedExact ==
  ASSUME RawAreNatural, NEW p, IsPoint(p), InTurn(p), NEW seed \in Nat,
         NEW rows, NEW counts, NEW a, a = Fresh(p, seed, rows, counts), HasRows(a, rows)
  PROVE  ExactBlock(Played(a))
<1>1. a.point = p /\ a.seed = seed /\ a.rows = rows
  BY DEF Fresh
<1>2. DOMAIN rows = PartsOf[p.option]
  BY <1>1 DEF HasRows
<1> DEFINE d == Played(a)
           n == Len(p.reads)
<1>3. /\ Kept(a, d) /\ Running(d) /\ Told(d, n)
  BY <1>2, ToldPlayed
<1>4. DOMAIN p.reads = 1 .. n /\ n \in Nat
  BY LenProperties DEF IsPoint
<1>5. d.status # "new"
  <2> DEFINE end == Stepped(a, a.point.reads)
  <2>1. d = IF end.status = "new" THEN [end EXCEPT !.status = "success"] ELSE end
    BY DEF Played
  <2>2. DOMAIN d = BlockFields
    BY <1>3 DEF Kept
  <2> HIDE DEF end
  <2>3. CASE end.status = "new"
    <3>1. d = [end EXCEPT !.status = "success"]
      BY <2>1, <2>3
    <3> HIDE DEF d
    <3>2. DOMAIN end = BlockFields
      BY <2>2, <3>1
    <3> QED
      BY <3>1, <3>2 DEF BlockFields
  <2>4. CASE end.status # "new"
    BY <2>1, <2>4
  <2> QED
    BY <2>3, <2>4
<1> HIDE DEF d
<1>6. d.point = p /\ d.seed = seed /\ d.rows = rows
  BY <1>1, <1>3 DEF Kept
<1>7. d.own \in Counters(p) /\ HasRows(d, d.rows)
  BY <1>1, <1>3, <1>6 DEF Running, HasRows
<1>8. Exact(Outcome(d))
  <2> HIDE DEF n
  <2> QED
    BY <1>3, <1>4, <1>6, <1>7, ToldExact
<1> QED
  BY <1>5, <1>8 DEF ExactBlock, d

LEMMA BindExact ==
  ASSUME BindChunk
  PROVE  BlocksExact'
<1> DEFINE bound == Bound(cache[Home], request.memory)
           row(p, f, seed) == LET s == SourceOf(p, f)
                              IN  IF Generated(s) THEN bound.rows[RowKey(p, f, seed, BaseLength(p, f))]
                                  ELSE IF s.kind = "trace" THEN s.data ELSE <<>>
           rows(p, seed) == [f \in PartsOf[p.option] |-> row(p, f, seed)]
           none(p) == [f \in PartsOf[p.option] |-> 0]
           block(l, r) == Fresh(Point(Group[l]), SeedAt(l, r), rows(Point(Group[l]), SeedAt(l, r)),
                                none(Point(Group[l])))
<1>1. blocks' = [t \in (DOMAIN Group) \X ChunkReps |-> block(t[1], t[2])]
  BY DEF BindChunk, plan
<1>2. \A p, seed, w, c : /\ Fresh(p, seed, w, c).status = "new" /\ Fresh(p, seed, w, c).point = p
                         /\ Fresh(p, seed, w, c).seed = seed /\ Fresh(p, seed, w, c).rows = w
                         /\ Fresh(p, seed, w, c).extended = c
  BY DEF Fresh
<1> HIDE DEF rows, none
<1>3. ASSUME NEW t \in DOMAIN blocks' PROVE ExactBlock(blocks'[t])
  <2> DEFINE b == blocks'[t]
  <2>1. PICK p, seed, w, c : b = Fresh(p, seed, w, c)
    BY <1>1
  <2> HIDE DEF b
  <2>2. b.status = "new" /\ b = Fresh(b.point, b.seed, b.rows, b.extended)
    BY <1>2, <2>1
  <2> QED
    BY <2>2, UnendedExact DEF ExactBlock, b
<1> QED
  BY <1>3 DEF BlocksExact

LEMMA BlocksStayExact ==
  ASSUME BlocksExact, phase \in {"native", "extend"}, NEW t \in DOMAIN blocks, NEW d,
         blocks' = [blocks EXCEPT ![t] = d], ExactBlock(d)
  PROVE  BlocksExact'
<1>1. \A u \in DOMAIN blocks' : u \in DOMAIN blocks /\ blocks'[u] = IF u = t THEN d ELSE blocks[u]
  OBVIOUS
<1> QED
  BY <1>1 DEF BlocksExact

LEMMA RunTrialExact ==
  ASSUME RawAreNatural, Reportable, ExperimentInv, BlocksExact, NEW t \in DOMAIN blocks, RunTrial(t)
  PROVE  BlocksExact'
<1> DEFINE b == blocks[t]
<1>1. /\ phase = "native" /\ b.status = "new"
      /\ blocks' = [blocks EXCEPT ![t] = Played(b)]
  BY DEF RunTrial, plan
<1>2. StateOK /\ RequestOK /\ GroupsOK /\ phase # "idle"
  BY <1>1 DEF ExperimentInv
<1>3. BlockOK(t, b) /\ t \in (DOMAIN Group) \X ChunkReps
  BY <1>1 DEF ExperimentInv, BlocksOK
<1>4. /\ IsPoint(b.point) /\ HasRows(b, b.rows) /\ b.seed \in Nat
      /\ InTurn(b.point)
  BY <1>2, <1>3, TrialIs, PointReports DEF BlockOK, Sound
<1>5. b = Fresh(b.point, b.seed, b.rows, b.extended)
  BY <1>1 DEF BlocksExact, ExactBlock
<1> HIDE DEF b
<1>6. ExactBlock(Played(b))
  BY <1>4, <1>5, PlayedExact
<1> QED
  BY <1>1, <1>6, BlocksStayExact DEF b

LEMMA ExtendExact ==
  ASSUME RawAreNatural, Reportable, ExperimentInv, BlocksExact, Extend
  PROVE  BlocksExact'
<1> DEFINE t   == CHOOSE t \in Exhausted : \A u \in Exhausted \ {t} : Earlier(t, u)
           b   == blocks[t]
           c   == cache[Home]
           all == Extended(b, c, request.memory)
           d   == Rerun(b, all)
<1>1. /\ phase = "extend" /\ Exhausted # {} /\ blocks' = [blocks EXCEPT ![t] = d]
  BY DEF Extend, plan, Rerun
<1>2. /\ StateOK /\ RequestOK /\ GroupsOK /\ BlocksOK /\ phase # "idle"
      /\ request.memory \in Nat
  BY <1>1 DEF ExperimentInv, RequestOK
<1>3. t \in DOMAIN blocks /\ b.status = "exhausted"
  <2>1. \E u \in Exhausted : \A v \in Exhausted \ {u} : Earlier(u, v)
    BY <1>1, <1>2, FirstExhausted
  <2>2. t \in Exhausted
    BY <2>1
  <2> HIDE DEF t
  <2> QED
    BY <2>2 DEF Exhausted
<1> HIDE DEF t
<1>4. BlockOK(t, b) /\ t \in (DOMAIN Group) \X ChunkReps
  BY <1>1, <1>2, <1>3 DEF BlocksOK
<1>5. /\ IsPoint(b.point) /\ Sound(b) /\ b.seed \in Nat
      /\ InTurn(b.point)
  BY <1>2, <1>4, TrialIs, PointReports DEF BlockOK
<1>6. SoundCache(c)
  BY <1>2, GroupIs DEF ExperimentInv, CachesOK
<1>7. HasRows(b, all.rows)
  <2>1. ExtendedSo(b, all, c, request.memory)
    BY <1>2, <1>3, <1>5, <1>6, ExtendedIs DEF Sound
  <2> QED
    BY <2>1 DEF ExtendedSo
<1> HIDE DEF all, b
<1>8. ExactBlock(d)
  <2>1. CASE Len(Extensible(b)) < Len(Targets(b)) \/ Targets(b) = <<>>
    <3>1. d = [b EXCEPT !.status = "failed", !.extended = all.extended]
      BY <2>1 DEF Rerun
    <3> HIDE DEF d
    <3>2. d.status = "failed"
      BY <1>5, <3>1 DEF Sound, BlockFields
    <3> QED
      BY <3>2, UnendedExact DEF ExactBlock
  <2>2. CASE ~(Len(Extensible(b)) < Len(Targets(b)) \/ Targets(b) = <<>>)
    <3> DEFINE e == Fresh(b.point, b.seed, all.rows, all.extended)
    <3>1. d = Played(e)
      BY <2>2 DEF Rerun, Replayed
    <3>2. e.point = b.point /\ e.seed = b.seed
      BY DEF Fresh
    <3> HIDE DEF d
    <3>3. PICK x : x = e
      OBVIOUS
    <3>4. HasRows(x, all.rows)
      BY <1>7, <3>2, <3>3 DEF HasRows
    <3> HIDE DEF e
    <3>5. ExactBlock(Played(x))
      BY <1>5, <3>3, <3>4, PlayedExact DEF e
    <3> QED
      BY <3>1, <3>3, <3>5
  <2> QED
    BY <2>1, <2>2
<1> HIDE DEF d
<1> QED
  BY <1>1, <1>3, <1>8, BlocksStayExact DEF b

-----------------------------------------------------------------------------
(* Where a report finds an outcome *)

(* The outcome that is found by the size of the chunks is the one that is   *)
(* joined at its place, and is reported exactly.                            *)
CellOf(cs, n, l, r) == cs[((r - 1) \div n) + 1][l][((r - 1) % n) + 1]
CellsExact(q, cs, n, l, k) == \A r \in 1 .. k : q[r] = CellOf(cs, n, l, r) /\ Exact(q[r])
ChunksExact ==
  phase # "idle" =>
    /\ start = Len(chunks) * size /\ (phase = "plan" => Len(chunks) = 0)
    /\ \A l \in DOMAIN Group : CellsExact(FlatAt(chunks, l), chunks, size, l, start)

(* Each part, and a call that is done.                                      *)
ExactPart(part, g) ==
  \A l \in DOMAIN groups[g] : \A r \in 1 .. Count :
    Cell(part, l, r) = part.outcomes[l][r] /\ Exact(part.outcomes[l][r])
PartsExact == phase # "idle" => \A g \in 1 .. group - 1 : ExactPart(parts[g], g)
ExactAt(ps, i, r) ==
  Cell(ps[Owner(i)[1]], Owner(i)[2], r) = Merged(ps)[i][r] /\ Exact(Merged(ps)[i][r])
DoneExact ==
  results = "done" => \A i \in DOMAIN request.positions : \A r \in 1 .. Count : ExactAt(parts, i, r)

Reporting  == ChunksExact /\ PartsExact /\ DoneExact
ReportsInv == OutcomesInv /\ BlocksExact /\ Reporting

(* What a chunk has is reported exactly.                                    *)
LEMMA ChunkResultExact ==
  ASSUME ExperimentInv, BlocksExact, phase = "extend"
  PROVE  \A l \in DOMAIN Group : \A i \in 1 .. Several : Exact(ChunkResult[l][i])
<1>1. StateOK /\ RequestOK /\ GroupsOK /\ BlocksOK
  BY DEF ExperimentInv
<1>2. start \in 0 .. Count - 1 /\ size \in Nat \ {0} /\ Count \in Nat \ {0}
  BY <1>1 DEF StateOK, RequestOK, GroupsOK
<1>3. Several \in Nat /\ Several = IF size < Count - start THEN size ELSE Count - start
  BY <1>2 DEF Several, MinOf
<1>4. \A i \in 1 .. Several : start + i \in ChunkReps
  BY <1>2, <1>3 DEF ChunkReps, MinOf
<1>5. ChunkResult = [l \in DOMAIN Group |-> [i \in 1 .. Several |-> Outcome(blocks[<<l, start + i>>])]]
  BY DEF ChunkResult, Several
<1> HIDE DEF Several
<1>6. ASSUME NEW l \in DOMAIN Group, NEW i \in 1 .. Several PROVE Exact(ChunkResult[l][i])
  <2>1. <<l, start + i>> \in DOMAIN blocks
    BY <1>1, <1>4 DEF BlocksOK
  <2>2. Exact(Outcome(blocks[<<l, start + i>>]))
    BY <2>1 DEF BlocksExact, ExactBlock
  <2> QED
    BY <1>5, <2>2
<1> QED
  BY <1>6

LEMMA CellsJoined ==
  ASSUME NEW cs, NEW N \in Nat, IsRow(cs, N), NEW n \in Nat \ {0}, NEW m \in Nat, m <= n,
         NEW result, NEW done, OneChunkMore(cs, result, done), NEW l, NEW k, k = N * n,
         N # 0 => IsRow(FlatAt(cs, l), k), CellsExact(FlatAt(cs, l), cs, n, l, k),
         IsRow(result[l], m), \A i \in 1 .. m : Exact(result[l][i])
  PROVE  CellsExact(FlatAt(done, l), done, n, l, k + m)
<1> DEFINE q == FlatAt(cs, l)
           w == FlatAt(done, l)
<1>1. done[N + 1] = result /\ \A i \in 1 .. N : done[i] = cs[i]
  BY AppendRow DEF OneChunkMore
<1>2. k \in Nat /\ (N = 0 => k = 0)
  OBVIOUS
<1>3. /\ \A r \in 1 .. k : w[r] = q[r]
      /\ \A r \in 1 .. k + m : r > k => w[r] = result[l][r - k]
  <2>1. w = IF N = 0 THEN result[l] ELSE Chained(q, result[l])
    BY FlatMore
  <2> HIDE DEF w
  <2>2. CASE N = 0
    <3>1. \A r \in 1 .. k + m : r - k = r
      BY <1>2, <2>2
    <3> QED
      BY <1>2, <2>1, <2>2, <3>1
  <2>3. CASE N # 0
    <3>1. IsRow(q, k)
      BY <2>3
    <3> HIDE DEF q
    <3>2. ChainedIs(q, k, result[l], m)
      BY <1>2, <3>1, ConcatRow
    <3> QED
      BY <2>1, <2>3, <3>2 DEF ChainedIs
  <2> QED
    BY <2>2, <2>3
<1>4. \A r \in 1 .. k : q[r] = CellOf(cs, n, l, r) /\ Exact(q[r])
  BY DEF CellsExact
<1> HIDE DEF q, w
<1>5. ASSUME NEW r \in 1 .. k + m PROVE w[r] = CellOf(done, n, l, r) /\ Exact(w[r])
  <2>1. CASE r <= k
    <3>1. r \in 1 .. k /\ r - 1 \in Nat /\ r - 1 < N * n /\ n > 0
      BY <1>2, <2>1
    <3>2. (r - 1) \div n \in 0 .. N - 1
      BY <3>1, QuotientIs
    <3>3. ((r - 1) \div n) + 1 \in 1 .. N
      BY <3>2
    <3>4. CellOf(done, n, l, r) = CellOf(cs, n, l, r)
      BY <1>1, <3>3 DEF CellOf
    <3> QED
      BY <1>3, <1>4, <3>1, <3>4
  <2>2. CASE r > k
    <3>1. PICK b \in Nat : b = r - k - 1
      BY <1>2, <2>2
    <3>2. b < n /\ b + 1 = r - k /\ r - k \in 1 .. m /\ r - 1 = k + b
      BY <1>2, <2>2, <3>1
    <3>3. (N * n + b) \div n = N /\ (N * n + b) % n = b
      BY <3>2, FlatIndex
    <3>4. CellOf(done, n, l, r) = result[l][r - k]
      BY <1>1, <3>2, <3>3 DEF CellOf
    <3> QED
      BY <1>3, <2>2, <3>2, <3>4
  <2> QED
    BY <1>2, <2>1, <2>2
<1> QED
  BY <1>5 DEF CellsExact, w

(* The chunks with one more.                                                *)
LEMMA GatheredExact ==
  ASSUME ReportsInv, phase = "extend", Exhausted = {}, NEW done, done = Append(chunks, ChunkResult)
  PROVE  \A l \in DOMAIN Group : CellsExact(FlatAt(done, l), done, size, l, start + Several)
<1> DEFINE N == Len(chunks)
<1>1. /\ ExperimentInv /\ BlocksGood /\ BlocksExact /\ ChunksOK /\ ChunksExact
  BY DEF ReportsInv, OutcomesInv, Gathered, Reporting
<1>2. /\ N \in Nat /\ IsRow(chunks, N)
      /\ N # 0 => \A l \in DOMAIN Group : IsRow(FlatAt(chunks, l), start)
  BY <1>1 DEF ChunksOK, GoodSoFar
<1>3. /\ start = N * size
      /\ \A l \in DOMAIN Group : CellsExact(FlatAt(chunks, l), chunks, size, l, start)
  BY <1>1 DEF ChunksExact
<1>4. Several \in Nat /\ \A l \in DOMAIN Group : IsRow(ChunkResult[l], Several)
  BY <1>1, ChunkResultGood
<1>5. \A l \in DOMAIN Group : \A i \in 1 .. Several : Exact(ChunkResult[l][i])
  BY <1>1, ChunkResultExact
<1>6. size \in Nat \ {0} /\ Several <= size
  <2>1. start \in 0 .. Count - 1 /\ size \in Nat \ {0} /\ Count \in Nat \ {0}
    BY <1>1 DEF ExperimentInv, StateOK, RequestOK, GroupsOK
  <2> QED
    BY <2>1 DEF Several, MinOf
<1> HIDE DEF N
<1>7. ASSUME NEW l \in DOMAIN Group
      PROVE  CellsExact(FlatAt(done, l), done, size, l, start + Several)
  <2>1. /\ N # 0 => IsRow(FlatAt(chunks, l), start)
        /\ CellsExact(FlatAt(chunks, l), chunks, size, l, start)
    BY <1>2, <1>3
  <2>2. IsRow(ChunkResult[l], Several) /\ \A i \in 1 .. Several : Exact(ChunkResult[l][i])
    BY <1>4, <1>5
  <2>3. OneChunkMore(chunks, ChunkResult, done)
    BY DEF OneChunkMore
  <2> QED
    BY <1>2, <1>3, <1>4, <1>6, <2>1, <2>2, <2>3, CellsJoined
<1> QED
  BY <1>7

(* The group whose last chunk was collected.                                *)
LEMMA PartExact ==
  ASSUME ReportsInv, phase = "extend", Exhausted = {}, start + size >= Count,
         NEW done, done = Append(chunks, ChunkResult)
  PROVE  ExactPart(Part(done), group)
<1>1. DOMAIN done[1] = DOMAIN Group
  BY GatheredGood DEF ReportsInv, OutcomesInv, Gathered
<1>2. \A l \in DOMAIN Group : CellsExact(FlatAt(done, l), done, size, l, start + Several)
  BY GatheredExact
<1>3. start + Several = Count
  <2>1. start \in 0 .. Count - 1 /\ size \in Nat \ {0} /\ Count \in Nat \ {0}
    BY DEF ReportsInv, OutcomesInv, ExperimentInv, StateOK, RequestOK, GroupsOK
  <2> QED
    BY <2>1 DEF Several, MinOf
<1>4. Part(done).outcomes = Joined(done) /\ Part(done).chunks = done /\ Part(done).size = size
  BY DEF Part
<1>5. \A l \in DOMAIN Group : Joined(done)[l] = FlatAt(done, l)
  BY <1>1 DEF Joined, FlatAt
<1>6. \A l, r : Cell(Part(done), l, r) = CellOf(done, size, l, r)
  BY <1>4 DEF Cell, CellOf
<1> QED
  BY <1>2, <1>3, <1>4, <1>5, <1>6 DEF ExactPart, CellsExact, Group

LEMMA MergedExact ==
  ASSUME ExperimentInv, CoverOK, phase # "idle", NEW ps,
         \A g \in 1 .. Len(groups) : ExactPart(ps[g], g),
         NEW i \in DOMAIN request.positions, NEW r \in 1 .. Count
  PROVE  ExactAt(ps, i, r)
<1>1. Owner(i)[1] \in 1 .. Len(groups) /\ Owner(i)[2] \in DOMAIN groups[Owner(i)[1]]
  BY OwnerIs
<1>2. Merged(ps)[i] = ps[Owner(i)[1]].outcomes[Owner(i)[2]]
  BY DEF Merged
<1>3. ExactPart(ps[Owner(i)[1]], Owner(i)[1])
  BY <1>1
<1> QED
  BY <1>1, <1>2, <1>3 DEF ExactPart, ExactAt

-----------------------------------------------------------------------------
(* Every step *)

LEMMA InitReports ==
  ASSUME Init
  PROVE  ReportsInv
<1>1. OutcomesInv
  BY InitGathers
<1>2. phase = "idle" /\ results = "none"
  BY DEF Init
<1> QED
  BY <1>1, <1>2 DEF ReportsInv, BlocksExact, Reporting, ChunksExact, PartsExact, DoneExact

(* The chunks are as large as before, or are cut before the first is bound. *)
Cut == size' = size \/ (phase = "plan" /\ size' \in Nat \ {0})

(* A step within a chunk, or that cuts the chunks.                          *)
LEMMA ReportingStays ==
  ASSUME ReportsInv, phase # "idle", request' = request, groups' = groups, group' = group,
         start' = start, chunks' = chunks, parts' = parts, results' # "done",
         phase' = "plan" => phase = "plan", Cut
  PROVE  Reporting'
<1>1. ChunksExact /\ PartsExact /\ Count \in Nat
  BY DEF ReportsInv, Reporting, OutcomesInv, ExperimentInv, RequestOK
<1>2. /\ start = Len(chunks) * size /\ (phase = "plan" => Len(chunks) = 0)
      /\ \A l \in DOMAIN Group : CellsExact(FlatAt(chunks, l), chunks, size, l, start)
  BY <1>1 DEF ChunksExact
<1>3. size \in Nat \ {0}
  BY DEF ReportsInv, OutcomesInv, ExperimentInv, StateOK
<1>4. Group' = Group /\ Count' = Count
  BY DEF Group, Count
<1>5. ChunksExact'
  <2>1. CASE size' = size
    BY <1>2, <1>4, <2>1 DEF ChunksExact, FlatAt, CellsExact, CellOf
  <2>2. CASE phase = "plan" /\ size' \in Nat \ {0}
    <3>1. Len(chunks) = 0 /\ start = 0
      BY <1>2, <1>3, <2>2
    <3>2. Len(chunks') = 0 /\ start' = 0
      BY <3>1
    <3>3. PICK n \in Nat : n = size'
      BY <2>2
    <3>4. 0 = 0 * n
      OBVIOUS
    <3>5. start' = Len(chunks') * size'
      BY ONLY <3>2, <3>3, <3>4
    <3>6. \A q, k, l : CellsExact(q, chunks', k, l, 0)
      BY DEF CellsExact
    <3> QED
      BY <3>2, <3>5, <3>6 DEF ChunksExact
  <2> QED
    BY <2>1, <2>2 DEF Cut
<1>6. PartsExact'
  BY <1>1, <1>4 DEF PartsExact, ExactPart
<1>7. DoneExact'
  BY DEF DoneExact
<1> QED
  BY <1>5, <1>6, <1>7 DEF Reporting

LEMMA UserReports ==
  ASSUME OutcomesInv, User
  PROVE  BlocksExact' /\ Reporting'
<1>1. PICK trials, positions, memory, on_failure : Call(trials, positions, memory, on_failure)
  BY DEF User, RunAll, RunOnly
<1>2. /\ phase' = "plan" /\ group' = 1 /\ start' = 0 /\ results' = "none" /\ chunks' = <<>>
      /\ parts' = <<>> /\ size' = size
  BY <1>1 DEF Call
<1>3. BlocksExact'
  BY <1>2 DEF BlocksExact
<1>4. ChunksExact'
  <2>1. Len(chunks') = 0 /\ size' \in Nat
    BY <1>2 DEF OutcomesInv, ExperimentInv, StateOK
  <2>2. start' = Len(chunks') * size'
    BY <1>2, <2>1
  <2>3. \A q, n, l : CellsExact(q, chunks', n, l, 0)
    BY DEF CellsExact
  <2> QED
    BY <1>2, <2>1, <2>2, <2>3 DEF ChunksExact
<1>5. PartsExact' /\ DoneExact'
  BY <1>2 DEF PartsExact, DoneExact
<1> QED
  BY <1>3, <1>4, <1>5 DEF Reporting

LEMMA CollectReports ==
  ASSUME ReportsInv, Collect
  PROVE  BlocksExact' /\ Reporting'
<1> DEFINE done == Append(chunks, ChunkResult)
           all  == Append(parts, Part(done))
<1>1. /\ phase = "extend" /\ Exhausted = {} /\ request' = request
      /\ \/ phase' = "idle" /\ results' = "raised"
         \/ /\ ~(start + size >= Count) /\ chunks' = done /\ start' = start + size
            /\ phase' = "bind" /\ groups' = groups /\ group' = group /\ parts' = parts
            /\ results' = results /\ size' = size
         \/ /\ start + size >= Count /\ group < Len(groups) /\ group' = group + 1
            /\ phase' = "plan" /\ parts' = all /\ chunks' = <<>> /\ start' = 0
            /\ groups' = groups /\ results' = results /\ size' = size
         \/ /\ start + size >= Count /\ ~(group < Len(groups)) /\ parts' = all
            /\ phase' = "idle" /\ results' = "done" /\ groups' = groups
  BY DEF Collect
<1>2. /\ ExperimentInv /\ CoverOK /\ ChunksOK /\ PartsOK /\ DoneOK /\ ChunksExact /\ PartsExact
  BY DEF ReportsInv, Reporting, OutcomesInv, Gathered
<1>3. BlocksExact'
  BY <1>1 DEF BlocksExact
<1>4. Count' = Count
  BY <1>1 DEF Count
<1>5. /\ start \in Nat /\ size \in Nat \ {0} /\ Count \in Nat \ {0}
      /\ group \in 1 .. Len(groups) /\ Len(groups) \in Nat
  BY <1>1, <1>2 DEF ExperimentInv, StateOK, RequestOK, GroupsOK
<1>6. /\ IsRow(parts, group - 1) /\ \A g \in 1 .. group - 1 : ExactPart(parts[g], g)
      /\ results # "done"
  BY <1>1, <1>2 DEF PartsOK, DoneOK, PartsExact
<1>7. CASE phase' = "idle" /\ results' = "raised"
  BY <1>3, <1>7 DEF Reporting, ChunksExact, PartsExact, DoneExact
<1>8. CASE /\ ~(start + size >= Count) /\ chunks' = done /\ start' = start + size
           /\ phase' = "bind" /\ groups' = groups /\ group' = group /\ parts' = parts
           /\ results' = results /\ size' = size
  <2>1. \A l \in DOMAIN Group : CellsExact(FlatAt(done, l), done, size, l, start + Several)
    BY <1>1, GatheredExact
  <2>2. Several = size
    BY <1>5, <1>8 DEF Several, MinOf
  <2>3. Group' = Group
    BY <1>8 DEF Group
  <2>4. Len(done) = Len(chunks) + 1 /\ Len(chunks) \in Nat
    BY <1>1, <1>2, AppendRow DEF ChunksOK
  <2> HIDE DEF done
  <2>5. start + size = Len(done) * size
    <3>1. start = Len(chunks) * size
      BY <1>1, <1>2 DEF ChunksExact
    <3> QED
      BY <1>5, <2>4, <3>1
  <2>6. ChunksExact'
    BY <1>8, <2>1, <2>2, <2>3, <2>5 DEF ChunksExact, FlatAt, CellsExact, CellOf
  <2>7. PartsExact'
    BY <1>4, <1>6, <1>8 DEF PartsExact, ExactPart
  <2>8. DoneExact'
    BY <1>6, <1>8 DEF DoneExact
  <2> QED
    BY <1>3, <2>6, <2>7, <2>8 DEF Reporting
<1>9. ASSUME start + size >= Count PROVE \A g \in 1 .. group : ExactPart(all[g], g)
  <2>1. ExactPart(Part(done), group)
    BY <1>1, <1>9, PartExact
  <2> HIDE DEF done
  <2>2. group - 1 \in Nat /\ (group - 1) + 1 = group
    BY <1>5
  <2>3. all[(group - 1) + 1] = Part(done) /\ \A g \in 1 .. group - 1 : all[g] = parts[g]
    BY <1>6, <2>2, AppendRow
  <2> HIDE DEF all
  <2>4. \A g \in 1 .. group : g = group \/ g \in 1 .. group - 1
    BY <1>5
  <2> QED
    BY <1>6, <2>1, <2>2, <2>3, <2>4
<1>10. CASE /\ start + size >= Count /\ group < Len(groups) /\ group' = group + 1
            /\ phase' = "plan" /\ parts' = all /\ chunks' = <<>> /\ start' = 0
            /\ groups' = groups /\ results' = results /\ size' = size
  <2>1. \A g \in 1 .. group : ExactPart(all[g], g)
    BY <1>9, <1>10
  <2> HIDE DEF all
  <2>2. group' - 1 = group
    BY <1>5, <1>10
  <2>3. PartsExact'
    BY <1>4, <1>10, <2>1, <2>2 DEF PartsExact, ExactPart
  <2>4. Len(chunks') = 0 /\ start' = Len(chunks') * size'
    BY <1>5, <1>10
  <2>5. \A q, n, l : CellsExact(q, chunks', n, l, 0)
    BY DEF CellsExact
  <2>6. ChunksExact'
    BY <1>10, <2>4, <2>5 DEF ChunksExact
  <2>7. DoneExact'
    BY <1>6, <1>10 DEF DoneExact
  <2> QED
    BY <1>3, <2>3, <2>6, <2>7 DEF Reporting
<1>11. CASE /\ start + size >= Count /\ ~(group < Len(groups)) /\ parts' = all
            /\ phase' = "idle" /\ results' = "done" /\ groups' = groups
  <2>1. group = Len(groups)
    BY <1>5, <1>11
  <2>2. \A g \in 1 .. Len(groups) : ExactPart(all[g], g)
    BY <1>9, <1>11, <2>1
  <2> HIDE DEF all
  <2>3. \A i \in DOMAIN request.positions : \A r \in 1 .. Count : ExactAt(all, i, r)
    BY <1>1, <1>2, <2>2, MergedExact
  <2>4. Merged(parts)' = Merged(all) /\ \A i : Owner(i)' = Owner(i)
    BY <1>1, <1>11 DEF Merged, Owner
  <2>5. \A i, r : ExactAt(parts, i, r)' <=> ExactAt(all, i, r)
    BY <1>11, <2>4 DEF ExactAt, Cell
  <2>6. DoneExact'
    BY <1>1, <1>4, <1>11, <2>3, <2>5 DEF DoneExact
  <2>7. ChunksExact' /\ PartsExact'
    BY <1>11 DEF ChunksExact, PartsExact
  <2> QED
    BY <1>3, <2>6, <2>7 DEF Reporting
<1> QED
  BY <1>1, <1>7, <1>8, <1>10, <1>11

LEMMA StepReports ==
  ASSUME RawAreNatural, Reportable, ReportsInv, [Next]_vars
  PROVE  ReportsInv'
<1>1. /\ OutcomesInv /\ ExperimentInv /\ BlocksExact /\ Reporting
      /\ (phase # "idle" => results # "done")
  BY DEF ReportsInv, OutcomesInv, Gathered, DoneOK
<1>2. OutcomesInv'
  BY <1>1, StepGathers
<1> SUFFICES BlocksExact' /\ Reporting'
  BY <1>2 DEF ReportsInv
<1>3. CASE User
  BY <1>1, <1>3, UserReports
<1>4. CASE Plan
  <2>1. /\ phase = "plan" /\ phase' \in {"idle", "bind"} /\ request' = request /\ groups' = groups
        /\ group' = group /\ start' = start /\ chunks' = chunks /\ parts' = parts
        /\ results' \in {results, "refused"}
    BY <1>4 DEF Plan
  <2>2. size' \in Nat \ {0}
    BY <1>2 DEF OutcomesInv, ExperimentInv, StateOK
  <2>3. BlocksExact'
    BY <2>1 DEF BlocksExact
  <2>4. Reporting'
    BY <1>1, <2>1, <2>2, ReportingStays DEF Cut
  <2> QED
    BY <2>3, <2>4
<1>5. CASE BindChunk
  <2>1. /\ phase = "bind" /\ phase' = "native" /\ request' = request /\ groups' = groups
        /\ group' = group /\ start' = start /\ chunks' = chunks /\ parts' = parts
        /\ results' = results /\ size' = size
    BY <1>5 DEF BindChunk
  <2>2. Reporting'
    <3>1. phase # "idle" /\ results' # "done" /\ (phase' = "plan" => phase = "plan") /\ Cut
      BY <1>1, <2>1 DEF Cut
    <3> QED
      BY <2>1, <3>1, ReportingStays
  <2> QED
    BY <1>5, <2>2, BindExact
<1>6. ASSUME NEW t \in DOMAIN blocks, RunTrial(t) PROVE BlocksExact' /\ Reporting'
  <2>1. /\ phase = "native" /\ phase' \in {"native", "extend"} /\ request' = request
        /\ groups' = groups /\ group' = group /\ start' = start /\ chunks' = chunks
        /\ parts' = parts /\ results' = results /\ size' = size
    BY <1>6 DEF RunTrial
  <2>2. Reporting'
    <3>1. phase # "idle" /\ results' # "done" /\ (phase' = "plan" => phase = "plan") /\ Cut
      BY <1>1, <2>1 DEF Cut
    <3> QED
      BY <2>1, <3>1, ReportingStays
  <2> QED
    BY <1>1, <1>6, <2>2, RunTrialExact
<1>7. CASE Extend
  <2>1. /\ phase = "extend" /\ phase' = phase /\ request' = request /\ groups' = groups
        /\ group' = group /\ start' = start /\ chunks' = chunks /\ parts' = parts
        /\ results' = results /\ size' = size
    BY <1>7 DEF Extend
  <2>2. Reporting'
    <3>1. phase # "idle" /\ results' # "done" /\ (phase' = "plan" => phase = "plan") /\ Cut
      BY <1>1, <2>1 DEF Cut
    <3> QED
      BY <2>1, <3>1, ReportingStays
  <2> QED
    BY <1>1, <1>7, <2>2, ExtendExact
<1>8. CASE Collect
  BY <1>8, CollectReports
<1>9. CASE UNCHANGED vars
  <2>1. /\ request' = request /\ phase' = phase /\ groups' = groups /\ group' = group
        /\ start' = start /\ size' = size /\ chunks' = chunks /\ parts' = parts
        /\ results' = results /\ blocks' = blocks
    BY <1>9 DEF vars, work
  <2>2. BlocksExact'
    BY <1>1, <2>1 DEF BlocksExact
  <2>3. CASE phase # "idle"
    <3>1. results' # "done" /\ (phase' = "plan" => phase = "plan") /\ Cut
      BY <1>1, <2>1, <2>3 DEF Cut
    <3>2. Reporting'
      BY <2>1, <2>3, <3>1, ReportingStays
    <3> QED
      BY <2>2, <3>2
  <2>4. CASE phase = "idle"
    <3>1. Count' = Count /\ Merged(parts)' = Merged(parts) /\ \A i : Owner(i)' = Owner(i)
      BY <2>1 DEF Count, Merged, Owner
    <3>2. \A i, r : ExactAt(parts, i, r)' <=> ExactAt(parts, i, r)
      BY <2>1, <3>1 DEF ExactAt, Cell
    <3>3. DoneExact'
      BY <1>1, <2>1, <3>1, <3>2 DEF Reporting, DoneExact
    <3>4. ChunksExact' /\ PartsExact'
      BY <2>1, <2>4 DEF ChunksExact, PartsExact
    <3> QED
      BY <2>2, <3>3, <3>4 DEF Reporting
  <2> QED
    BY <2>3, <2>4
<1> QED
  BY <1>3, <1>4, <1>5, <1>6, <1>7, <1>8, <1>9 DEF Next, Progress

(* The invariant, of every experiment whose reads can be reported.          *)
THEOREM ReportsInvHolds ==
  ASSUME RawAreNatural, Reportable
  PROVE  Spec => []ReportsInv
<1>1. Init => ReportsInv
  BY InitReports
<1>2. ReportsInv /\ [Next]_vars => ReportsInv'
  BY StepReports
<1> QED
  BY <1>1, <1>2, PTL DEF Spec

(* InputRecord.rows gives the values that a trial consumed: whatever rows   *)
(* they came from, and whichever chunk and group ran it.                    *)
THEOREM ReportsAreExact ==
  ASSUME RawAreNatural, Reportable
  PROVE  Spec => []ReportsExact
<1>1. ASSUME ReportsInv, results = "done",
             NEW i \in DOMAIN request.positions, NEW r \in 1 .. Count,
             ~Merged(parts)[i][r].failed,
             NEW f \in DOMAIN Merged(parts)[i][r].consumed \ SeriesFields
      PROVE  /\ Whole(Merged(parts)[i][r], f) =>
                  Reported(i, r, f) = ReadIn(Merged(parts)[i][r], f)
             /\ Longer(Merged(parts)[i][r], f) =>
                  LET turn == BaseLength(Merged(parts)[i][r].point, f)
                  IN  SubSeq(Reported(i, r, f), 1, turn)
                        = SubSeq(ReadIn(Merged(parts)[i][r], f), 1, turn)
  <2> DEFINE o == Merged(parts)[i][r]
  <2>1. Cell(parts[Owner(i)[1]], Owner(i)[2], r) = o /\ Exact(o)
    BY <1>1 DEF ReportsInv, Reporting, DoneExact, ExactAt
  <2>2. Reported(i, r, f) = ReportedOf(o, f)
    BY <2>1 DEF Reported, ReportedOf
  <2> QED
    BY <1>1, <2>1, <2>2 DEF Exact, FirstTurn
<1>2. ReportsInv => ReportsExact
  BY <1>1 DEF ReportsExact
<1> QED
  BY <1>2, ReportsInvHolds, PTL
=============================================================================
