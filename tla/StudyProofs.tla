----------------------------- MODULE StudyProofs -----------------------------
(***************************************************************************)
(* Proofs about optimization studies, for any decision space, proposals,   *)
(* outcomes, budgets, policies and population.                             *)
(***************************************************************************)
EXTENDS StudyProps, Counting

-----------------------------------------------------------------------------
(* A batch of candidates *)

Batch == [1 .. Population -> Candidates]

(* A batch of vectors decodes to a batch of candidates.                     *)
LEMMA DecodedBatch ==
  ASSUME NEW vectors \in Batches
  PROVE  [i \in DOMAIN vectors |-> Decoded[vectors[i]]] \in Batch
BY DEF Batches, Batch, Candidates, Decoded

(* A population is finite and has a first member.                           *)
LEMMA Indices ==
  /\ IsFiniteSet(1 .. Population) /\ Cardinality(1 .. Population) = Population
  /\ Population \in Nat \ {0} /\ 1 .. Population \in SUBSET Int
<1>1. Population \in Nat \ {0} /\ 1 \in Int /\ Population \in Int
  BY PopulationAssumption
<1>2. /\ IsFiniteSet(1 .. Population)
      /\ Cardinality(1 .. Population) = IF 1 > Population THEN 0 ELSE Population - 1 + 1
  BY <1>1, FS_Interval
<1> QED
  BY <1>1, <1>2

(* Every member of a batch has a first place.                               *)
LEMMA FirstPlace ==
  ASSUME NEW cs \in Batch, NEW c \in Members(cs)
  PROVE  \E i \in 1 .. Population : cs[i] = c /\ \A j \in 1 .. i - 1 : cs[j] # c
<1> DEFINE places == {i \in 1 .. Population : cs[i] = c}
<1>1. DOMAIN cs = 1 .. Population
  BY DEF Batch
<1>2. places # {}
  BY <1>1 DEF Members
<1>3. places \in SUBSET (1 .. Population)
  OBVIOUS
<1>4. IsFiniteSet(places) /\ places \in SUBSET Int
  BY <1>3, Indices, FS_Subset
<1> HIDE DEF places
<1>5. PICK i \in places : \A j \in places : i <= j
  BY <1>2, <1>4, LeastOccurs
<1>6. i \in 1 .. Population /\ cs[i] = c
  BY DEF places
<1>7. ASSUME NEW j \in 1 .. i - 1 PROVE cs[j] # c
  <2>1. j \in 1 .. Population /\ j < i
    BY <1>6, Indices
  <2>2. j \notin places
    BY <1>5, <1>6, <2>1
  <2> QED
    BY <2>1, <2>2 DEF places
<1> QED
  BY <1>6, <1>7

(* The rows that are not marked as cached are as many as the candidates that*)
(* are simulated, at most a population.                                     *)
LEMMA UncachedCount ==
  ASSUME NEW cs \in Batch
  PROVE  /\ Cardinality(Uncached(cs)) = Cardinality(NewCandidates(cs))
         /\ Cardinality(NewCandidates(cs)) \in 0 .. Population
         /\ NewCandidates(cs) \in SUBSET Candidates
<1> DEFINE f == [i \in Uncached(cs) |-> cs[i]]
<1>1. DOMAIN cs = 1 .. Population /\ \A i \in 1 .. Population : cs[i] \in Candidates
  BY DEF Batch
<1>2. Uncached(cs) \in SUBSET (1 .. Population)
  BY <1>1 DEF Uncached
<1>3. IsFiniteSet(Uncached(cs)) /\ Cardinality(Uncached(cs)) <= Population
  BY <1>2, Indices, FS_Subset
<1>4. f \in [Uncached(cs) -> NewCandidates(cs)]
  BY DEF Uncached
<1>5. ASSUME NEW c \in NewCandidates(cs) PROVE \E i \in Uncached(cs) : f[i] = c
  <2>1. c \in Members(cs)
    BY DEF NewCandidates
  <2>2. PICK i \in 1 .. Population : cs[i] = c /\ \A j \in 1 .. i - 1 : cs[j] # c
    BY <2>1, FirstPlace
  <2>3. i \in Uncached(cs)
    BY <1>1, <2>2 DEF Uncached
  <2> QED
    BY <2>2, <2>3
<1>6. ASSUME NEW i \in Uncached(cs), NEW j \in Uncached(cs), f[i] = f[j] PROVE i = j
  <2>1. i \in 1 .. Population /\ j \in 1 .. Population /\ cs[i] = cs[j]
    BY <1>2, <1>6
  <2>2. (\A k \in 1 .. i - 1 : cs[k] # cs[i]) /\ (\A k \in 1 .. j - 1 : cs[k] # cs[j])
    BY DEF Uncached
  <2>3. ~(i < j) /\ ~(j < i)
    BY <2>1, <2>2, Indices
  <2> QED
    BY <2>1, <2>3, Indices
<1>7. f \in Surjection(Uncached(cs), NewCandidates(cs))
  BY <1>4, <1>5 DEF Surjection
<1>8. f \in Injection(Uncached(cs), NewCandidates(cs))
  BY <1>4, <1>6 DEF Injection, IsInjective
<1>9. /\ IsFiniteSet(NewCandidates(cs))
      /\ Cardinality(NewCandidates(cs)) = Cardinality(Uncached(cs))
  BY <1>3, <1>7, <1>8, FS_Surjection
<1>10. Cardinality(NewCandidates(cs)) \in Nat
  BY <1>9, FS_CardinalityType
<1>11. NewCandidates(cs) \in SUBSET Candidates
  BY <1>1 DEF NewCandidates, Members
<1> QED
  BY <1>3, <1>9, <1>10, <1>11, Indices

-----------------------------------------------------------------------------
(* The candidates of a run, in order *)

(* New candidates have places in the batch.                                 *)
LEMMA FreshPlaces ==
  ASSUME NEW seq, NEW cs \in Batch
  PROVE  /\ Fresh(seq, cs) \in SUBSET (1 .. Population) /\ Fresh(seq, cs) \in SUBSET Int
         /\ IsFiniteSet(Fresh(seq, cs)) /\ Cardinality(Fresh(seq, cs)) \in Nat
<1>1. Fresh(seq, cs) \in SUBSET (1 .. Population)
  BY DEF Fresh, Batch
<1>2. IsFiniteSet(Fresh(seq, cs))
  BY <1>1, Indices, FS_Subset
<1> QED
  BY <1>1, <1>2, Indices, FS_CardinalityType

(* Numbering by rank meets every member of a set once.                      *)
LEMMA NthExists ==
  ASSUME NEW S \in SUBSET Int, IsFiniteSet(S), NEW k \in 1 .. Cardinality(S)
  PROVE  Nth(S, k) \in S
<1>1. \E i \in S : Cardinality({j \in S : j < i}) = k - 1
  BY RanksOccur DEF Below
<1> QED
  BY <1>1 DEF Nth

(* Every member of a set has a number.                                      *)
LEMMA NthReaches ==
  ASSUME NEW S \in SUBSET Int, IsFiniteSet(S), NEW i \in S
  PROVE  \E k \in 1 .. Cardinality(S) : Nth(S, k) = i
<1> DEFINE k == Cardinality(Below(S, i)) + 1
<1>1. k \in 1 .. Cardinality(S) /\ Cardinality(Below(S, i)) = k - 1
  BY BelowSize
<1> HIDE DEF k
<1>2. Nth(S, k) \in S /\ Cardinality(Below(S, Nth(S, k))) = k - 1
  <2>1. \E j \in S : Cardinality({x \in S : x < j}) = k - 1
    BY <1>1 DEF Below
  <2> QED
    BY <2>1 DEF Nth, Below
<1>3. ~(i < Nth(S, k)) /\ ~(Nth(S, k) < i)
  <2>1. ASSUME i < Nth(S, k) PROVE FALSE
    <3>1. Cardinality(Below(S, i)) < Cardinality(Below(S, Nth(S, k)))
      BY <1>2, <2>1, BelowGrows
    <3> QED
      BY <1>1, <1>2, <3>1
  <2>2. ASSUME Nth(S, k) < i PROVE FALSE
    <3>1. Cardinality(Below(S, Nth(S, k))) < Cardinality(Below(S, i))
      BY <1>2, <2>2, BelowGrows
    <3> QED
      BY <1>1, <1>2, <3>1
  <2> QED
    BY <2>1, <2>2
<1>4. Nth(S, k) = i
  <2>1. Nth(S, k) \in Int /\ i \in Int
    BY <1>2
  <2> QED
    BY <1>3, <2>1
<1> QED
  BY <1>1, <1>4

(* What a concatenation has.                                                *)
LEMMA Concatenated ==
  ASSUME NEW S, NEW s \in Seq(S), NEW t \in Seq(S)
  PROVE  /\ s \o t \in Seq(S) /\ Len(s \o t) = Len(s) + Len(t)
         /\ \A i \in 1 .. Len(s) : (s \o t)[i] = s[i]
         /\ \A k \in 1 .. Len(t) : (s \o t)[Len(s) + k] = t[k]
OBVIOUS

(* Extending a sequence by a batch keeps it as a beginning and has all of   *)
(* both, and nothing else.                                                  *)
LEMMA ExtendedHas ==
  ASSUME NEW seq \in Seq(Candidates), NEW cs \in Batch
  PROVE  /\ Extended(seq, cs) \in Seq(Candidates)
         /\ Len(seq) <= Len(Extended(seq, cs))
         /\ \A i \in 1 .. Len(seq) : Extended(seq, cs)[i] = seq[i]
         /\ Members(Extended(seq, cs)) = Members(seq) \cup Members(cs)
<1> DEFINE F    == Fresh(seq, cs)
           n    == Cardinality(F)
           more == [k \in 1 .. n |-> cs[Nth(F, k)]]
<1>1. /\ F \in SUBSET (1 .. Population) /\ F \in SUBSET Int /\ IsFiniteSet(F) /\ n \in Nat
  BY FreshPlaces
<1>2. DOMAIN cs = 1 .. Population /\ \A i \in 1 .. Population : cs[i] \in Candidates
  BY DEF Batch
<1>3. \A k \in 1 .. n : Nth(F, k) \in F
  BY <1>1, NthExists
<1>4. \A i \in F : \E k \in 1 .. n : Nth(F, k) = i
  BY <1>1, NthReaches
<1>5. Extended(seq, cs) = seq \o more
  BY DEF Extended
<1> HIDE DEF F, n
<1>6. more \in Seq(Candidates) /\ Len(more) = n /\ DOMAIN more = 1 .. n
  <2>1. \A k \in 1 .. n : more[k] \in Candidates
    BY <1>1, <1>2, <1>3
  <2> QED
    BY <1>1, <2>1
<1>7. \A k \in 1 .. n : more[k] = cs[Nth(F, k)]
  OBVIOUS
<1> HIDE DEF more
<1>8. /\ Extended(seq, cs) \in Seq(Candidates)
      /\ Len(Extended(seq, cs)) = Len(seq) + n
      /\ \A i \in 1 .. Len(seq) : Extended(seq, cs)[i] = seq[i]
      /\ \A k \in 1 .. n : Extended(seq, cs)[Len(seq) + k] = more[k]
  <2>1. /\ seq \o more \in Seq(Candidates)
        /\ Len(seq \o more) = Len(seq) + Len(more)
        /\ \A i \in 1 .. Len(seq) : (seq \o more)[i] = seq[i]
        /\ \A k \in 1 .. Len(more) : (seq \o more)[Len(seq) + k] = more[k]
    <3>1. more \in Seq(Candidates)
      BY <1>6
    <3> QED
      BY <3>1, Concatenated
  <2> QED
    BY <1>5, <1>6, <2>1
<1>9. Members(Extended(seq, cs)) \subseteq Members(seq) \cup Members(cs)
  <2> SUFFICES ASSUME NEW i \in 1 .. Len(seq) + n
               PROVE  Extended(seq, cs)[i] \in Members(seq) \cup Members(cs)
    BY <1>8 DEF Members
  <2>1. CASE i <= Len(seq)
    BY <1>8, <2>1 DEF Members
  <2>2. CASE i > Len(seq)
    <3>1. i - Len(seq) \in 1 .. n /\ i = Len(seq) + (i - Len(seq))
      BY <1>1, <2>2
    <3>2. Extended(seq, cs)[i] = cs[Nth(F, i - Len(seq))]
      BY <1>7, <1>8, <3>1
    <3>3. Nth(F, i - Len(seq)) \in DOMAIN cs
      BY <1>1, <1>2, <1>3, <3>1
    <3> QED
      BY <3>2, <3>3 DEF Members
  <2> QED
    BY <1>1, <2>1, <2>2
<1>10. Members(seq) \subseteq Members(Extended(seq, cs))
  <2> SUFFICES ASSUME NEW i \in 1 .. Len(seq) PROVE seq[i] \in Members(Extended(seq, cs))
    BY DEF Members
  <2>1. i \in 1 .. Len(seq) + n /\ Extended(seq, cs)[i] = seq[i]
    BY <1>1, <1>8
  <2> QED
    BY <1>8, <2>1 DEF Members
<1>11. Members(cs) \subseteq Members(Extended(seq, cs))
  <2> SUFFICES ASSUME NEW c \in Members(cs), c \notin Members(seq)
               PROVE  c \in Members(Extended(seq, cs))
    BY <1>10
  <2>1. PICK i \in 1 .. Population : cs[i] = c /\ \A j \in 1 .. i - 1 : cs[j] # c
    BY FirstPlace
  <2>2. i \in F
    BY <1>2, <2>1 DEF F, Fresh
  <2>3. PICK k \in 1 .. n : Nth(F, k) = i
    BY <1>4, <2>2
  <2>4. Len(seq) + k \in 1 .. Len(seq) + n /\ Extended(seq, cs)[Len(seq) + k] = c
    BY <1>1, <1>7, <1>8, <2>1, <2>3
  <2> QED
    BY <1>8, <2>4 DEF Members
<1> QED
  BY <1>1, <1>8, <1>9, <1>10, <1>11

-----------------------------------------------------------------------------
(* The inductive invariant *)

AtRest      == phase \in {"idle", "building"}
Answering   == phase \in {"estimation", "published"}

Types == TypeOK /\ IsConfiguration(saved)

(* What is not known has been paid for only in batches that were lost.      *)
Accounts == \A c \in Candidates :
  paid[c] <= IF cache[c] = NoResult THEN raised ELSE raised + 1

(* Between runs there is no run, and a run has spent nothing before its     *)
(* first generation, nor ever more than its budget.                         *)
Spending ==
  /\ history = simulated
  /\ AtRest => run = NoRun /\ generation = -1 /\ proposed = <<>>
  /\ generation = -1 => simulated = 0
  /\ run.budget # NoBudget => simulated <= run.budget /\ Population <= run.budget

(* The candidates of a run are known, one of them can be selected once there*)
(* was a generation, and under "raise" none failed.                         *)
Sound ==
  /\ \A i \in DOMAIN proposed : cache[proposed[i]] # NoResult
  /\ generation >= 0 => Eligible # {}
  /\ phase \in {"callback", "selection"} \/ Answering => generation >= 0
  /\ run.policy = "raise" => \A i \in DOMAIN proposed : cache[proposed[i]].failed = 0

(* A chosen finalist is the best of them, and what is published has not     *)
(* failed, unless the policy ignores that.                                  *)
Finals ==
  /\ Answering =>
       /\ selection \in [Ranked -> Evaluation] /\ chosen \in Ranked
       /\ Energy(selection[chosen], run.policy) < Infinite
       /\ \A i \in Ranked : Energy(selection[chosen], run.policy) <= Energy(selection[i], run.policy)
       /\ run.policy = "raise" => selection[chosen].failed = 0
  /\ phase = "published" => estimate \in Evaluation /\ (run.policy # "ignore" => estimate.failed = 0)

(* An Experiment is built of the fields that the study has for a candidate. *)
Built ==
  /\ built = [of |-> built.of, fields |-> built.fields]
  /\ built.fields # <<>> => built.fields = Bindings(built.of)
  /\ phase = "building" => live = Bindings(built.of) /\ built.of \in Candidates

(* What the user made of the model is the model, or while an Experiment is  *)
(* built the copy of it.                                                    *)
Own == IF phase = "building" THEN saved = mine ELSE live = mine

IInv == Types /\ Accounts /\ Spending /\ Sound /\ Finals /\ Built /\ Own

-----------------------------------------------------------------------------
(* Energies and evaluations *)

(* An energy tells rejection, and no result is the mark for none.           *)
LEMMA Energies ==
  ASSUME NEW e \in Evaluation, NEW policy
  PROVE  /\ Energy(e, policy) \in Int /\ Energy(e, policy) <= Infinite
         /\ Energy(e, policy) < Infinite <=> ~Rejected(e, policy)
         /\ e # NoResult /\ e.failed \in 0 .. Reps /\ Reps \in Nat
<1>1. /\ e \in [mean : Int, failed : 0 .. Reps] /\ Direction * e.mean < Infinite
      /\ Infinite \in Int /\ Direction \in {1, -1}
  BY EnergyAssumption
<1>2. Reps \in Nat
  BY PopulationAssumption
<1>3. e.mean \in Int /\ e.failed \in 0 .. Reps
  BY <1>1
<1>4. Direction * e.mean \in Int
  BY <1>1, <1>3
<1>5. e # NoResult
  <2>1. NoResult.failed = -1
    BY DEF NoResult
  <2> QED
    BY <1>2, <1>3, <2>1
<1> QED
  BY <1>1, <1>2, <1>3, <1>4, <1>5 DEF Energy

(* What a batch of results does to the cache and to the accounts.           *)
LEMMA Simulated ==
  ASSUME Types, Accounts, NEW cs, Members(cs) \subseteq Candidates, NEW policy,
         NEW es \in [NewCandidates(cs) -> Evaluation], Simulate(cs, es, policy)
  PROVE  /\ cache' \in [Candidates -> Evaluation \cup {NoResult}]
         /\ paid' \in [Candidates -> Nat] /\ raised' \in Nat
         /\ Accounts'
         /\ \A c \in Known : cache'[c] = cache[c]
         /\ Fails(es, policy) => Known' = Known
         /\ ~Fails(es, policy) =>
              /\ Known' = Known \cup NewCandidates(cs)
              /\ \A c \in Members(cs) : cache'[c] # NoResult
<1>1. /\ cache \in [Candidates -> Evaluation \cup {NoResult}]
      /\ paid \in [Candidates -> Nat] /\ raised \in Nat
  BY DEF Types, TypeOK
<1>2. NewCandidates(cs) \subseteq Candidates /\ \A c \in NewCandidates(cs) : cache[c] = NoResult
  BY DEF NewCandidates
<1>3. paid' = [c \in Candidates |-> paid[c] + (IF c \in NewCandidates(cs) THEN 1 ELSE 0)]
  BY DEF Simulate, Pay
<1>4. paid' \in [Candidates -> Nat]
  BY <1>1, <1>3
<1>5. CASE Fails(es, policy)
  <2>1. raised' = raised + 1 /\ cache' = cache
    BY <1>5 DEF Simulate
  <2>2. Accounts'
    BY <1>1, <1>2, <1>3, <2>1 DEF Accounts
  <2>3. Known' = Known
    BY <2>1 DEF Known
  <2> QED
    BY <1>1, <1>4, <1>5, <2>1, <2>2, <2>3 DEF Known
<1>6. CASE ~Fails(es, policy)
  <2>1. /\ raised' = raised
        /\ cache' = [c \in Candidates |-> IF c \in NewCandidates(cs) THEN es[c] ELSE cache[c]]
    BY <1>6 DEF Simulate
  <2>2. cache' \in [Candidates -> Evaluation \cup {NoResult}]
    BY <1>1, <2>1
  <2>3. \A c \in NewCandidates(cs) : cache'[c] # NoResult /\ cache'[c] \in Evaluation
    BY <1>2, <2>1, Energies
  <2>4. \A c \in Candidates \ NewCandidates(cs) : cache'[c] = cache[c]
    BY <2>1
  <2>5. Accounts'
    <3> SUFFICES ASSUME NEW c \in Candidates
                 PROVE  paid'[c] <= IF cache'[c] = NoResult THEN raised' ELSE raised' + 1
      BY DEF Accounts
    <3>1. CASE c \in NewCandidates(cs)
      BY <1>1, <1>2, <1>3, <2>1, <2>3, <3>1 DEF Accounts
    <3>2. CASE c \notin NewCandidates(cs)
      BY <1>1, <1>3, <2>1, <2>4, <3>2 DEF Accounts
    <3> QED
      BY <3>1, <3>2
  <2>6. Known' = Known \cup NewCandidates(cs)
    BY <1>2, <2>3, <2>4 DEF Known
  <2>7. \A c \in Members(cs) : cache'[c] # NoResult
    BY <2>3, <2>4 DEF NewCandidates
  <2>8. \A c \in Known : cache'[c] = cache[c]
    BY <1>2, <2>4 DEF Known
  <2> QED
    BY <1>1, <1>4, <1>6, <2>1, <2>2, <2>5, <2>6, <2>7, <2>8
<1> QED
  BY <1>5, <1>6

(* A batch that is lost was paid for, and is not known.                     *)
LEMMA BatchLost ==
  ASSUME Types, Accounts, NEW cs, Lose(cs)
  PROVE  /\ cache' \in [Candidates -> Evaluation \cup {NoResult}]
         /\ paid' \in [Candidates -> Nat] /\ raised' \in Nat
         /\ Accounts' /\ cache' = cache /\ Known' = Known
<1>1. /\ cache \in [Candidates -> Evaluation \cup {NoResult}]
      /\ paid \in [Candidates -> Nat] /\ raised \in Nat
  BY DEF Types, TypeOK
<1>2. /\ raised' = raised + 1 /\ cache' = cache
      /\ paid' = [c \in Candidates |-> paid[c] + (IF c \in NewCandidates(cs) THEN 1 ELSE 0)]
  BY DEF Lose, Pay
<1>3. \A c \in NewCandidates(cs) : cache[c] = NoResult
  BY DEF NewCandidates
<1>4. Accounts'
  BY <1>1, <1>2, <1>3 DEF Accounts
<1>5. paid' \in [Candidates -> Nat]
  BY <1>1, <1>2
<1> QED
  BY <1>1, <1>2, <1>4, <1>5 DEF Known

(* A run that is over leaves nothing of a run behind.                       *)
LEMMA OverIsSound ==
  ASSUME RunOver
  PROVE  /\ AtRest' /\ Spending' /\ Sound' /\ Finals'
         /\ run' \in [budget : Budgets \cup {NoBudget}, policy : Policies \cup {"reject"},
                      finalists : Nat]
         /\ phase' = "idle" /\ generation' = -1 /\ simulated' = 0 /\ history' = 0
         /\ stopped' = "no" /\ proposed' = <<>> /\ chosen' = 0 /\ estimate' = NoResult
<1>1. /\ phase' = "idle" /\ run' = NoRun /\ generation' = -1 /\ simulated' = 0
      /\ stopped' = "no" /\ proposed' = <<>> /\ history' = 0
      /\ selection' = <<>> /\ estimate' = NoResult /\ chosen' = 0
  BY DEF RunOver
<1>2. run'.budget = NoBudget /\ run'.policy = "reject"
  BY <1>1 DEF NoRun
<1>3. DOMAIN proposed' = {}
  BY <1>1
<1>4. Spending'
  BY <1>1, <1>2 DEF Spending, AtRest
<1>5. Sound'
  BY <1>1, <1>2, <1>3 DEF Sound, Answering
<1>6. Finals'
  BY <1>1 DEF Finals, Answering
<1> QED
  BY <1>1, <1>4, <1>5, <1>6 DEF AtRest, NoRun

-----------------------------------------------------------------------------
(* Every step keeps the invariant *)

(* Values of fields, from wherever they are taken.                          *)
LEMMA ValuesOfFields ==
  /\ \A c \in Candidates : IsConfiguration(Bindings(c))
  /\ IsConfiguration(Configured)
<1>1. PICK v \in Proposals : TRUE
  BY PopulationAssumption
<1>2. Decoded[v] \in Candidates
  BY <1>1 DEF Candidates
<1>3. \A c \in Candidates : IsConfiguration(Bindings(c))
  BY DEF IsConfiguration, FieldValues, Bindings
<1>4. ASSUME NEW f \in Assigned
      PROVE  f \in Fields /\ (IF f \in Decides THEN Decided ELSE Fixed[f]) \in FieldValues(f)
  <2>1. f \in Fields
    BY AssignedAssumption
  <2>2. CASE f \in Decides
    BY <2>1, <2>2 DEF FieldValues
  <2>3. CASE f \notin Decides
    <3>1. Bound(Decoded[v], f) = Fixed[f]
      BY <2>1, <2>3 DEF Bound, Decides
    <3> QED
      BY <1>2, <2>1, <2>3, <3>1 DEF FieldValues
  <2> QED
    BY <2>2, <2>3
<1>5. IsConfiguration(Configured)
  BY <1>4 DEF Configured, IsConfiguration
<1> QED
  BY <1>3, <1>5

(* A model that was applied or edited is still one.                         *)
LEMMA EditsTyped ==
  ASSUME NEW fields, IsConfiguration(fields)
  PROVE  /\ Answer \in Candidates => IsConfiguration(Applied(fields))
         /\ \A f \in Fields, value \in Edits : IsConfiguration(Edited(fields, f, value))
<1>1. ASSUME Answer \in Candidates PROVE IsConfiguration(Applied(fields))
  BY <1>1 DEF IsConfiguration, Applied, Decides, FieldValues
<1>2. ASSUME NEW f \in Fields, NEW value \in Edits
      PROVE  IsConfiguration(Edited(fields, f, value))
  BY DEF IsConfiguration, Edited, FieldValues
<1> QED
  BY <1>1, <1>2

(* A study that was not used yet.                                           *)
LEMMA Initially == Init => IInv
<1> SUFFICES ASSUME Init PROVE IInv
  OBVIOUS
<1>1. /\ phase = "idle" /\ calls = [all |-> 0, runs |-> 0]
      /\ cache = [c \in Candidates |-> NoResult] /\ paid = [c \in Candidates |-> 0]
      /\ raised = 0 /\ run = NoRun /\ generation = -1 /\ simulated = 0 /\ stopped = "no"
      /\ proposed = <<>> /\ history = 0 /\ selection = <<>> /\ estimate = NoResult
      /\ chosen = 0 /\ live = Configured /\ mine = Configured
      /\ saved = Configured
      /\ built = [of |-> <<>>, fields |-> <<>>]
  BY DEF Init
<1>2. MaxCalls \in Nat /\ MaxRuns \in Nat /\ MaxIter \in Nat
  BY OptionAssumption, PopulationAssumption
<1>3. run \in [budget : Budgets \cup {NoBudget}, policy : Policies \cup {"reject"},
              finalists : Nat]
  BY <1>1 DEF NoRun
<1>4. Types
  <2>1. IsConfiguration(live) /\ IsConfiguration(saved)
    BY <1>1, ValuesOfFields
  <2>2. proposed \in Seq(Candidates) /\ chosen \in 0 .. Len(proposed)
    BY <1>1
  <2>3. calls \in [all : 0 .. MaxCalls, runs : 0 .. MaxRuns]
    BY <1>1, <1>2
  <2> QED
    BY <1>1, <1>2, <1>3, <2>1, <2>2, <2>3 DEF Types, TypeOK
<1>5. Accounts
  BY <1>1 DEF Accounts
<1>6. Spending
  BY <1>1 DEF Spending, NoRun
<1>7. Sound
  <2>1. DOMAIN proposed = {} /\ run.policy = "reject"
    BY <1>1 DEF NoRun
  <2> QED
    BY <1>1, <2>1 DEF Sound, Answering
<1>8. Finals /\ Built /\ Own
  BY <1>1 DEF Finals, Built, Own, Answering
<1> QED
  BY <1>4, <1>5, <1>6, <1>7, <1>8 DEF IInv

(* What the invariant says of a run depends on the variables of the run.    *)
LEMMA SameRun ==
  ASSUME Spending, Sound, Finals, UNCHANGED <<search, answer, phase, cache>>
  PROVE  Spending' /\ Sound' /\ Finals'
<1>1. Spending'
  BY DEF Spending, AtRest, search
<1>2. Eligible' = Eligible /\ Ranked' = Ranked
  BY DEF Eligible, Ranked, Before, SearchEnergy, search
<1>3. Sound'
  BY <1>2 DEF Sound, Answering, search
<1>4. Finals'
  BY <1>2 DEF Finals, Answering, search, answer
<1> QED
  BY <1>1, <1>3, <1>4

(* Between runs it says nothing but that there is none.                     *)
LEMMA Resting ==
  ASSUME Spending, AtRest, AtRest', UNCHANGED search
  PROVE  Spending' /\ Sound' /\ Finals'
<1>1. run' = NoRun /\ generation' = -1 /\ proposed' = <<>> /\ simulated' = 0 /\ history' = 0
  BY DEF Spending, search
<1>2. run'.budget = NoBudget /\ run'.policy = "reject"
  BY <1>1 DEF NoRun
<1>3. phase' \in {"idle", "building"}
  BY DEF AtRest
<1>4. DOMAIN proposed' = {}
  BY <1>1
<1>5. Spending'
  BY <1>1, <1>2 DEF Spending
<1>6. Sound'
  BY <1>1, <1>2, <1>3, <1>4 DEF Sound, Answering
<1>7. Finals'
  BY <1>3 DEF Finals, Answering
<1> QED
  BY <1>5, <1>6, <1>7

(* Calls are counted up to the bound.                                       *)
LEMMA CallCounts ==
  ASSUME Types, Call
  PROVE  calls' \in [all : 0 .. MaxCalls, runs : 0 .. MaxRuns] /\ phase = "idle"
<1>1. /\ phase = "idle" /\ calls.all < MaxCalls /\ calls' = [calls EXCEPT !.all = @ + 1]
      /\ calls \in [all : 0 .. MaxCalls, runs : 0 .. MaxRuns]
  BY DEF Types, TypeOK, Call
<1>2. MaxCalls \in Nat
  BY OptionAssumption
<1>3. calls.all + 1 \in 0 .. MaxCalls
  BY <1>1, <1>2
<1> QED
  BY <1>1, <1>3

(* evaluate: results are cached for whoever asks next, or lost.             *)
LEMMA EvaluateKeeps ==
  ASSUME IInv, NEW values, NEW policy, Evaluate(values, policy)
  PROVE  IInv'
<1> USE DEF IInv
<1> DEFINE cs == [i \in DOMAIN values |-> Candidate(values[i])]
<1>1. /\ Members(cs) \subseteq Candidates
      /\ \/ \E es \in [NewCandidates(cs) -> Evaluation] : Simulate(cs, es, policy)
         \/ Lose(cs)
      /\ Call /\ UNCHANGED <<phase, search, answer, model>>
  BY DEF Evaluate
<1> HIDE DEF cs
<1>2. /\ cache' \in [Candidates -> Evaluation \cup {NoResult}]
      /\ paid' \in [Candidates -> Nat] /\ raised' \in Nat /\ Accounts'
  BY <1>1, Simulated, BatchLost
<1>3. phase = "idle" /\ phase' = "idle"
  BY <1>1, CallCounts
<1>4. Types'
  <2>1. calls' \in [all : 0 .. MaxCalls, runs : 0 .. MaxRuns]
    BY <1>1, CallCounts
  <2> QED
    BY <1>1, <1>2, <2>1 DEF Types, TypeOK, IsConfiguration, search, answer, model
<1>5. Spending' /\ Sound' /\ Finals'
  BY <1>1, <1>3, Resting DEF AtRest
<1>6. Built' /\ Own'
  BY <1>1 DEF Built, Own, model
<1> QED
  BY <1>2, <1>4, <1>5, <1>6

(* What is refused changes nothing.                                         *)
LEMMA RefuseKeeps ==
  ASSUME IInv, NEW values, Refuse(values)
  PROVE  IInv'
<1> USE DEF IInv
<1>1. Call /\ UNCHANGED <<phase, ledger, search, answer, model>>
  BY DEF Refuse
<1>2. calls' \in [all : 0 .. MaxCalls, runs : 0 .. MaxRuns] /\ phase = "idle"
  BY <1>1, CallCounts
<1>3. Types'
  BY <1>1, <1>2 DEF Types, TypeOK, IsConfiguration, ledger, search, answer, model
<1>4. Accounts' /\ Built' /\ Own'
  BY <1>1 DEF Accounts, Built, Own, ledger, model
<1>5. Spending' /\ Sound' /\ Finals'
  BY <1>1, <1>2, Resting DEF AtRest
<1> QED
  BY <1>3, <1>4, <1>5

(* run: it begins with nothing spent.                                       *)
LEMMA StartRunKeeps ==
  ASSUME IInv, NEW budget \in Budgets, NEW policy \in Policies, NEW finalists \in FinalistCounts,
         StartRun(budget, policy, finalists)
  PROVE  IInv'
<1> USE DEF IInv
<1>1. /\ phase = "idle" /\ calls.all < MaxCalls /\ calls.runs < MaxRuns
      /\ calls' = [all |-> calls.all + 1, runs |-> calls.runs + 1]
      /\ budget = NoBudget \/ budget >= Population
      /\ phase' = "search"
      /\ run' = [budget |-> budget, policy |-> policy, finalists |-> finalists]
      /\ UNCHANGED <<generation, simulated, stopped, proposed, history, ledger, answer, model>>
  BY DEF StartRun, CallRun
<1>2. generation = -1 /\ proposed = <<>> /\ simulated = 0 /\ history = 0
  BY <1>1 DEF Spending, AtRest
<1>3. Types'
  <2>1. calls' \in [all : 0 .. MaxCalls, runs : 0 .. MaxRuns]
    <3>1. calls.all \in 0 .. MaxCalls /\ calls.runs \in 0 .. MaxRuns
      BY DEF Types, TypeOK
    <3> QED
      BY <1>1, <3>1, OptionAssumption
  <2>2. run' \in [budget : Budgets \cup {NoBudget}, policy : Policies \cup {"reject"},
                  finalists : Nat]
    BY <1>1, OptionAssumption
  <2> QED
    BY <1>1, <2>1, <2>2 DEF Types, TypeOK, IsConfiguration, ledger, answer, model
<1>4. Accounts'
  BY <1>1 DEF Accounts, ledger
<1>5. Spending'
  <2>1. budget = NoBudget \/ budget \in Nat
    BY BudgetAssumption
  <2> QED
    BY <1>1, <1>2, <2>1, Indices DEF Spending, AtRest
<1>6. Sound' /\ Finals'
  <2>1. DOMAIN proposed' = {} /\ generation' = -1
    BY <1>1, <1>2
  <2> QED
    BY <1>1, <2>1 DEF Sound, Finals, Answering
<1>7. Built' /\ Own'
  BY <1>1 DEF Built, Own, model
<1> QED
  BY <1>3, <1>4, <1>5, <1>6, <1>7

(* A run that ends, whatever it had simulated last.                         *)
LEMMA OverKeeps ==
  ASSUME IInv, RunOver, UNCHANGED <<calls, saved, built>>,
         cache' \in [Candidates -> Evaluation \cup {NoResult}],
         paid' \in [Candidates -> Nat], raised' \in Nat, Accounts',
         IsConfiguration(live'), live' = mine'
  PROVE  IInv'
<1> USE DEF IInv
<1>1. /\ Spending' /\ Sound' /\ Finals'
      /\ run' \in [budget : Budgets \cup {NoBudget}, policy : Policies \cup {"reject"},
                    finalists : Nat]
      /\ phase' = "idle" /\ generation' = -1 /\ simulated' = 0 /\ history' = 0
      /\ stopped' = "no" /\ proposed' = <<>> /\ chosen' = 0 /\ estimate' = NoResult
  BY OverIsSound
<1>2. -1 \in -1 .. MaxIter
  BY PopulationAssumption
<1>3. proposed' \in Seq(Candidates) /\ chosen' \in 0 .. Len(proposed')
  BY <1>1
<1>4. Types'
  BY <1>1, <1>2, <1>3 DEF Types, TypeOK, IsConfiguration
<1>5. Built' /\ Own'
  BY <1>1 DEF Built, Own
<1> QED
  BY <1>1, <1>4, <1>5

(* A run that ends and simulates nothing.                                   *)
LEMMA EndKeeps ==
  ASSUME IInv, RunOver, phase # "building", UNCHANGED <<calls, ledger, model>>
  PROVE  IInv'
<1>1. /\ cache' \in [Candidates -> Evaluation \cup {NoResult}]
      /\ paid' \in [Candidates -> Nat] /\ raised' \in Nat /\ Accounts'
  BY DEF IInv, Types, TypeOK, Accounts, ledger
<1>2. IsConfiguration(live') /\ live' = mine' /\ UNCHANGED <<calls, saved, built>>
  BY DEF IInv, Own, Types, TypeOK, IsConfiguration, model
<1> QED
  BY <1>1, <1>2, OverKeeps

(* A generation that raises nothing has no failure among its results, and   *)
(* under "raise" none among what was known of its candidates.               *)
LEMMA NotRaised ==
  ASSUME Types, NEW cs \in Batch, NEW policy, NEW es \in [NewCandidates(cs) -> Evaluation],
         Simulate(cs, es, policy), ~Raises(cs, es, policy)
  PROVE  /\ ~Fails(es, policy)
         /\ policy = "raise" => \A c \in Members(cs) : cache'[c].failed = 0
<1> DEFINE all == [c \in Members(cs) |-> IF c \in NewCandidates(cs) THEN es[c] ELSE cache[c]]
<1>1. ~Fails(all, policy)
  BY DEF Raises
<1>2. NewCandidates(cs) \subseteq Members(cs) /\ Members(cs) \subseteq Candidates
  BY DEF NewCandidates, Members, Batch
<1>3. ~Fails(es, policy)
  <2>1. \A c \in NewCandidates(cs) : c \in DOMAIN all /\ all[c] = es[c]
    BY <1>2
  <2> QED
    BY <1>1, <2>1 DEF Fails
<1>4. cache' = [c \in Candidates |-> IF c \in NewCandidates(cs) THEN es[c] ELSE cache[c]]
  BY <1>3 DEF Simulate
<1>5. ASSUME policy = "raise", NEW c \in Members(cs) PROVE cache'[c].failed = 0
  <2>1. cache'[c] = all[c]
    BY <1>2, <1>4
  <2>2. ~(all[c].failed > 0)
    BY <1>1, <1>5 DEF Fails
  <2>3. all[c] \in Evaluation
    BY <1>2 DEF Types, TypeOK, NewCandidates
  <2>4. all[c].failed \in 0 .. Reps /\ Reps \in Nat
    BY <2>3, Energies
  <2> QED
    BY <2>1, <2>2, <2>4
<1> QED
  BY <1>3, <1>5

(* A generation simulates no more than the budget has left.                 *)
LEMMA WithinBudget ==
  ASSUME Types, Spending, phase = "search", ~(generation >= 0 /\ Exhausted),
         NEW n \in 0 .. Population, run.budget # NoBudget
  PROVE  simulated + n <= run.budget
<1>1. run.budget \in Nat
  <2>1. run.budget \in Budgets \cup {NoBudget}
    BY DEF Types, TypeOK
  <2> QED
    BY <2>1, BudgetAssumption
<1>2. simulated \in Nat /\ generation \in -1 .. MaxIter /\ Population \in Nat /\ MaxIter \in Nat
  BY PopulationAssumption DEF Types, TypeOK
<1>3. CASE generation = -1
  BY <1>1, <1>2, <1>3 DEF Spending
<1>4. CASE generation # -1
  <2>1. generation >= 0
    BY <1>2, <1>4
  <2>2. ~(run.budget - simulated < Population)
    BY <2>1 DEF Exhausted, Remaining
  <2> QED
    BY <1>1, <1>2, <2>2
<1> QED
  BY <1>3, <1>4

(* What the results of a generation do.                                     *)
Shows(cs, es) ==
  /\ Simulate(cs, es, run.policy)
  /\ IF Raises(cs, es, run.policy) \/ (generation < 0 /\ Hopeless(cs))
     THEN RunOver
     ELSE /\ generation' = Counted(cs)
          /\ simulated'  = simulated + Cardinality(NewCandidates(cs))
          /\ history'    = history + Cardinality(Uncached(cs))
          /\ proposed'   = Extended(proposed, cs)
          /\ phase' = IF generation >= 0 THEN "callback" ELSE "search"
          /\ UNCHANGED <<run, stopped, answer>>

LEMMA ShownKeeps ==
  ASSUME IInv, NEW cs \in Batch, NEW es \in [NewCandidates(cs) -> Evaluation], Shows(cs, es),
         phase = "search", MoreGenerations, ~(generation >= 0 /\ Exhausted),
         UNCHANGED <<calls, model>>
  PROVE  IInv'
<1> USE DEF IInv
<1>1. cs \in Batch
  OBVIOUS
<1>2. /\ phase = "search" /\ MoreGenerations /\ ~(generation >= 0 /\ Exhausted)
      /\ UNCHANGED <<calls, model>>
  OBVIOUS
<1>3. /\ Simulate(cs, es, run.policy)
      /\ IF Raises(cs, es, run.policy) \/ (generation < 0 /\ Hopeless(cs))
         THEN RunOver
         ELSE /\ generation' = Counted(cs)
              /\ simulated'  = simulated + Cardinality(NewCandidates(cs))
              /\ history'    = history + Cardinality(Uncached(cs))
              /\ proposed'   = Extended(proposed, cs)
              /\ phase' = IF generation >= 0 THEN "callback" ELSE "search"
              /\ UNCHANGED <<run, stopped, answer>>
  BY DEF Shows
<1>4. Members(cs) \subseteq Candidates
  BY <1>1 DEF Members, Batch
<1>5. /\ cache' \in [Candidates -> Evaluation \cup {NoResult}]
      /\ paid' \in [Candidates -> Nat] /\ raised' \in Nat /\ Accounts'
      /\ \A c \in Known : cache'[c] = cache[c]
      /\ ~Fails(es, run.policy) =>
           /\ Known' = Known \cup NewCandidates(cs)
           /\ \A c \in Members(cs) : cache'[c] # NoResult
  BY <1>3, <1>4, Simulated
<1>6. CASE Raises(cs, es, run.policy) \/ (generation < 0 /\ Hopeless(cs))
  <2>1. RunOver
    BY <1>3, <1>6
  <2>2. IsConfiguration(live') /\ live' = mine' /\ UNCHANGED <<saved, built>>
    BY <1>2 DEF Own, Types, TypeOK, IsConfiguration, model
  <2> QED
    BY <1>2, <1>5, <2>1, <2>2, OverKeeps
<1>7. CASE ~(Raises(cs, es, run.policy) \/ (generation < 0 /\ Hopeless(cs)))
  <2>1. /\ generation' = generation + 1
        /\ simulated'  = simulated + Cardinality(NewCandidates(cs))
        /\ history'    = history + Cardinality(Uncached(cs))
        /\ proposed'   = Extended(proposed, cs)
        /\ phase' = IF generation >= 0 THEN "callback" ELSE "search"
        /\ UNCHANGED <<run, stopped, answer>>
    BY <1>3, <1>7 DEF Counted
  <2>2. /\ ~Fails(es, run.policy)
        /\ run.policy = "raise" => \A c \in Members(cs) : cache'[c].failed = 0
    BY <1>1, <1>3, <1>7, NotRaised
  <2>3. /\ Cardinality(Uncached(cs)) = Cardinality(NewCandidates(cs))
        /\ Cardinality(NewCandidates(cs)) \in 0 .. Population
    BY <1>1, UncachedCount
  <2>4. /\ generation \in -1 .. MaxIter /\ generation < MaxIter /\ MaxIter \in Nat
        /\ simulated \in Nat /\ history = simulated /\ Population \in Nat
    BY <1>2, PopulationAssumption DEF Types, TypeOK, MoreGenerations, Spending
  <2>5. /\ generation' \in 0 .. MaxIter /\ generation' \in -1 .. MaxIter
        /\ simulated' \in Nat /\ history' = simulated'
    BY <2>1, <2>3, <2>4
  <2>6. proposed \in Seq(Candidates) /\ chosen \in 0 .. Len(proposed)
    BY DEF Types, TypeOK
  <2>7. /\ proposed' \in Seq(Candidates) /\ Len(proposed) <= Len(proposed')
        /\ \A i \in 1 .. Len(proposed) : proposed'[i] = proposed[i]
        /\ Members(proposed') = Members(proposed) \cup Members(cs)
    BY <1>1, <2>1, <2>6, ExtendedHas
  <2>8. Types'
    <3>1. chosen' \in 0 .. Len(proposed')
      <4>1. Len(proposed) \in Nat /\ Len(proposed') \in Nat
        BY <2>6, <2>7
      <4> QED
        BY <2>1, <2>6, <2>7, <4>1 DEF answer
    <3>2. phase' \in {"callback", "search"}
      BY <2>1
    <3> QED
      BY <1>2, <1>5, <2>1, <2>5, <2>7, <3>1, <3>2 DEF Types, TypeOK, IsConfiguration, model, answer
  <2>9. Spending'
    <3>1. phase' \notin {"idle", "building"}
      BY <2>1
    <3>2. run.budget # NoBudget => simulated' <= run.budget /\ Population <= run.budget
      <4> SUFFICES ASSUME run.budget # NoBudget
                   PROVE  simulated' <= run.budget /\ Population <= run.budget
        OBVIOUS
      <4>1. simulated + Cardinality(NewCandidates(cs)) <= run.budget
        BY <1>2, <2>3, WithinBudget
      <4>2. Population <= run.budget
        BY DEF Spending
      <4> QED
        BY <2>1, <4>1, <4>2
    <3>3. generation' # -1
      BY <2>5, <2>4
    <3> QED
      BY <2>1, <2>5, <3>1, <3>2, <3>3 DEF Spending, AtRest
  <2>10. \A i \in DOMAIN proposed' : proposed'[i] \in Members(proposed) \cup Members(cs)
    BY <2>7 DEF Members
  <2>11. \A c \in Members(proposed) : c \in Candidates /\ cache'[c] = cache[c] /\ cache[c] # NoResult
    BY <1>5, <2>6 DEF Members, Sound, Known
  <2>12. \A i \in DOMAIN proposed' : cache'[proposed'[i]] # NoResult
    BY <1>5, <2>2, <2>10, <2>11
  <2>13. run'.policy = "raise" => \A i \in DOMAIN proposed' : cache'[proposed'[i]].failed = 0
    <3>1. run.policy = "raise" => \A c \in Members(proposed) : cache'[c].failed = 0
      BY <2>11 DEF Members, Sound
    <3> QED
      BY <2>1, <2>2, <2>10, <3>1
  <2>14. Eligible' # {}
    <3>1. CASE generation = -1
      <4>1. ~Hopeless(cs)
        BY <1>7, <3>1
      <4>2. PICK k \in DOMAIN cs : ~Rejected(cache'[cs[k]], run.policy)
        BY <4>1 DEF Hopeless
      <4>3. cs[k] \in Members(cs) /\ cs[k] \in Members(proposed')
        BY <2>7 DEF Members
      <4>4. PICK i \in DOMAIN proposed' : proposed'[i] = cs[k]
        BY <4>3 DEF Members
      <4>5. cache'[cs[k]] \in Evaluation
        BY <1>4, <1>5, <2>2, <4>3
      <4>6. Energy(cache'[proposed'[i]], run'.policy) < Infinite
        BY <2>1, <4>2, <4>4, <4>5, Energies
      <4> QED
        BY <4>6 DEF Eligible, SearchEnergy
    <3>2. CASE generation # -1
      <4>1. generation >= 0
        BY <2>4, <3>2
      <4>2. PICK i \in Eligible : TRUE
        BY <4>1 DEF Sound
      <4>3. i \in DOMAIN proposed /\ Energy(cache[proposed[i]], run.policy) < Infinite
        BY DEF Eligible, SearchEnergy
      <4>4. i \in DOMAIN proposed' /\ proposed'[i] = proposed[i]
        <5>1. Len(proposed) \in Nat /\ Len(proposed') \in Nat
          BY <2>6, <2>7
        <5>2. DOMAIN proposed = 1 .. Len(proposed) /\ DOMAIN proposed' = 1 .. Len(proposed')
          BY <2>6, <2>7
        <5> QED
          BY <2>7, <4>3, <5>1, <5>2
      <4>5. cache'[proposed[i]] = cache[proposed[i]]
        BY <2>11, <4>3 DEF Members
      <4> QED
        BY <2>1, <4>3, <4>4, <4>5 DEF Eligible, SearchEnergy
    <3> QED
      BY <3>1, <3>2
  <2>15. phase' \in {"callback", "search"} /\ phase' \notin {"estimation", "published"}
    BY <2>1
  <2>16. Sound'
    BY <2>5, <2>12, <2>13, <2>14, <2>15, <2>4 DEF Sound, Answering
  <2>17. Finals'
    BY <2>15 DEF Finals, Answering
  <2>18. Built' /\ Own'
    BY <1>2, <2>15 DEF Built, Own, model
  <2> QED
    BY <1>5, <2>8, <2>9, <2>16, <2>17, <2>18
<1> QED
  BY <1>6, <1>7

(* A generation: lost with the run, or added to what it knows.              *)
LEMMA GenerationKeeps ==
  ASSUME IInv, NEW vectors \in Batches, Generation(vectors)
  PROVE  IInv'
<1> USE DEF IInv
<1> DEFINE cs == [i \in DOMAIN vectors |-> Decoded[vectors[i]]]
<1>1. cs \in Batch
  BY DecodedBatch
<1>2. /\ phase = "search" /\ MoreGenerations /\ ~(generation >= 0 /\ Exhausted)
      /\ UNCHANGED <<calls, model>>
  BY DEF Generation
<1>3. \/ \E es \in [NewCandidates(cs) -> Evaluation] : Shows(cs, es)
      \/ Lose(cs) /\ RunOver
  BY DEF Generation, Shows
<1> HIDE DEF cs
<1>4. Members(cs) \subseteq Candidates
  BY <1>1 DEF Members, Batch
<1>5. IsConfiguration(live') /\ live' = mine' /\ UNCHANGED <<saved, built>>
  BY <1>2 DEF Own, Types, TypeOK, IsConfiguration, model
<1>6. CASE Lose(cs) /\ RunOver
  BY <1>2, <1>5, <1>6, BatchLost, OverKeeps
<1>7. ASSUME NEW es \in [NewCandidates(cs) -> Evaluation], Shows(cs, es)
      PROVE  IInv'
  BY <1>1, <1>2, <1>7, ShownKeeps
<1> QED
  BY <1>3, <1>6, <1>7

(* The search moves on, or ends.                                            *)
LEMMA SearchKeeps ==
  ASSUME IInv, phase \in {"search", "callback"}, generation >= 0,
         phase' \in {"search", "selection"},
         stopped' \in {"no", "budget", "progress", "converged", "maxiter"},
         UNCHANGED <<calls, ledger, run, generation, simulated, proposed, history, answer, model>>
  PROVE  IInv'
<1> USE DEF IInv
<1>1. Types'
  BY DEF Types, TypeOK, IsConfiguration, ledger, answer, model
<1>2. Accounts'
  BY DEF Accounts, ledger
<1>3. generation # -1
  BY DEF Types, TypeOK
<1>4. Spending'
  BY <1>3 DEF Spending, AtRest
<1>5. Eligible' = Eligible
  BY DEF Eligible, SearchEnergy, ledger
<1>6. Sound'
  BY <1>5 DEF Sound, Answering, ledger
<1>7. Finals'
  BY DEF Finals, Answering
<1>8. Built' /\ Own'
  BY DEF Built, Own, model
<1> QED
  BY <1>1, <1>2, <1>4, <1>6, <1>7, <1>8

(* A stop, a callback, the last generation.                                 *)
LEMMA SearchStepsKeep ==
  ASSUME IInv, SearchStopped \/ Callback \/ ProgressRaises \/ MaxIterReached
  PROVE  IInv'
<1>1. CASE SearchStopped
  <2>1. /\ phase = "search" /\ generation >= 0 /\ stopped' = "budget" /\ phase' = "selection"
        /\ UNCHANGED <<calls, ledger, run, generation, simulated, proposed, history, answer, model>>
    BY <1>1 DEF SearchStopped
  <2> QED
    BY <2>1, SearchKeeps
<1>2. CASE Callback
  <2>1. /\ phase = "callback" /\ phase' \in {"search", "selection"}
        /\ stopped' \in {"no", "budget", "progress", "converged", "maxiter"}
        /\ UNCHANGED <<calls, ledger, run, generation, simulated, proposed, history, answer, model>>
    BY <1>2 DEF Callback, IInv, Types, TypeOK
  <2>2. generation >= 0
    BY <2>1 DEF IInv, Sound
  <2> QED
    BY <2>1, <2>2, SearchKeeps
<1>3. CASE MaxIterReached
  <2>1. /\ phase = "search" /\ generation >= 0 /\ stopped' = "maxiter" /\ phase' = "selection"
        /\ UNCHANGED <<calls, ledger, run, generation, simulated, proposed, history, answer, model>>
    BY <1>3 DEF MaxIterReached
  <2> QED
    BY <2>1, SearchKeeps
<1>4. CASE ProgressRaises
  BY <1>4, EndKeeps DEF ProgressRaises
<1> QED
  BY <1>1, <1>2, <1>3, <1>4

(* Places of candidates in a run.                                           *)
LEMMA Places ==
  ASSUME Types
  PROVE  /\ DOMAIN proposed = 1 .. Len(proposed) /\ Len(proposed) \in Nat
         /\ Ranked \subseteq Eligible /\ Eligible \subseteq 1 .. Len(proposed)
         /\ \A i \in DOMAIN proposed : proposed[i] \in Candidates
<1>1. proposed \in Seq(Candidates)
  BY DEF Types, TypeOK
<1> QED
  BY <1>1 DEF Ranked, Eligible

(* Selection: the run is lost, or one finalist is chosen.                   *)
LEMMA SelectionKeeps ==
  ASSUME IInv, Selection
  PROVE  IInv'
<1> USE DEF IInv
<1>1. phase = "selection" /\ UNCHANGED <<calls, ledger, model>>
  BY DEF Selection
<1>2. PICK es \in [Ranked -> Evaluation] :
        IF Fails(es, run.policy) \/ \A i \in Ranked : Rejected(es[i], run.policy)
        THEN RunOver
        ELSE /\ selection' = es /\ phase' = "estimation"
             /\ \E i \in Ranked : IsChosen(i, Ranked) /\ chosen' = i
             /\ UNCHANGED <<search, estimate>>
  BY DEF Selection
<1>3. CASE Fails(es, run.policy) \/ \A i \in Ranked : Rejected(es[i], run.policy)
  <2>1. RunOver
    BY <1>2, <1>3
  <2> QED
    BY <1>1, <2>1, EndKeeps
<1>4. CASE ~(Fails(es, run.policy) \/ \A i \in Ranked : Rejected(es[i], run.policy))
  <2>1. /\ selection' = es /\ phase' = "estimation" /\ UNCHANGED <<search, estimate>>
        /\ \E i \in Ranked : IsChosen(i, Ranked) /\ chosen' = i
    BY <1>2, <1>4
  <2>2. chosen' \in Ranked /\ IsChosen(chosen', Ranked)
    BY <2>1
  <2>3. Eligible' = Eligible /\ Ranked' = Ranked
    BY <1>1, <2>1 DEF Eligible, Ranked, Before, SearchEnergy, search, ledger
  <2>4. /\ Energy(es[chosen'], run.policy) < Infinite
        /\ \A j \in Ranked : \/ Energy(es[chosen'], run.policy) < Energy(es[j], run.policy)
                             \/ Energy(es[chosen'], run.policy) = Energy(es[j], run.policy)
    BY <2>1, <2>2 DEF IsChosen, SelectionEnergy
  <2>5. \A j \in Ranked : Energy(es[j], run.policy) \in Int
    BY Energies
  <2>6. \A j \in Ranked : Energy(es[chosen'], run.policy) <= Energy(es[j], run.policy)
    BY <2>2, <2>4, <2>5
  <2>7. run.policy = "raise" => es[chosen'].failed = 0
    <3> SUFFICES ASSUME run.policy = "raise" PROVE es[chosen'].failed = 0
      OBVIOUS
    <3>1. ~(es[chosen'].failed > 0)
      BY <1>4, <2>2 DEF Fails
    <3>2. es[chosen'].failed \in 0 .. Reps /\ Reps \in Nat
      BY <2>2, Energies
    <3> QED
      BY <3>1, <3>2
  <2>8. Types'
    <3>1. chosen' \in 0 .. Len(proposed)
      BY <2>2, Places
    <3> QED
      BY <1>1, <2>1, <3>1 DEF Types, TypeOK, IsConfiguration, search, ledger, model
  <2>9. Accounts' /\ Built' /\ Own'
    BY <1>1, <2>1 DEF Accounts, ledger, Built, Own, model
  <2>10. Spending'
    BY <1>1, <2>1 DEF Spending, AtRest, search
  <2>11. Sound'
    BY <1>1, <2>1, <2>3 DEF Sound, Answering, search, ledger
  <2>12. Finals'
    BY <2>1, <2>2, <2>3, <2>4, <2>6, <2>7 DEF Finals, Answering, search
  <2> QED
    BY <2>8, <2>9, <2>10, <2>11, <2>12
<1> QED
  BY <1>3, <1>4

(* What a run publishes has not failed, unless the policy ignores failures. *)
LEMMA PublishedFailed ==
  ASSUME Types, NEW e \in Evaluation, Publishes(e), run.policy # "ignore"
  PROVE  e.failed = 0
<1>1. run.policy \in {"reject", "raise"}
  <2>1. run.policy \in Policies \cup {"reject"}
    BY DEF Types, TypeOK
  <2> QED
    BY <2>1, OptionAssumption
<1>2. e.failed \in 0 .. Reps /\ Reps \in Nat
  BY Energies
<1>3. CASE run.policy = "reject"
  BY <1>2, <1>3 DEF Publishes, Rejected
<1>4. CASE run.policy = "raise"
  BY <1>4 DEF Publishes
<1> QED
  BY <1>1, <1>3, <1>4

(* Estimation: the run is lost, or the answer is published.                 *)
LEMMA EstimationKeeps ==
  ASSUME IInv, Estimation
  PROVE  IInv'
<1> USE DEF IInv
<1>1. phase = "estimation" /\ UNCHANGED <<calls, ledger, model>>
  BY DEF Estimation
<1>2. PICK e \in Evaluation :
        IF Publishes(e)
        THEN /\ estimate' = e /\ phase' = "published"
             /\ UNCHANGED <<search, selection, chosen>>
        ELSE RunOver
  BY DEF Estimation
<1>3. CASE ~Publishes(e)
  <2>1. RunOver
    BY <1>2, <1>3
  <2> QED
    BY <1>1, <2>1, EndKeeps
<1>4. CASE Publishes(e)
  <2>1. estimate' = e /\ phase' = "published" /\ UNCHANGED <<search, selection, chosen>>
    BY <1>2, <1>4
  <2>2. Eligible' = Eligible /\ Ranked' = Ranked
    BY <1>1, <2>1 DEF Eligible, Ranked, Before, SearchEnergy, search, ledger
  <2>3. Types'
    BY <1>1, <2>1 DEF Types, TypeOK, IsConfiguration, search, ledger, model
  <2>4. Accounts' /\ Built' /\ Own'
    BY <1>1, <2>1 DEF Accounts, ledger, Built, Own, model
  <2>5. Spending'
    BY <1>1, <2>1 DEF Spending, AtRest, search
  <2>6. Sound'
    BY <1>1, <2>1, <2>2 DEF Sound, Answering, search, ledger
  <2>7. run.policy # "ignore" => e.failed = 0
    BY <1>4, PublishedFailed
  <2>8. Finals'
    BY <1>1, <2>1, <2>2, <2>7 DEF Finals, Answering, search
  <2> QED
    BY <2>3, <2>4, <2>5, <2>6, <2>8
<1> QED
  BY <1>3, <1>4

(* The objective raises after the search.                                   *)
LEMMA ObjectiveKeeps ==
  ASSUME IInv, ObjectiveRaises
  PROVE  IInv'
BY EndKeeps DEF ObjectiveRaises

(* The answer is returned, and perhaps applied.                             *)
LEMMA ReturnKeeps ==
  ASSUME IInv, Return
  PROVE  IInv'
<1>1. /\ phase = "published" /\ RunOver /\ UNCHANGED <<calls, ledger, saved, built>>
      /\ \/ UNCHANGED <<live, mine>>
         \/ live' = Applied(live) /\ mine' = Applied(mine)
  BY DEF Return
<1>2. Types /\ chosen \in Ranked /\ live = mine
  BY <1>1 DEF IInv, Finals, Answering, Own
<1>3. Answer \in Candidates
  BY <1>2, Places DEF Answer
<1>4. IsConfiguration(live)
  BY <1>2 DEF Types, TypeOK
<1>5. IsConfiguration(Applied(live))
  BY <1>3, <1>4, EditsTyped
<1>6. IsConfiguration(live') /\ live' = mine'
  BY <1>1, <1>2, <1>4, <1>5
<1>7. /\ cache' \in [Candidates -> Evaluation \cup {NoResult}]
      /\ paid' \in [Candidates -> Nat] /\ raised' \in Nat /\ Accounts'
  BY <1>1 DEF IInv, Types, TypeOK, Accounts, ledger
<1> QED
  BY <1>1, <1>6, <1>7, OverKeeps

(* The user assigns to a field.                                             *)
LEMMA EditKeeps ==
  ASSUME IInv, NEW f \in Fields, NEW value \in Edits, Edit(f, value)
  PROVE  IInv'
<1> USE DEF IInv
<1>1. /\ Call /\ live' = Edited(live, f, value) /\ mine' = Edited(mine, f, value)
      /\ UNCHANGED <<phase, ledger, search, answer, saved, built>>
  BY DEF Edit
<1>2. calls' \in [all : 0 .. MaxCalls, runs : 0 .. MaxRuns] /\ phase = "idle"
  BY <1>1, CallCounts
<1>3. IsConfiguration(live')
  <2>1. IsConfiguration(live)
    BY DEF Types, TypeOK
  <2> QED
    BY <1>1, <2>1, EditsTyped
<1>4. Types'
  BY <1>1, <1>2, <1>3 DEF Types, TypeOK, IsConfiguration, ledger, search, answer
<1>5. Accounts'
  BY <1>1 DEF Accounts, ledger
<1>6. Spending' /\ Sound' /\ Finals'
  BY <1>1, <1>2, Resting DEF AtRest
<1>7. Built' /\ Own'
  BY <1>1, <1>2 DEF Built, Own
<1> QED
  BY <1>4, <1>5, <1>6, <1>7

(* experiment: the model is copied and given the fields of the study.       *)
LEMMA BeginExperimentKeeps ==
  ASSUME IInv, NEW values, BeginExperiment(values)
  PROVE  IInv'
<1> USE DEF IInv
<1>1. /\ Call /\ Candidate(values) \in Candidates
      /\ phase' = "building" /\ saved' = live
      /\ live' = Bindings(Candidate(values))
      /\ built' = [of |-> Candidate(values), fields |-> <<>>]
      /\ UNCHANGED <<mine, ledger, search, answer>>
  BY DEF BeginExperiment, Written
<1>2. calls' \in [all : 0 .. MaxCalls, runs : 0 .. MaxRuns] /\ phase = "idle"
  BY <1>1, CallCounts
<1>3. IsConfiguration(live') /\ IsConfiguration(saved')
  BY <1>1, ValuesOfFields DEF Types, TypeOK
<1>4. Types'
  BY <1>1, <1>2, <1>3 DEF Types, TypeOK, IsConfiguration, ledger, search, answer
<1>5. Accounts'
  BY <1>1 DEF Accounts, ledger
<1>6. Spending' /\ Sound' /\ Finals'
  BY <1>1, <1>2, Resting DEF AtRest
<1>7. Built' /\ Own'
  BY <1>1, <1>2 DEF Built, Own
<1> QED
  BY <1>4, <1>5, <1>6, <1>7

(* The Experiment is built, or is not, and the model put back.              *)
LEMMA EndExperimentKeeps ==
  ASSUME IInv, EndExperiment
  PROVE  IInv'
<1> USE DEF IInv
<1>1. /\ phase = "building" /\ phase' = "idle"
      /\ built' \in {[built EXCEPT !.fields = live], built}
      /\ live' = saved
      /\ UNCHANGED <<calls, ledger, search, answer, mine, saved>>
  BY DEF EndExperiment, Restored
<1>2. IsConfiguration(live') /\ live' = mine'
  BY <1>1 DEF Types, Own
<1>3. Types'
  BY <1>1, <1>2 DEF Types, TypeOK, IsConfiguration, ledger, search, answer
<1>4. Accounts'
  BY <1>1 DEF Accounts, ledger
<1>5. Spending' /\ Sound' /\ Finals'
  BY <1>1, Resting DEF AtRest
<1>6. Built'
  <2>1. live = Bindings(built.of) /\ built = [of |-> built.of, fields |-> built.fields]
    BY <1>1 DEF Built
  <2>2. CASE built' = built
    BY <1>1, <2>2 DEF Built
  <2>3. CASE built' = [built EXCEPT !.fields = live]
    <3>1. built' = [of |-> built.of, fields |-> live]
      BY <2>1, <2>3
    <3> QED
      BY <1>1, <2>1, <3>1 DEF Built
  <2> QED
    BY <1>1, <2>2, <2>3
<1>7. Own'
  BY <1>1, <1>2 DEF Own
<1> QED
  BY <1>3, <1>4, <1>5, <1>6, <1>7

(* Nothing happens.                                                         *)
LEMMA StutterKeeps ==
  ASSUME IInv, UNCHANGED vars
  PROVE  IInv'
<1> USE DEF IInv
<1>1. UNCHANGED <<phase, calls, cache, paid, raised, saved, live, mine, built, search, answer>>
  BY DEF vars, ledger, model
<1>2. Types'
  BY <1>1 DEF Types, TypeOK, IsConfiguration, search, answer
<1>3. Accounts' /\ Built' /\ Own'
  BY <1>1 DEF Accounts, Built, Own
<1>4. Spending' /\ Sound' /\ Finals'
  BY <1>1, SameRun
<1> QED
  BY <1>2, <1>3, <1>4

(* Any step.                                                                *)
LEMMA NextKeeps ==
  ASSUME IInv, [Next]_vars
  PROVE  IInv'
<1>1. CASE UNCHANGED vars
  BY <1>1, StutterKeeps
<1>2. ASSUME NEW values, NEW policy, Evaluate(values, policy)
      PROVE  IInv'
  BY <1>2, EvaluateKeeps
<1>3. ASSUME NEW budget \in Budgets, NEW policy \in Policies, NEW finalists \in FinalistCounts,
             StartRun(budget, policy, finalists)
      PROVE  IInv'
  BY <1>3, StartRunKeeps
<1>4. ASSUME NEW f \in Fields, NEW value \in Edits, Edit(f, value)
      PROVE  IInv'
  BY <1>4, EditKeeps
<1>5. ASSUME NEW values, BeginExperiment(values) \/ Refuse(values)
      PROVE  IInv'
  BY <1>5, BeginExperimentKeeps, RefuseKeeps
<1>6. ASSUME NEW vectors \in Batches, Generation(vectors)
      PROVE  IInv'
  BY <1>6, GenerationKeeps
<1>7. CASE SearchStopped \/ Callback \/ ProgressRaises \/ MaxIterReached
  BY <1>7, SearchStepsKeep
<1>8. CASE Selection
  BY <1>8, SelectionKeeps
<1>9. CASE Estimation \/ ObjectiveRaises
  BY <1>9, EstimationKeeps, ObjectiveKeeps
<1>10. CASE Return
  BY <1>10, ReturnKeeps
<1>11. CASE EndExperiment
  BY <1>11, EndExperimentKeeps
<1> QED
  BY <1>1, <1>2, <1>3, <1>4, <1>5, <1>6, <1>7, <1>8, <1>9, <1>10, <1>11 DEF Next, User, Progress

(* The inductive invariant holds of every study (Optimization, study.py).   *)
THEOREM Invariant == Spec => []IInv
<1>1. Init => IInv
  BY Initially
<1>2. IInv /\ [Next]_vars => IInv'
  BY NextKeeps
<1> QED
  BY <1>1, <1>2, PTL DEF Spec

-----------------------------------------------------------------------------
(* What a study promises *)

(* Every variable keeps its type; a candidate is simulated on the search    *)
(* seeds once, but for batches that were thrown away, and the rows of the   *)
(* history that are not cached are those that a run simulated               *)
(* (Optimization._evaluate).                                                *)
THEOREM Reuse == Spec => []PaidOnce
<1>1. IInv => PaidOnce
  <2> SUFFICES ASSUME IInv PROVE PaidOnce
    OBVIOUS
  <2>1. TypeOK /\ history = simulated
    BY DEF IInv, Types, Spending
  <2>2. ASSUME NEW c \in Candidates PROVE paid[c] <= raised + 1
    <3>1. paid[c] <= IF cache[c] = NoResult THEN raised ELSE raised + 1
      BY DEF IInv, Accounts
    <3>2. paid[c] \in Nat /\ raised \in Nat
      BY <2>1 DEF TypeOK
    <3> QED
      BY <3>1, <3>2
  <2> QED
    BY <2>1, <2>2 DEF PaidOnce
<1> QED
  BY <1>1, Invariant, PTL

(* An Experiment has the configuration of the study at the values it was    *)
(* asked for, whatever was edited or applied since (Optimization.experiment)*)
THEOREM Configuration == Spec => []ExperimentFaithful
<1>1. IInv => ExperimentFaithful
  BY DEF IInv, Built, ExperimentFaithful
<1> QED
  BY <1>1, Invariant, PTL

(* Between calls of experiment, that built one or failed to, the model is   *)
(* what the configuration and the user's own assignments made it, with no   *)
(* field more or less (Optimization.experiment): while an Experiment is     *)
(* built the copy is that, and the model is put back from the copy.         *)
THEOREM Restoration == Spec => []ModelRestored
<1>1. IInv => ModelRestored
  BY DEF IInv, Own, ModelRestored
<1> QED
  BY <1>1, Invariant, PTL

-----------------------------------------------------------------------------
(* The finalists *)

Ahead(i) == {j \in Eligible : Before(j, i)}

(* Candidates of a run have energies.                                       *)
LEMMA SearchEnergies ==
  ASSUME Types, Sound
  PROVE  /\ \A i \in DOMAIN proposed : SearchEnergy(i) \in Int /\ cache[proposed[i]] \in Evaluation
         /\ Infinite \in Int
<1>1. \A i \in DOMAIN proposed : proposed[i] \in Candidates
  BY Places
<1>2. \A i \in DOMAIN proposed : cache[proposed[i]] \in Evaluation
  BY <1>1 DEF Types, TypeOK, Sound
<1> QED
  BY <1>2, Energies, EnergyAssumption DEF SearchEnergy

(* The search order of the eligible candidates is a strict total order.     *)
LEMMA SearchOrder ==
  ASSUME Types, Sound
  PROVE  /\ \A i, j \in Eligible : i # j => Before(i, j) \/ Before(j, i)
         /\ \A i \in Eligible : ~Before(i, i)
         /\ \A i, j, k \in Eligible : Before(i, j) /\ Before(j, k) => Before(i, k)
<1>1. /\ \A i \in Eligible : i \in DOMAIN proposed /\ i \in Int
  BY Places
<1>2. \A i \in Eligible : SearchEnergy(i) \in Int
  BY <1>1, SearchEnergies
<1> QED
  BY <1>1, <1>2 DEF Before

(* Finitely many are ahead.                                                 *)
LEMMA AheadFinite ==
  ASSUME Types, NEW i
  PROVE  IsFiniteSet(Ahead(i)) /\ Cardinality(Ahead(i)) \in Nat
<1>1. Len(proposed) \in Nat /\ Ahead(i) \in SUBSET (1 .. Len(proposed))
  BY Places DEF Ahead
<1>2. IsFiniteSet(1 .. Len(proposed))
  BY <1>1, FS_Interval
<1> QED
  BY <1>1, <1>2, FS_Subset, FS_CardinalityType

(* Who is before another has fewer ahead.                                   *)
LEMMA AheadGrows ==
  ASSUME Types, Sound, NEW i \in Eligible, NEW j \in Eligible, Before(i, j)
  PROVE  Cardinality(Ahead(i)) < Cardinality(Ahead(j))
<1>1. IsFiniteSet(Ahead(i)) /\ Cardinality(Ahead(i)) \in Nat
  BY AheadFinite
<1>2. IsFiniteSet(Ahead(j)) /\ Cardinality(Ahead(j)) \in Nat
  BY AheadFinite
<1>3. i \notin Ahead(i)
  BY SearchOrder DEF Ahead
<1>4. Ahead(i) \cup {i} \in SUBSET Ahead(j)
  BY SearchOrder DEF Ahead
<1>5. Cardinality(Ahead(i) \cup {i}) = Cardinality(Ahead(i)) + 1
  BY <1>1, <1>3, FS_AddElement
<1>6. Cardinality(Ahead(i) \cup {i}) <= Cardinality(Ahead(j))
  BY <1>2, <1>4, FS_Subset
<1> QED
  BY <1>1, <1>2, <1>5, <1>6

(* There are no more finalists than the run asked for.                      *)
LEMMA FinalistsBounded ==
  ASSUME Types, Sound
  PROVE  Cardinality(Ranked) <= run.finalists
<1> DEFINE n    == run.finalists
           rank == [i \in Ranked |-> Cardinality(Ahead(i))]
<1>1. n \in Nat
  BY DEF Types, TypeOK
<1>2. IsFiniteSet(0 .. n - 1) /\ Cardinality(0 .. n - 1) = n
  <2>1. n - 1 \in Int /\ 0 \in Int
    BY <1>1
  <2>2. /\ IsFiniteSet(0 .. n - 1)
        /\ Cardinality(0 .. n - 1) = IF 0 > n - 1 THEN 0 ELSE n - 1 - 0 + 1
    BY <2>1, FS_Interval
  <2> QED
    BY <1>1, <2>2
<1>3. \A i \in Ranked : i \in Eligible /\ Cardinality(Ahead(i)) < n
  BY DEF Ranked, Ahead
<1>4. \A i \in Ranked : rank[i] \in 0 .. n - 1
  <2> TAKE i \in Ranked
  <2>1. Cardinality(Ahead(i)) \in Nat
    BY AheadFinite
  <2> QED
    BY <1>1, <1>3, <2>1
<1>5. \A i, j \in Ranked : rank[i] = rank[j] => i = j
  <2> SUFFICES ASSUME NEW i \in Ranked, NEW j \in Ranked, i # j PROVE rank[i] # rank[j]
    OBVIOUS
  <2>1. i \in Eligible /\ j \in Eligible
    BY <1>3
  <2>2. Cardinality(Ahead(i)) \in Nat /\ Cardinality(Ahead(j)) \in Nat
    BY AheadFinite
  <2>3. CASE Before(i, j)
    BY <2>1, <2>2, <2>3, AheadGrows
  <2>4. CASE Before(j, i)
    BY <2>1, <2>2, <2>4, AheadGrows
  <2> QED
    BY <2>1, <2>3, <2>4, SearchOrder
<1>6. rank \in Injection(Ranked, 0 .. n - 1)
  BY <1>4, <1>5 DEF Injection, IsInjective
<1>7. Cardinality(Ranked) <= Cardinality(0 .. n - 1)
  BY <1>2, <1>6, FS_Injection
<1> QED
  BY <1>2, <1>7

(* Who is not a finalist did no better in the search than one.              *)
LEMMA FinalistsBest ==
  ASSUME Types, Sound, NEW i \in Ranked, NEW j \in DOMAIN proposed, j \notin Ranked
  PROVE  SearchEnergy(i) <= SearchEnergy(j)
<1>1. i \in Eligible /\ i \in DOMAIN proposed /\ SearchEnergy(i) < Infinite
  BY DEF Ranked, Eligible
<1>2. SearchEnergy(i) \in Int /\ SearchEnergy(j) \in Int /\ Infinite \in Int
  BY <1>1, SearchEnergies
<1>3. CASE j \notin Eligible
  BY <1>1, <1>2, <1>3 DEF Eligible
<1>4. CASE j \in Eligible
  <2> SUFFICES ASSUME SearchEnergy(j) < SearchEnergy(i) PROVE FALSE
    BY <1>2
  <2>1. Cardinality(Ahead(j)) < Cardinality(Ahead(i))
    <3>1. Before(j, i)
      BY DEF Before
    <3> QED
      BY <1>1, <1>4, <3>1, AheadGrows
  <2>2. Cardinality(Ahead(i)) < run.finalists
    BY DEF Ranked, Ahead
  <2>3. /\ Cardinality(Ahead(j)) \in Nat /\ Cardinality(Ahead(i)) \in Nat
        /\ run.finalists \in Nat
    BY AheadFinite DEF Types, TypeOK
  <2>4. Cardinality(Ahead(j)) < run.finalists
    BY <2>1, <2>2, <2>3
  <2>5. j \in Ranked
    BY <1>4, <2>4 DEF Ranked, Ahead
  <2> QED
    BY <2>5
<1> QED
  BY <1>3, <1>4

(* What has an energy did not fail, unless the policy ignores that.         *)
LEMMA AcceptedFailed ==
  ASSUME NEW e \in Evaluation, Energy(e, run.policy) < Infinite, run.policy = "reject"
  PROVE  e.failed = 0
<1>1. ~Rejected(e, run.policy) /\ e.failed \in 0 .. Reps /\ Reps \in Nat
  BY Energies
<1> QED
  BY <1>1 DEF Rejected

(* When the search is over there is something to select; the answer is the  *)
(* best of the finalists, none of the others did better in the search, and  *)
(* unless failures are ignored none of its trials failed, in any phase      *)
(* (Optimization.run).                                                      *)
THEOREM Answered == Spec => []AnswerHolds
<1>1. IInv => AnswerHolds
  <2> SUFFICES ASSUME IInv PROVE AnswerHolds
    OBVIOUS
  <2>1. Types /\ Sound /\ Finals
    BY DEF IInv
  <2>2. phase \in {"callback", "selection"} => Eligible # {}
    BY <2>1 DEF Sound
  <2>3. ASSUME phase = "published"
        PROVE  /\ chosen \in DOMAIN selection
               /\ \A i \in DOMAIN selection :
                    /\ Energy(selection[chosen], run.policy) <= Energy(selection[i], run.policy)
                    /\ \A j \in DOMAIN proposed \ DOMAIN selection :
                         SearchEnergy(i) <= SearchEnergy(j)
               /\ Cardinality(DOMAIN selection) <= run.finalists
               /\ run.policy # "ignore" =>
                    cache[Answer].failed = 0 /\ selection[chosen].failed = 0 /\ estimate.failed = 0
    <3>1. /\ selection \in [Ranked -> Evaluation] /\ chosen \in Ranked
          /\ Energy(selection[chosen], run.policy) < Infinite
          /\ \A i \in Ranked :
               Energy(selection[chosen], run.policy) <= Energy(selection[i], run.policy)
          /\ run.policy = "raise" => selection[chosen].failed = 0
          /\ run.policy # "ignore" => estimate.failed = 0
      BY <2>1, <2>3 DEF Finals, Answering
    <3>2. DOMAIN selection = Ranked
      BY <3>1
    <3>3. \A i \in Ranked : \A j \in DOMAIN proposed \ Ranked : SearchEnergy(i) <= SearchEnergy(j)
      BY <2>1, FinalistsBest
    <3>4. Cardinality(Ranked) <= run.finalists
      BY <2>1, FinalistsBounded
    <3>5. ASSUME run.policy # "ignore"
          PROVE  cache[Answer].failed = 0 /\ selection[chosen].failed = 0
      <4>1. run.policy \in Policies \cup {"reject"}
        BY <2>1 DEF Types, TypeOK
      <4>2. run.policy \in {"reject", "raise"}
        BY <3>5, <4>1, OptionAssumption
      <4>3. /\ chosen \in DOMAIN proposed /\ SearchEnergy(chosen) < Infinite
            /\ cache[Answer] \in Evaluation
        BY <2>1, <3>1, Places, SearchEnergies DEF Ranked, Eligible, Answer
      <4>4. CASE run.policy = "raise"
        BY <2>1, <3>1, <4>3, <4>4 DEF Sound, Answer
      <4>5. CASE run.policy = "reject"
        <5>1. cache[Answer].failed = 0
          BY <4>3, <4>5, AcceptedFailed DEF SearchEnergy, Answer
        <5>2. selection[chosen] \in Evaluation
          BY <3>1
        <5>3. selection[chosen].failed = 0
          BY <3>1, <4>5, <5>2, AcceptedFailed
        <5> QED
          BY <5>1, <5>3
      <4> QED
        BY <4>2, <4>4, <4>5
    <3> QED
      BY <3>1, <3>2, <3>3, <3>4, <3>5
  <2> QED
    BY <2>2, <2>3 DEF AnswerHolds
<1> QED
  BY <1>1, Invariant, PTL

-----------------------------------------------------------------------------
(* A study keeps its books *)

Opened  == phase \notin {"idle", "building"}
Answers == IF phase = "published" THEN {Answer} ELSE {}

(* The ledger counts as the study does.                                     *)
LEMMA SameCardinality == \A S : Books!Cardinality(S) = Cardinality(S)
BY DEF Books!Cardinality, Cardinality

(* The steps of the ledger, in the terms of the study.                      *)
Opens ==
  /\ ~Opened /\ Opened' /\ run'.budget \in Budgets
  /\ Known' = Known /\ simulated' = simulated /\ Answers' = Answers
Buys ==
  /\ Known \subseteq Known'
  /\ simulated' = IF Opened THEN simulated + Cardinality(Known' \ Known) ELSE simulated
  /\ Opened /\ run.budget # NoBudget => simulated' <= run.budget
  /\ run'.budget = run.budget /\ Opened' = Opened /\ Answers' = Answers
Publication ==
  /\ Opened /\ \E c \in Known : Answers' = {c}
  /\ Known' = Known /\ simulated' = simulated /\ run'.budget = run.budget /\ Opened' = Opened
Closes ==
  /\ Opened /\ ~Opened' /\ Known \subseteq Known'
  /\ run.budget # NoBudget => simulated + Cardinality(Known' \ Known) <= run.budget
  /\ Answers' = {} /\ simulated' = 0 /\ run'.budget = NoBudget
KeepsAll ==
  /\ Known' = Known /\ simulated' = simulated /\ run'.budget = run.budget
  /\ Opened' = Opened /\ Answers' = Answers

(* Each is one.                                                             *)
LEMMA StepsOfBooks ==
  ASSUME Opens \/ Buys \/ Publication \/ Closes \/ KeepsAll
  PROVE  [Books!LNext]_(Books!lvars)
<1> USE DEF Opened, Answers
<1>1. CASE Opens
  BY <1>1 DEF Opens, Books!LNext, Books!Open
<1>2. CASE Buys
  BY <1>2, SameCardinality DEF Buys, Books!LNext, Books!Buy
<1>3. CASE Publication
  BY <1>3 DEF Publication, Books!LNext, Books!Publish
<1>4. CASE Closes
  BY <1>4, SameCardinality DEF Closes, Books!LNext, Books!Close
<1>5. CASE KeepsAll
  BY <1>5 DEF KeepsAll, Books!lvars
<1> QED
  BY <1>1, <1>2, <1>3, <1>4, <1>5

(* A run that ends closes the books, whatever it has bought just then.      *)
LEMMA OverCloses ==
  ASSUME RunOver, Opened, Known \subseteq Known',
         run.budget # NoBudget => simulated + Cardinality(Known' \ Known) <= run.budget
  PROVE  Closes
<1>1. phase' = "idle" /\ simulated' = 0 /\ run' = NoRun
  BY DEF RunOver
<1> QED
  BY <1>1 DEF Closes, Opened, Answers, NoRun

(* Nothing is bought when the cache is as it was.                           *)
LEMMA SameCache ==
  ASSUME IInv, UNCHANGED ledger
  PROVE  /\ Known' = Known /\ simulated + Cardinality(Known' \ Known) = simulated
         /\ run.budget # NoBudget => simulated + Cardinality(Known' \ Known) <= run.budget
<1>1. Known' = Known
  BY DEF Known, ledger
<1>2. Cardinality(Known' \ Known) = 0
  <2>1. Known' \ Known = {}
    BY <1>1
  <2> QED
    BY <2>1, FS_EmptySet
<1>3. simulated \in Nat
  BY DEF IInv, Types, TypeOK
<1>4. run.budget # NoBudget => simulated <= run.budget
  BY DEF IInv, Spending
<1> QED
  BY <1>1, <1>2, <1>3, <1>4

(* What the user does between runs buys, opens, or leaves the books.        *)
LEMMA UserKeepsBooks ==
  ASSUME IInv, User
  PROVE  Opens \/ Buys \/ KeepsAll
<1>1. ASSUME NEW values, NEW policy, Evaluate(values, policy)
      PROVE  Buys
  <2> DEFINE cs == [i \in DOMAIN values |-> Candidate(values[i])]
  <2>1. /\ Members(cs) \subseteq Candidates
        /\ \/ \E es \in [NewCandidates(cs) -> Evaluation] : Simulate(cs, es, policy)
           \/ Lose(cs)
        /\ phase = "idle" /\ UNCHANGED <<phase, search, answer, model>>
    BY <1>1 DEF Evaluate, Call
  <2> HIDE DEF cs
  <2>2. ASSUME NEW es \in [NewCandidates(cs) -> Evaluation], Simulate(cs, es, policy)
        PROVE  Known \subseteq Known'
    BY <2>1, <2>2, Simulated DEF IInv
  <2>3. ASSUME Lose(cs)
        PROVE  Known \subseteq Known'
    <3>1. Types /\ Accounts
      BY DEF IInv
    <3>2. Known' = Known
      BY <2>3, <3>1, BatchLost
    <3> QED
      BY <3>2
  <2>4. Known \subseteq Known'
    BY <2>1, <2>2, <2>3
  <2> QED
    BY <2>1, <2>4 DEF Buys, Opened, Answers, search
<1>2. ASSUME NEW budget \in Budgets, NEW policy \in Policies, NEW finalists \in FinalistCounts,
             StartRun(budget, policy, finalists)
      PROVE  Opens
  <2>1. /\ phase = "idle" /\ phase' = "search" /\ UNCHANGED <<simulated, ledger>>
        /\ run' = [budget |-> budget, policy |-> policy, finalists |-> finalists]
    BY <1>2 DEF StartRun, CallRun
  <2>2. Known' = Known
    BY <2>1, SameCache
  <2> QED
    BY <2>1, <2>2 DEF Opens, Opened, Answers
<1>3. ASSUME NEW f \in Fields, NEW value \in Edits, Edit(f, value)
      PROVE  KeepsAll
  <2>1. phase = "idle" /\ phase' = phase /\ UNCHANGED <<search, ledger>>
    BY <1>3 DEF Edit, Call
  <2>2. Known' = Known
    BY <2>1, SameCache
  <2> QED
    BY <2>1, <2>2 DEF KeepsAll, Opened, Answers, search
<1>4. ASSUME NEW values, BeginExperiment(values) \/ Refuse(values)
      PROVE  KeepsAll
  <2>1. phase = "idle" /\ phase' \in {"idle", "building"} /\ UNCHANGED <<search, ledger>>
    BY <1>4 DEF BeginExperiment, Refuse, Call
  <2>2. Known' = Known
    BY <2>1, SameCache
  <2> QED
    BY <2>1, <2>2 DEF KeepsAll, Opened, Answers, search
<1> QED
  BY <1>1, <1>2, <1>3, <1>4 DEF User

(* A generation buys, within the budget, also when it ends the run.         *)
LEMMA ShownKeepsBooks ==
  ASSUME IInv, NEW cs \in Batch, NEW es \in [NewCandidates(cs) -> Evaluation], Shows(cs, es),
         phase = "search", ~(generation >= 0 /\ Exhausted)
  PROVE  Buys \/ Closes
<1>1. cs \in Batch
  OBVIOUS
<1>2. phase = "search" /\ ~(generation >= 0 /\ Exhausted)
  OBVIOUS
<1>3. /\ Simulate(cs, es, run.policy)
      /\ IF Raises(cs, es, run.policy) \/ (generation < 0 /\ Hopeless(cs))
         THEN RunOver
         ELSE /\ generation' = Counted(cs)
              /\ simulated'  = simulated + Cardinality(NewCandidates(cs))
              /\ history'    = history + Cardinality(Uncached(cs))
              /\ proposed'   = Extended(proposed, cs)
              /\ phase' = IF generation >= 0 THEN "callback" ELSE "search"
              /\ UNCHANGED <<run, stopped, answer>>
  BY DEF Shows
<1>4. Members(cs) \subseteq Candidates
  BY <1>1 DEF Members, Batch
<1>5. /\ Fails(es, run.policy) => Known' = Known
      /\ ~Fails(es, run.policy) => Known' = Known \cup NewCandidates(cs)
  BY <1>3, <1>4, Simulated DEF IInv
<1>6. Cardinality(NewCandidates(cs)) \in 0 .. Population
  BY <1>1, UncachedCount
<1>7. NewCandidates(cs) \cap Known = {}
  BY DEF NewCandidates, Known
<1>8. ~Fails(es, run.policy) => Known' \ Known = NewCandidates(cs)
  BY <1>5, <1>7
<1>9. Known \subseteq Known' /\ Cardinality(Known' \ Known) \in 0 .. Population
  <2>1. CASE Fails(es, run.policy)
    <3>1. Known' \ Known = {}
      BY <1>5, <2>1
    <3>2. Cardinality(Known' \ Known) = 0
      BY <3>1, FS_EmptySet
    <3> QED
      BY <1>5, <2>1, <3>2, PopulationAssumption
  <2>2. CASE ~Fails(es, run.policy)
    BY <1>5, <1>6, <1>8, <2>2
  <2> QED
    BY <2>1, <2>2
<1>10. run.budget # NoBudget => simulated + Cardinality(Known' \ Known) <= run.budget
  BY <1>2, <1>9, WithinBudget DEF IInv
<1>11. Opened
  BY <1>2 DEF Opened
<1>12. CASE Raises(cs, es, run.policy) \/ (generation < 0 /\ Hopeless(cs))
  BY <1>3, <1>9, <1>10, <1>11, <1>12, OverCloses
<1>13. CASE ~(Raises(cs, es, run.policy) \/ (generation < 0 /\ Hopeless(cs)))
  <2>1. /\ simulated' = simulated + Cardinality(NewCandidates(cs))
        /\ phase' = IF generation >= 0 THEN "callback" ELSE "search"
        /\ UNCHANGED run
    BY <1>3, <1>13
  <2>2. ~Fails(es, run.policy)
    BY <1>1, <1>3, <1>13, NotRaised DEF IInv
  <2>3. simulated' = simulated + Cardinality(Known' \ Known)
    BY <1>8, <2>1, <2>2
  <2>4. Opened' /\ Answers = {} /\ Answers' = {}
    BY <1>2, <2>1 DEF Opened, Answers
  <2> QED
    BY <1>9, <1>10, <1>11, <2>1, <2>3, <2>4 DEF Buys
<1> QED
  BY <1>12, <1>13

(* So does one whose batch is lost.                                         *)
LEMMA GenerationKeepsBooks ==
  ASSUME IInv, NEW vectors \in Batches, Generation(vectors)
  PROVE  Buys \/ Closes
<1> DEFINE cs == [i \in DOMAIN vectors |-> Decoded[vectors[i]]]
<1>1. cs \in Batch
  BY DecodedBatch
<1>2. phase = "search" /\ ~(generation >= 0 /\ Exhausted)
  BY DEF Generation
<1>3. \/ \E es \in [NewCandidates(cs) -> Evaluation] : Shows(cs, es)
      \/ Lose(cs) /\ RunOver
  BY DEF Generation, Shows
<1> HIDE DEF cs
<1>4. ASSUME Lose(cs), RunOver
      PROVE  Closes
  <2>1. cache' = cache /\ Known' = Known
    BY <1>4, BatchLost DEF IInv
  <2>2. Cardinality(Known' \ Known) = 0
    <3>1. Known' \ Known = {}
      BY <2>1
    <3> QED
      BY <3>1, FS_EmptySet
  <2>3. run.budget # NoBudget => simulated + Cardinality(Known' \ Known) <= run.budget
    BY <1>2, <2>2, WithinBudget, PopulationAssumption DEF IInv
  <2> QED
    BY <1>2, <1>4, <2>1, <2>3, OverCloses DEF Opened
<1> QED
  BY <1>1, <1>2, <1>3, <1>4, ShownKeepsBooks

(* The rest of a run simulates nothing on the search seeds.                 *)
LEMMA EndKeepsBooks ==
  ASSUME IInv, \/ SearchStopped \/ Callback \/ ProgressRaises \/ MaxIterReached
               \/ Selection \/ Estimation \/ ObjectiveRaises \/ Return \/ EndExperiment
  PROVE  Publication \/ Closes \/ KeepsAll
<1>1. UNCHANGED ledger
  BY DEF SearchStopped, Callback, ProgressRaises, MaxIterReached, Selection, Estimation,
         ObjectiveRaises, Return, EndExperiment
<1>2. /\ Known' = Known /\ simulated + Cardinality(Known' \ Known) = simulated
      /\ run.budget # NoBudget => simulated + Cardinality(Known' \ Known) <= run.budget
  BY <1>1, SameCache
<1>3. CASE SearchStopped \/ Callback \/ MaxIterReached
  <2>1. /\ phase \in {"search", "callback"} /\ phase' \in {"search", "selection"}
        /\ UNCHANGED <<run, simulated>>
    BY <1>3 DEF SearchStopped, Callback, MaxIterReached
  <2> QED
    BY <1>2, <2>1 DEF KeepsAll, Opened, Answers
<1>4. CASE Selection
  <2>1. /\ phase = "selection"
        /\ RunOver \/ (phase' = "estimation" /\ UNCHANGED search)
    BY <1>4 DEF Selection
  <2>2. CASE RunOver
    BY <1>2, <2>1, <2>2, OverCloses DEF Opened
  <2>3. CASE phase' = "estimation" /\ UNCHANGED search
    BY <1>2, <2>1, <2>3 DEF KeepsAll, Opened, Answers, search
  <2> QED
    BY <2>1, <2>2, <2>3
<1>5. CASE Estimation
  <2>1. /\ phase = "estimation"
        /\ RunOver \/ (phase' = "published" /\ UNCHANGED <<search, selection, chosen>>)
    BY <1>5 DEF Estimation
  <2>2. CASE RunOver
    BY <1>2, <2>1, <2>2, OverCloses DEF Opened
  <2>3. CASE phase' = "published" /\ UNCHANGED <<search, selection, chosen>>
    <3>1. chosen \in Ranked /\ Types /\ Sound
      BY <2>1 DEF IInv, Finals, Answering
    <3>2. Answer \in Candidates /\ cache[Answer] # NoResult
      BY <3>1, Places DEF Answer, Sound
    <3>3. Answer \in Known
      BY <3>2 DEF Known
    <3>4. Answers' = {Answer}
      BY <2>3 DEF Answers, Answer, search
    <3> QED
      BY <1>2, <2>1, <2>3, <3>3, <3>4 DEF Publication, Opened, search
  <2> QED
    BY <2>1, <2>2, <2>3
<1>6. CASE Return
  <2>1. phase = "published" /\ RunOver
    BY <1>6 DEF Return
  <2> QED
    BY <1>2, <2>1, OverCloses DEF Opened
<1>7. CASE EndExperiment
  <2>1. phase = "building" /\ phase' = "idle" /\ UNCHANGED search
    BY <1>7 DEF EndExperiment
  <2> QED
    BY <1>2, <2>1 DEF KeepsAll, Opened, Answers, search
<1>8. CASE ProgressRaises \/ ObjectiveRaises
  <2>1. phase \in {"callback", "selection", "estimation"} /\ RunOver
    BY <1>8 DEF ProgressRaises, ObjectiveRaises
  <2> QED
    BY <1>2, <2>1, OverCloses DEF Opened
<1> QED
  BY <1>3, <1>4, <1>5, <1>6, <1>7, <1>8

(* A study implements the ledger: "evaluations" bounds what a run simulates,*)
(* what was bought stays known, and what is published is                    *)
(* (Optimization.run, _evaluate).                                           *)
THEOREM Bookkeeping == Spec => KeepsBooks
<1>1. Init => Books!LInit
  <2> SUFFICES ASSUME Init PROVE Books!LInit
    OBVIOUS
  <2>1. phase = "idle" /\ cache = [c \in Candidates |-> NoResult] /\ simulated = 0 /\ run = NoRun
    BY DEF Init
  <2>2. Known = {}
    BY <2>1 DEF Known
  <2> QED
    BY <2>1, <2>2 DEF Books!LInit, NoRun
<1>2. IInv /\ [Next]_vars => [Books!LNext]_(Books!lvars)
  <2> SUFFICES ASSUME IInv, [Next]_vars PROVE [Books!LNext]_(Books!lvars)
    OBVIOUS
  <2>1. CASE UNCHANGED vars
    <3>1. UNCHANGED <<phase, search, answer, ledger>>
      BY <2>1 DEF vars
    <3>2. Known' = Known
      BY <3>1 DEF Known, ledger
    <3>3. KeepsAll
      BY <3>1, <3>2 DEF KeepsAll, Opened, Answers, Answer, search, answer
    <3> QED
      BY <3>3, StepsOfBooks
  <2>2. CASE User
    BY <2>2, UserKeepsBooks, StepsOfBooks
  <2>3. ASSUME NEW vectors \in Batches, Generation(vectors)
        PROVE  [Books!LNext]_(Books!lvars)
    BY <2>3, GenerationKeepsBooks, StepsOfBooks
  <2>4. CASE \/ SearchStopped \/ Callback \/ ProgressRaises \/ MaxIterReached
             \/ Selection \/ Estimation \/ ObjectiveRaises \/ Return \/ EndExperiment
    BY <2>4, EndKeepsBooks, StepsOfBooks
  <2> QED
    BY <2>1, <2>2, <2>3, <2>4 DEF Next, Progress
<1> QED
  BY <1>1, <1>2, Invariant, PTL DEF Spec, KeepsBooks, Books!LSpec
=============================================================================
