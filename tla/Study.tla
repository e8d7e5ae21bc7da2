-------------------------------- MODULE Study --------------------------------
(***************************************************************************)
(* An optimization study (src/cimba/optimize): a search by generations over*)
(* batches of simulated trials, which pays for each candidate once, a      *)
(* selection among finalists on fresh seeds, and an estimate on others.    *)
(* SciPy's differential evolution proposes; it may propose anything.       *)
(***************************************************************************)
EXTENDS Space, FiniteSets

CONSTANTS
  Proposals,     (* coordinate vectors that the optimizer may propose       *)
  Population,    (* vectors per generation                                  *)
  MaxIter,       (* generations after the first                             *)
  Reps,          (* trials of a batch and candidate                         *)
  Evaluation,    (* what a batch may show of a candidate: the mean of the   *)
                 (* objective over the trials that did not fail, and how    *)
                 (* many of Reps failed                                     *)
  Direction,     (* 1 to minimize, -1 to maximize                           *)
  Infinite,      (* energy of what is rejected                              *)
  Budgets,       (* budgets of runs; NoBudget for none                      *)
  NoBudget,
  Policies,      (* some of "reject", "ignore" and "raise"                  *)
  FinalistCounts,
  Decided,       (* stands for a field that holds a decision, not a value   *)
  Assigned,      (* the fields assigned before the study; others have their *)
                 (* class's default, and no entry in the model's dictionary *)
  Edits,         (* values that the user assigns to fields of the live model*)
  MaxCalls,      (* bounds: calls of the study by the user,                 *)
  MaxRuns        (* and of run among them                                   *)

Decoded == [v \in Proposals |-> DecodeAll(v)]
Candidates == {Decoded[v] : v \in Proposals}
NoResult   == [mean |-> 0, failed |-> -1]

ASSUME PopulationAssumption ==
  Proposals # {} /\ Population \in Nat \ {0} /\ MaxIter \in Nat /\ Reps \in Nat \ {0}
ASSUME EnergyAssumption     ==
  /\ Evaluation \subseteq [mean : Int, failed : 0 .. Reps] /\ Evaluation # {}
  /\ Direction \in {1, -1} /\ Infinite \in Int
  /\ \A e \in Evaluation : Direction * e.mean < Infinite
ASSUME BudgetAssumption     == NoBudget \notin Nat /\ Budgets \subseteq Nat \cup {NoBudget}
ASSUME AssignedAssumption   ==
  Assigned \subseteq Fields /\ \A f \in Fields : DecisionOf[f] # 0 => f \in Assigned
ASSUME OptionAssumption     == /\ Policies \subseteq {"reject", "ignore", "raise"}
                               /\ FinalistCounts \subseteq Nat \ {0} /\ MaxCalls \in Nat /\ MaxRuns \in Nat

VARIABLES
  phase,         (* "idle", "search", "callback", "selection", "estimation",*)
                 (* "published", or "building" an Experiment                *)
  calls,
  cache,         (* what the search seeds showed of each candidate          *)
  paid,          (* how often each was simulated for that                   *)
  raised,        (* batches lost: on_failure is "raise", or the objective   *)
                 (* raised                                                  *)
  run,           (* the options of this run                                 *)
  generation, simulated, stopped,
  proposed,      (* candidates in the order in which they came up           *)
  history,       (* how many rows of the history are not marked as cached   *)
  selection, estimate, chosen,
  live,          (* the dictionary of the user's model: of the fields that  *)
                 (* are assigned                                            *)
  mine,          (* what the user made of it: the configuration, and what   *)
                 (* was assigned or applied since                           *)
  saved,         (* its copy while an Experiment is built                   *)
  built          (* the candidate and the fields of the last Experiment     *)

ledger == <<cache, paid, raised>>
search == <<run, generation, simulated, stopped, proposed, history>>
answer == <<selection, estimate, chosen>>
model  == <<live, mine, saved, built>>
vars   == <<phase, calls, ledger, search, answer, model>>

-----------------------------------------------------------------------------
Known    == {c \in Candidates : cache[c] # NoResult}
Members(seq) == {seq[i] : i \in DOMAIN seq}

(* Evaluation.energy                                                        *)
Rejected(e, policy) == e.failed = Reps \/ (policy = "reject" /\ e.failed > 0)
Energy(e, policy)   == IF Rejected(e, policy) THEN Infinite ELSE Direction * e.mean

(* _evaluate: the candidates to simulate, each once.                        *)
NewCandidates_Again(cs) == Members(cs)
NewCandidates(cs) == {c \in Members(cs) : cache[c] = NoResult}

(* A history row is cached if its candidate was simulated before the row.   *)
Uncached(cs) ==
  {i \in DOMAIN cs : cs[i] \in NewCandidates(cs) /\ \A j \in 1 .. i - 1 : cs[j] # cs[i]}

(* A dict keeps its keys in the order in which they first came.             *)
Fresh(seq, cs) ==
  {i \in DOMAIN cs : cs[i] \notin Members(seq) /\ \A j \in 1 .. i - 1 : cs[j] # cs[i]}
Nth(S, k) == CHOOSE i \in S : Cardinality({j \in S : j < i}) = k - 1
Extended(seq, cs) ==
  seq \o [k \in 1 .. Cardinality(Fresh(seq, cs)) |-> cs[Nth(Fresh(seq, cs), k)]]

Fails(es, policy) == policy = "raise" /\ \E c \in DOMAIN es : es[c].failed > 0

(* _evaluate: results es of the new candidates are cached, and paid for.    *)
(* Under "raise" a failure loses the whole batch, and also a failure that   *)
(* an earlier call has cached is raised.                                    *)
Pay(cs) == paid' = [c \in Candidates |-> paid[c] + (IF c \in NewCandidates(cs) THEN 1 ELSE 0)]
Simulate(cs, es, policy) ==
  LET new == NewCandidates(cs)
  IN  /\ Pay(cs)
      /\ IF Fails(es, policy)
         THEN raised' = raised + 1 /\ UNCHANGED cache
         ELSE /\ cache' = [c \in Candidates |-> IF c \in new THEN es[c] ELSE cache[c]]
              /\ UNCHANGED raised
Raises(cs, es, policy) ==
  Fails([c \in Members(cs) |-> IF c \in NewCandidates(cs) THEN es[c] ELSE cache[c]], policy)

(* So does an error of the objective, when there is a batch to call it on.  *)
Lose(cs) == NewCandidates(cs) # {} /\ Pay(cs) /\ raised' = raised + 1 /\ UNCHANGED cache

Remaining == run.budget - simulated
Exhausted_Zero == run.budget # NoBudget /\ Remaining <= 0
Exhausted == run.budget # NoBudget /\ Remaining < Population

(* What is kept of a search, and the order of its candidates.               *)
SearchEnergy(i) == Energy(cache[proposed[i]], run.policy)
Eligible  == {i \in DOMAIN proposed : SearchEnergy(i) < Infinite}
Before(i, j) == SearchEnergy(i) < SearchEnergy(j)
                \/ (SearchEnergy(i) = SearchEnergy(j) /\ i < j)
Ranked == {i \in Eligible : Cardinality({j \in Eligible : Before(j, i)}) < run.finalists}

MoreGenerations == generation < MaxIter

(* Generations count whether or not they simulated anything.                *)
Counted_Paid(cs) == IF NewCandidates(cs) = {} THEN generation ELSE generation + 1
Counted(cs) == generation + 1

(* A run that is over, with an answer or an exception, keeps nothing.       *)
NoRun == [budget |-> NoBudget, policy |-> "reject", finalists |-> 1]
RunOver ==
  /\ phase' = "idle" /\ run' = NoRun
  /\ generation' = -1 /\ simulated' = 0 /\ stopped' = "no"
  /\ proposed' = <<>> /\ history' = 0
  /\ selection' = <<>> /\ estimate' = NoResult /\ chosen' = 0

-----------------------------------------------------------------------------
(* The search *)

Call    == phase = "idle" /\ calls.all < MaxCalls /\ calls' = [calls EXCEPT !.all = @ + 1]
CallRun == /\ phase = "idle" /\ calls.all < MaxCalls /\ calls.runs < MaxRuns
           /\ calls' = [all |-> calls.all + 1, runs |-> calls.runs + 1]

(* Optimization.evaluate of explicit values, all of them or none.           *)
Evaluate(values, policy) ==
  /\ Call
  /\ \A i \in DOMAIN values : Valid(values[i])
  /\ LET cs == [i \in DOMAIN values |-> Candidate(values[i])]
     IN  /\ Members(cs) \subseteq Candidates
         /\ \/ \E es \in [NewCandidates(cs) -> Evaluation] : Simulate(cs, es, policy)
            \/ Lose(cs)
  /\ UNCHANGED <<phase, search, answer, model>>

(* evaluate and experiment refuse what is no candidate, as the values of an *)
(* Optimum are when some of them are of mapped decisions.                   *)
Refuse(values) ==
  /\ Call /\ ~Valid(values)
  /\ UNCHANGED <<phase, ledger, search, answer, model>>

(* Optimization.run refuses a budget that does not cover a population.      *)
StartRun(budget, policy, finalists) ==
  /\ CallRun
  /\ budget = NoBudget \/ budget >= Population
  /\ phase' = "search"
  /\ run' = [budget |-> budget, policy |-> policy, finalists |-> finalists]
  /\ UNCHANGED <<generation, simulated, stopped, proposed, history, ledger, answer, model>>

(* An initial population that is rejected as a whole ends the run.          *)
Hopeless(cs) == \A i \in DOMAIN cs : Rejected(cache'[cs[i]], run.policy)

(* What differential evolution proposes as one generation: anything.        *)
Batches == [1 .. Population -> Proposals]

(* evaluate(vectors), called by the optimizer: a generation, or the stop of *)
(* the search before one that the budget does not cover.                    *)
Generation(vectors) ==
  /\ phase = "search" /\ MoreGenerations
  /\ ~(generation >= 0 /\ Exhausted)
  /\ LET cs == [i \in DOMAIN vectors |-> Decoded[vectors[i]]]
     IN  \/ \E es \in [NewCandidates(cs) -> Evaluation] :
              /\ Simulate(cs, es, run.policy)
              /\ IF Raises(cs, es, run.policy) \/ (generation < 0 /\ Hopeless(cs))
                 THEN RunOver
                 ELSE /\ generation' = Counted(cs)
                      /\ simulated'  = simulated + Cardinality(NewCandidates(cs))
                      /\ history'    = history + Cardinality(Uncached(cs))
                      /\ proposed'   = Extended(proposed, cs)
                      /\ phase' = IF generation >= 0 THEN "callback" ELSE "search"
                      /\ UNCHANGED <<run, stopped, answer>>
         \/ Lose(cs) /\ RunOver
  /\ UNCHANGED <<calls, model>>
SearchStopped ==
  /\ phase = "search" /\ generation >= 0 /\ MoreGenerations /\ Exhausted
  /\ stopped' = "budget" /\ phase' = "selection"
  /\ UNCHANGED <<calls, ledger, run, generation, simulated, proposed, history, answer,
                 model>>

(* The callback after a generation: the user's progress function may stop   *)
(* the search, or raise, and so does the budget stop it; else SciPy may find*)
(* it converged.                                                            *)
Callback ==
  /\ phase = "callback"
  /\ \/ stopped' = "progress" /\ phase' = "selection"
     \/ Exhausted /\ stopped' = "budget" /\ phase' = "selection"
     \/ ~Exhausted /\ phase' = "search" /\ UNCHANGED stopped
     \/ ~Exhausted /\ phase' = "selection" /\ stopped' = "converged"
  /\ UNCHANGED <<calls, ledger, run, generation, simulated, proposed, history, answer,
                 model>>
ProgressRaises ==
  /\ phase = "callback" /\ RunOver
  /\ UNCHANGED <<calls, ledger, model>>
MaxIterReached ==
  /\ phase = "search" /\ generation >= 0 /\ ~MoreGenerations
  /\ phase' = "selection" /\ stopped' = "maxiter"
  /\ UNCHANGED <<calls, ledger, run, generation, simulated, proposed, history, answer,
                 model>>

(* The finalists, on seeds of their own; the best is chosen.                *)
SelectionEnergy(i) == Energy(selection'[i], run.policy)
IsChosen_Last(i, S) == \A j \in S : SelectionEnergy(i) < Infinite
IsChosen(i, S) == /\ SelectionEnergy(i) < Infinite
                  /\ \A j \in S : \/ SelectionEnergy(i) < SelectionEnergy(j)
                                  \/ SelectionEnergy(i) = SelectionEnergy(j)
                                       /\ (i = j \/ Before(i, j))
Selection ==
  /\ phase = "selection"
  /\ \E es \in [Ranked -> Evaluation] :
       IF Fails(es, run.policy) \/ \A i \in Ranked : Rejected(es[i], run.policy)
       THEN RunOver
       ELSE /\ selection' = es /\ phase' = "estimation"
            /\ \E i \in Ranked : IsChosen(i, Ranked) /\ chosen' = i
            /\ UNCHANGED <<search, estimate>>
  /\ UNCHANGED <<calls, ledger, model>>

(* The chosen one, on seeds of its own; a failed estimate is no answer.     *)
Publishes(e) == ~Rejected(e, run.policy) /\ (run.policy = "raise" => e.failed = 0)
Estimation ==
  /\ phase = "estimation"
  /\ \E e \in Evaluation :
       IF Publishes(e)
       THEN /\ estimate' = e /\ phase' = "published"
            /\ UNCHANGED <<search, selection, chosen>>
       ELSE RunOver
  /\ UNCHANGED <<calls, ledger, model>>

(* The objective of the finalists, or of the chosen one, raises.            *)
ObjectiveRaises ==
  /\ phase \in {"selection", "estimation"} /\ RunOver
  /\ UNCHANGED <<calls, ledger, model>>

-----------------------------------------------------------------------------
(* The user's model *)

Answer == proposed[chosen]

(* The Optimum is returned, and maybe applied: each field with a decision is*)
(* given the value of that decision.                                        *)
Decides == {f \in Fields : DecisionOf[f] # 0}
Applied(fields) ==
  [f \in DOMAIN fields \cup Decides |-> IF f \in Decides THEN Bound(Answer, f) ELSE fields[f]]
Return ==
  /\ phase = "published" /\ RunOver
  /\ \/ UNCHANGED <<live, mine>>
     \/ live' = Applied(live) /\ mine' = Applied(mine)
  /\ UNCHANGED <<calls, ledger, saved, built>>

Edited(fields, g, value) ==
  [f \in DOMAIN fields \cup {g} |-> IF f = g THEN value ELSE fields[f]]
Edit(f, value) ==
  /\ Call
  /\ live' = Edited(live, f, value) /\ mine' = Edited(mine, f, value)
  /\ UNCHANGED <<phase, ledger, search, answer, saved, built>>

(* Optimization.experiment: the live model is given the study's own fields  *)
(* at these values, an Experiment is built of it, or fails to be, and the   *)
(* model's dictionary is emptied and filled again from its copy.            *)
Written_Decisions(c) ==
  [f \in Fields |-> IF f \in DOMAIN live \ Decides THEN live[f] ELSE Bound(c, f)]
Written(c) == Bindings(c)
Restored_Updated ==
  [f \in DOMAIN live \cup DOMAIN saved |-> IF f \in DOMAIN saved THEN saved[f] ELSE live[f]]
Restored == saved
BeginExperiment(values) ==
  /\ Call
  /\ Valid(values) /\ Candidate(values) \in Candidates
  /\ phase' = "building" /\ saved' = live
  /\ live'  = Written(Candidate(values))
  /\ built' = [of |-> Candidate(values), fields |-> <<>>]
  /\ UNCHANGED <<mine, ledger, search, answer>>
EndExperiment ==
  /\ phase = "building" /\ phase' = "idle"
  /\ built' \in {[built EXCEPT !.fields = live], built}       (* it may raise *)
  /\ live' = Restored
  /\ UNCHANGED <<calls, ledger, search, answer, mine, saved>>

-----------------------------------------------------------------------------
(* The model as the study found it *)
Configured == [f \in Assigned |-> IF f \in Decides THEN Decided ELSE Fixed[f]]

Init ==
  /\ phase = "idle" /\ calls = [all |-> 0, runs |-> 0]
  /\ cache = [c \in Candidates |-> NoResult] /\ paid = [c \in Candidates |-> 0]
  /\ raised = 0
  /\ run = NoRun /\ generation = -1 /\ simulated = 0 /\ stopped = "no"
  /\ proposed = <<>> /\ history = 0
  /\ selection = <<>> /\ estimate = NoResult /\ chosen = 0
  /\ live = Configured /\ mine = Configured /\ saved = Configured
  /\ built = [of |-> <<>>, fields |-> <<>>]

(* Values of candidates are given by hand, or taken from an answer.         *)
Explicit == Candidates \cup {Values(c) : c \in Candidates}
User ==
  \/ \E values \in [1 .. 1 -> Explicit], policy \in Policies : Evaluate(values, policy)
  \/ \E budget \in Budgets, policy \in Policies, finalists \in FinalistCounts :
       StartRun(budget, policy, finalists)
  \/ \E f \in Fields, value \in Edits : Edit(f, value)
  \/ \E values \in Explicit : BeginExperiment(values) \/ Refuse(values)

Progress ==
  \/ \E vectors \in Batches : Generation(vectors)
  \/ SearchStopped \/ Callback \/ ProgressRaises \/ MaxIterReached
  \/ Selection \/ Estimation \/ ObjectiveRaises \/ Return
  \/ EndExperiment

Next == User \/ Progress

(* The host runs a call to its end.                                         *)
Spec == Init /\ [][Next]_vars /\ WF_vars(Progress)
=============================================================================
