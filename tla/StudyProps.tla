----------------------------- MODULE StudyProps -----------------------------
(***************************************************************************)
(* What an optimization study promises.                                    *)
(***************************************************************************)
EXTENDS Study

(* What the fields of a model may hold, those that are assigned.            *)
FieldValues(f) == Edits \cup {Decided} \cup {Bound(c, f) : c \in Candidates}
IsConfiguration(fields) ==
  DOMAIN fields \subseteq Fields /\ \A f \in DOMAIN fields : fields[f] \in FieldValues(f)

(* Every variable has its type.                                             *)
TypeOK ==
  /\ phase \in {"idle", "search", "callback", "selection", "estimation", "published",
                "building"}
  /\ calls \in [all : 0 .. MaxCalls, runs : 0 .. MaxRuns] /\ raised \in Nat
  /\ cache \in [Candidates -> Evaluation \cup {NoResult}]
  /\ paid \in [Candidates -> Nat]
  /\ run \in [budget : Budgets \cup {NoBudget}, policy : Policies \cup {"reject"},
              finalists : Nat]
  /\ generation \in -1 .. MaxIter /\ simulated \in Nat
  /\ stopped \in {"no", "budget", "progress", "converged", "maxiter"}
  /\ proposed \in Seq(Candidates) /\ history \in Nat
  /\ chosen \in 0 .. Len(proposed)
  /\ estimate \in Evaluation \cup {NoResult}
  /\ IsConfiguration(live)

(* Every variable has its type.  Search samples are reused ("reusing search *)
(* samples", study.py:183): a candidate is simulated on the search seeds    *)
(* once, whatever calls and runs propose it, except for batches that        *)
(* on_failure="raise" or an error of the objective threw away; and the      *)
(* history of a run says "not cached" once for each, so that its rows add up*)
(* to what meta reports.                                                    *)
PaidOnce ==
  /\ TypeOK
  /\ \A c \in Candidates : paid[c] <= raised + 1
  /\ history = simulated

(* When the search is over there is something to select.  The answer is the *)
(* best of the finalists on the selection seeds, no other candidate of the  *)
(* run did better in the search than a finalist, and under "reject" no trial*)
(* of it failed in any phase.                                               *)
AnswerHolds ==
  /\ phase \in {"callback", "selection"} => Eligible # {}
  /\ phase = "published" =>
       /\ chosen \in DOMAIN selection
       /\ \A i \in DOMAIN selection :
            /\ Energy(selection[chosen], run.policy) <= Energy(selection[i], run.policy)
            /\ \A j \in DOMAIN proposed \ DOMAIN selection : SearchEnergy(i) <= SearchEnergy(j)
       /\ Cardinality(DOMAIN selection) <= run.finalists
       /\ run.policy # "ignore" =>
            cache[Answer].failed = 0 /\ selection[chosen].failed = 0 /\ estimate.failed = 0

(* A candidate that was simulated lies in its domain, and named again by its*)
(* original decisions ("a mapping from each original (unmapped) decision",  *)
(* optimize.rst:54) it is accepted, and the same candidate, so that the     *)
(* cache is hit, also where a coordinate goes through an inexact logarithm. *)
(* The mapping of an Evaluation or of the Optimum names it where no field   *)
(* holds a mapped decision; otherwise evaluate and experiment refuse it.    *)
Original(values) == [d \in Roots |-> values[d]]
ExplicitMeansSame ==
  \A c \in Candidates : cache[c] # NoResult =>
    /\ Valid(Original(Values(c))) /\ Candidate(Original(Values(c))) = c
    /\ Valid(Values(c)) <=> Mapped = {}

(* An Experiment at some values has the study's own configuration, whatever *)
(* was edited or applied since.                                             *)
ExperimentFaithful ==
  /\ built.fields # <<>> => built.fields = Bindings(built.of)
  /\ phase = "building" => live = Bindings(built.of)

(* "without editing the model" (study.py:80): except while an Experiment is *)
(* built, the model is what the user made of it, by the configuration and by*)
(* all that was assigned or applied since, over any calls of experiment, of *)
(* which some fail; a field with its class's default is not assigned by it. *)
ModelRestored == phase # "building" => live = mine

(* Every call comes to its end: a run also when its generations repeat what *)
(* is cached, so that no budget is spent any more.                          *)
CallsEnd == (phase # "idle") ~> (phase = "idle")

(* "evaluations" bounds what a run simulates (study.py:213), also when its  *)
(* generations repeat candidates or an earlier call has paid for them; what *)
(* was bought stays known, and a run publishes only what is.  This is a     *)
(* specification of its own, which the study implements.                    *)
Books == INSTANCE Ledger WITH
  known <- Known, spent <- simulated, limit <- run.budget, Limits <- Budgets,
  open <- phase \notin {"idle", "building"},
  answers <- IF phase = "published" THEN {Answer} ELSE {}
KeepsBooks == Books!LSpec
=============================================================================
