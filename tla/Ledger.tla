------------------------------- MODULE Ledger -------------------------------
(***************************************************************************)
(* What a study promises about its budget: results are bought once and     *)
(* kept, a run buys within its limit, and publishes only what it knows.    *)
(***************************************************************************)
EXTENDS Integers, FiniteSets

CONSTANTS Limits, NoBudget

VARIABLES known, spent, limit, open, answers

lvars == <<known, spent, limit, open, answers>>

LInit ==
  /\ known = {} /\ spent = 0 /\ limit = NoBudget /\ open = FALSE /\ answers = {}

Open ==
  /\ ~open /\ open' = TRUE /\ limit' \in Limits
  /\ UNCHANGED <<known, spent, answers>>

(* What is bought in the open counts towards the limit.                     *)
Buy ==
  /\ known \subseteq known'
  /\ spent' = IF open THEN spent + Cardinality(known' \ known) ELSE spent
  /\ open /\ limit # NoBudget => spent' <= limit
  /\ UNCHANGED <<limit, open, answers>>

Publish ==
  /\ open /\ \E c \in known : answers' = {c}
  /\ UNCHANGED <<known, spent, limit, open>>

(* A run may end in any way, also as it buys.                               *)
Close ==
  /\ open /\ open' = FALSE
  /\ known \subseteq known'
  /\ limit # NoBudget => spent + Cardinality(known' \ known) <= limit
  /\ answers' = {} /\ spent' = 0 /\ limit' = NoBudget

LNext == Open \/ Buy \/ Publish \/ Close

LSpec == LInit /\ [][LNext]_lvars
=============================================================================
