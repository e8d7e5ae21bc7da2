----------------------------- MODULE MCResource -----------------------------
(* Instances of Resource for TLC: the requests, capacities and priorities   *)
(* that the configurations choose from.                                     *)
EXTENDS ResourceProps, TLC

Three == {1, 2, 3}

(* Capacities *)
AllOne == [r \in Resources |-> 1]
AllTwo == [r \in Resources |-> 2]

(* Process priorities *)
Equal   == [p \in Procs |-> 0]
Rising  == [p \in Procs |-> p]

(* Requests: an acquire or preempt of n units, at the process priority or   *)
(* at a rank of its own.                                                    *)
Plain(preempt, n)     == [preempt |-> preempt, fixed |-> FALSE, rank |-> 0, amount |-> n]
Ranked(preempt, n, k) == [preempt |-> preempt, fixed |-> TRUE, rank |-> k, amount |-> n]

(* Which process asks for what: amounts and preemption, amounts without it, *)
(* single units, and ranked single units.                                   *)
Mixed       == (1 :> {Plain(FALSE, 1)}) @@ (2 :> {Plain(FALSE, 2)})
               @@ (3 :> {Plain(TRUE, 2)})
AmountCalls == (1 :> {Plain(FALSE, 1)}) @@ (2 :> {Plain(FALSE, 2)})
               @@ (3 :> {Plain(FALSE, 1)})
UnitCalls   == (1 :> {Plain(FALSE, 1)}) @@ (2 :> {Plain(FALSE, 1)})
               @@ (3 :> {Plain(TRUE, 1)})
RankedCalls == (1 :> {Plain(FALSE, 1)}) @@ (2 :> {Ranked(FALSE, 1, 1), Plain(FALSE, 1)})
               @@ (3 :> {Ranked(TRUE, 1, 2)})

Intr        == {CMB_PROCESS_INTERRUPTED}
Late        == {CMB_PROCESS_TIMEOUT}
Bare        == {CMB_PROCESS_SUCCESS}
=============================================================================
