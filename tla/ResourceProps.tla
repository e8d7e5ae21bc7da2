--------------------------- MODULE ResourceProps ----------------------------
(***************************************************************************)
(* What cb.Resource promises: the invariants and action properties of      *)
(* module Resource.                                                        *)
(***************************************************************************)
EXTENDS Resource

(* Every variable has its type; nothing in use, held or queued is negative. *)
TypeOK ==
  /\ current \in Procs \cup {NoProc, Hook}
  /\ now \in Nat /\ request_seq \in Nat
  /\ prio \in [Procs -> Int]
  /\ pc \in [Procs -> {"ready", "hold", "claim", "evict", "wait", "woken", "settle",
                       "done"}]
  /\ sig \in [Procs -> Int]
  /\ call \in [Procs -> Call]
  /\ awaits \in [Procs -> SUBSET Resources]
  /\ tags \in [Procs -> SUBSET Resources]
  /\ later \subseteq Event /\ due \subseteq Event
  /\ queue \in [Resources -> SUBSET Entry]
  /\ holding \in [Resources -> [Procs -> Holding]]
  /\ in_use \in [Resources -> Nat]
  /\ sampled \in [Resources -> Nat]
  /\ capacity \in [Resources -> Nat]
  /\ max_capacity \in [Resources -> Nat]
  /\ shrinking \in Resources \cup {NoRes}
  /\ dying \in Procs \cup {NoProc}
  /\ trial \in {"running", "failed", "broken"}

(* The units held when each process p holds a[p] of them, each named by its *)
(* holder and a number.                                                     *)
Units(a)   == UNION {{p} \X (1 .. a[p]) : p \in Procs}
Amounts(r) == [p \in Procs |-> holding[r][p].amount]

(* resource.c keeps in_use apart from the holdings and subtracts a holding  *)
(* from it without looking (drop_holder, preempt_front): the two agree,     *)
(* whatever is evicted, dropped, rolled back or resized in between.         *)
Conservation == \A r \in Resources : in_use[r] = Cardinality(Units(Amounts(r)))

(* No step takes units the capacity does not offer: use grows only up to    *)
(* the capacity of the moment, also when a preemption, a grant and a lower  *)
(* capacity meet.                                                           *)
NeverOversold ==
  [][\A r \in Resources : in_use'[r] > in_use[r] => in_use'[r] <= capacity'[r]]_vars

(* "The usage never exceeds the largest capacity the resource has had"      *)
(* (cpy_resourcepool_print_report, which sizes the histogram by it): it does*)
(* when a wakeup with the success signal outruns the interrupt of a         *)
(* preemption, and the call, rolled back by a third, takes back what it had *)
(* when it began, room or no room.                                          *)
WithinLargest == \A r \in Resources : in_use[r] <= max_capacity[r]

(* What a waiting process can still be woken by: its entry in the room, the *)
(* wakeup of its grant, or the interrupt of a preemption.                   *)
IsQueued(p)  == \E e \in queue[call[p].res] : e.proc = p /\ e.key = call[p].key
IsGranted(p) == \E ev \in due : /\ ev.kind = "grant" /\ ev.proc = p
                               /\ ev.res = call[p].res /\ ev.key = call[p].key
IsThrown(p)  == Wakeup("interrupt", p, CMB_PROCESS_PREEMPTED) \in due
MayGrant(p)  == call[p].res \in awaits[p] /\ (IsQueued(p) \/ IsGranted(p))

(* No request is lost: preemption, stale grants, timers and interrupts all  *)
(* take entries out of a room, and a suspended caller is never left without *)
(* an entry, a grant the key check lets through, or an interrupt to come.   *)
NeverForgotten == \A p \in Procs : pc[p] = "wait" => MayGrant(p) \/ IsThrown(p)

(* A waiting room has no entry but those of the calls that wait there now,  *)
(* once each and at the rank of the call, whatever priority_set did.        *)
QueueFaithful ==
  \A r \in Resources : \A e \in queue[r] :
    LET c == call[e.proc]
    IN  /\ c.res = r /\ e.key = c.key /\ r \in awaits[e.proc]
        /\ pc[e.proc] \in {"wait", "woken"}
        /\ e.rank = request_rank(e.proc, c)

(* The engine finds the units of a process that ends by its tags alone: a   *)
(* holder always carries the tag, and one who neither holds nor calls, none.*)
TagsFaithful ==
  \A p \in Procs, r \in Resources :
    /\ holding[r][p].amount > 0 => r \in tags[p]
    /\ r \in tags[p] => holding[r][p].amount > 0 \/ call[p].res = r \/ dying = p

(* What a call has taken and what it still wants add up to what it was asked*)
(* for, across waits, evictions and grants lost to others; only a preemption*)
(* the process has yet to hear of breaks the sum.                           *)
CallsAddUp ==
  \A p \in Procs :
    LET c == call[p]
    IN  \/ c.res = NoRes
        \/ holding[c.res][p].amount + c.rem = c.held0 + c.amount
        \/ IsThrown(p)
        \/ pc[p] \in {"woken", "settle"} /\ sig[p] = CMB_PROCESS_PREEMPTED

(* Every grant wakes the wait it was made for: the wakeup of a request that *)
(* was interrupted, resumed or timed out meanwhile never ends a later wait, *)
(* as long as the episodes of a call tell its waits apart (2^20 of them in  *)
(* the code).  The request it serves is the one now made, out of the room.  *)
GrantsAreCurrent ==
  [][\A ev \in due \ due' : ev.kind = "grant" /\ current' = ev.proc =>
       /\ ev.key = call[ev.proc].key
       /\ ev.key[2] < EPISODE_MAX =>
            \A r \in Resources : \A e \in queue[r] : e.proc # ev.proc]_vars

(* A process that ended, by itself or stopped, leaves nothing behind: no    *)
(* units, no entry in a room, and no event that could reach it.             *)
NothingOutlives ==
  \A p \in Procs : pc[p] = "done" /\ dying # p =>
    /\ \A r \in Resources : /\ holding[r][p].amount = 0
                            /\ \A e \in queue[r] : e.proc # p
    /\ \A ev \in later \cup due : ev.proc # p

(* "Any room goes to the waiting requests, in queue order" (set_capacity):  *)
(* when an instant is over nobody waits at a resource with free units.      *)
InstantOver == current = NoProc /\ due = {} /\ dying = NoProc /\ trial = "running"
NoStranded ==
  InstantOver => \A r \in Resources : Room(r, in_use[r]) > 0 => queue[r] = {}

(* A stop drops units without a sample; every other change is sampled, so   *)
(* between the steps of processes the history never understates the usage.  *)
UsageNeverUnderstated ==
  current = NoProc /\ dying = NoProc => \A r \in Resources : in_use[r] <= sampled[r]

(* Preemption takes units only from "strictly lower" ranks: a holder whose  *)
(* rank tracks its priority loses units to a preempt of that resource only  *)
(* if its priority is below the request's, also after priority_set.  This   *)
(* is so while no call that waits through a priority_set is rolled back: a  *)
(* rollback restores the rank that the call noted (resource.c:517), and so  *)
(* that of before (docs/concepts/entities.rst:196-198).                     *)
OnlyLowerEvicted ==
  [][\A p \in Procs : Inside(p, "evict") =>
       \A v \in Procs \ {p} :
         LET r == call[p].res
             h == holding[r][v]
         IN  h.amount > 0 /\ holding'[r][v].amount = 0
             => (IF h.fixed THEN h.rank ELSE prio[v]) < request_rank(p, call[p])]_vars
=============================================================================
