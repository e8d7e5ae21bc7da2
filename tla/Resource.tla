------------------------------ MODULE Resource ------------------------------
(***************************************************************************)
(* cb.Resource, the pool of identical units of src/cimba/native/resource.c:*)
(* greedy acquire and preempt calls that keep their place in line, release,*)
(* a capacity that changes, and what interrupts, timers, priority_set and  *)
(* stop do to a process that holds units or waits for them.                *)
(*                                                                         *)
(* A trial is one thread: processes are coroutines and only `current' runs.*)
(* A call runs without a break until it suspends, so the steps of one call *)
(* (its claim, each eviction, its wait) follow each other; what interleaves*)
(* are calls, and the events of one instant.  Their order depends on event *)
(* priorities that the model leaves open: any pending event may be next.   *)
(***************************************************************************)
EXTENDS Engine, FiniteSets

CONSTANTS
  Procs,          (* the process handles: numbers, a tie-break of evictions *)
  Resources,
  NoProc,         (* no process runs: the event loop chooses                *)
  Hook,           (* a scheduled function or hook runs, no process          *)
  NoRes,
  InitCapacity,   (* [Resources -> Nat]                                     *)
  Capacities,     (* the arguments of set_capacity                          *)
  Requests,       (* the requests each process makes                        *)
  InitPrio,       (* [Procs -> Int]                                         *)
  Priorities,     (* the arguments of priority_set                          *)
  IntrSignals,    (* the signals interrupts carry                           *)
  TimerSignals,   (* the signals timers carry                               *)
  ResumeSignals,  (* the signals bare resumes carry                         *)
  Controllers,    (* the processes that make control calls; Hook if hooks do*)
  MayStop,        (* the processes others may stop                          *)
  FaultyCalls,    (* whether model code makes calls that fail the trial     *)
  StopPassesOn,   (* whether the engine's stop signals the guard of a wait  *)
  EPISODE_MAX,    (* where the episodes of one request stop counting        *)
  MaxRequests,    (* bound: calls that may get a sequence number            *)
  MaxTime         (* bound: instants after the first                        *)

Request == [preempt : BOOLEAN, fixed : BOOLEAN, rank : Int, amount : Nat \ {0}]

ASSUME ProcsAssumption     == IsFiniteSet(Procs) /\ Procs \subseteq Nat
ASSUME NamesAssumption     == {NoProc, Hook} \cap Procs = {} /\ NoProc # Hook
                              /\ NoRes \notin Resources
ASSUME CapacityAssumption  == InitCapacity \in [Resources -> Nat]
                              /\ Capacities \subseteq Nat
ASSUME RequestsAssumption  == Requests \in [Procs -> SUBSET Request]
ASSUME PriorityAssumption  == InitPrio \in [Procs -> Int] /\ Priorities \subseteq Int
ASSUME SignalsAssumption   == IntrSignals \cup TimerSignals \cup ResumeSignals
                              \subseteq Int
ASSUME ActorsAssumption    == Controllers \subseteq Procs \cup {Hook}
                              /\ MayStop \subseteq Procs
ASSUME SwitchesAssumption  == {FaultyCalls, StopPassesOn} \subseteq BOOLEAN
ASSUME BoundsAssumption    == {EPISODE_MAX, MaxRequests, MaxTime} \subseteq Nat

VARIABLES
  current,        (* the process that runs, Hook, or NoProc                 *)
  now,            (* the instant                                            *)
  prio,           (* process priorities                                     *)
  pc,             (* what each process is doing                             *)
  sig,            (* the signal its wait for units returned                 *)
  call,           (* its acquire or preempt call, with the request's place  *)
  awaits,         (* the guards it awaits, with the key of its call         *)
  later,          (* timers of instants to come                             *)
  due,            (* events of this instant                                 *)
  queue,          (* each guard's waiting room                              *)
  in_use, capacity, max_capacity,
  holding,        (* each process's holding; amount 0 is no holding         *)
  tags,           (* the resources whose holdable tag a process carries     *)
  request_seq,    (* the last sequence number given to a request            *)
  sampled,        (* the usage last written to the history                  *)
  shrinking,      (* the resource whose set_capacity is preempting holders  *)
  dying,          (* the process whose tags the engine is dropping          *)
  trial           (* "running", "failed", or "broken" by undefined behaviour*)

procs  == <<prio, pc, sig, call>>
events == <<now, later, due>>
waits  == <<queue, awaits>>
units  == <<in_use, holding, tags, sampled>>
caps   == <<capacity, max_capacity>>
tasks  == <<shrinking, dying>>
vars   == <<current, procs, events, waits, units, caps, tasks, request_seq, trial>>

-----------------------------------------------------------------------------
(* Data.  A definition whose name ends in _Something is a faulty variant of *)
(* the one that follows it: the bug its properties are shown to catch.      *)

NoHolding == [amount |-> 0, rank |-> 0, fixed |-> FALSE, since |-> 0]
NoCall    == [res |-> NoRes, preempt |-> FALSE, fixed |-> FALSE, rank |-> 0,
              amount |-> 0, rem |-> 0, key |-> NoKey,
              held0 |-> 0, rank0 |-> 0, fixed0 |-> FALSE]

Key     == Nat \X Nat
Holding == [amount : Nat, rank : Int, fixed : BOOLEAN, since : Nat]
Call    == [res : Resources \cup {NoRes}, preempt : BOOLEAN, fixed : BOOLEAN,
            rank : Int, amount : Nat, rem : Nat, key : Key,
            held0 : Nat, rank0 : Int, fixed0 : BOOLEAN]
Entry   == [proc : Procs, key : Key, rank : Int]
Event   == [kind : {"grant", "interrupt", "timer", "hold", "resume"},
            proc : Procs, sig : Int, res : Resources \cup {NoRes}, key : Key]

Wakeup(kind, p, s) ==
  [kind |-> kind, proc |-> p, sig |-> s, res |-> NoRes, key |-> NoKey]
GrantOf(r, e) ==
  [kind |-> "grant", proc |-> e.proc, sig |-> CMB_PROCESS_SUCCESS,
   res |-> r, key |-> e.key]

Suspended(p) == pc[p] \in {"hold", "wait"}

(* A history sample of r, at the usage n it has after the change.           *)
record_sample_Before(r, n) == [sampled EXCEPT ![r] = in_use[r]]
record_sample(r, n) == [sampled EXCEPT ![r] = n]

(* The room left in r when n units are in use: zero at or above capacity.  *)
Room_Unclamped(r, n) == capacity[r] - n
Room_OldLimit(r, n)  == IF n < max_capacity[r] THEN max_capacity[r] - n ELSE 0
Room(r, n) == IF n < capacity[r] THEN capacity[r] - n ELSE 0

(* The rank of a call c of process p.                                      *)
request_rank(p, c) == IF c.fixed THEN c.rank ELSE prio[p]

(* The next preemption victim: lowest rank, then latest grant, then handle.*)
holder_order(r, p, q) ==
  LET h == holding[r][p]
      k == holding[r][q]
  IN  \/ h.rank < k.rank
      \/ h.rank = k.rank /\ h.since > k.since
      \/ h.rank = k.rank /\ h.since = k.since /\ p > q
Holders(r) == {p \in Procs : holding[r][p].amount > 0}
IsFirstVictim(v, r, S) == v \in S /\ \A q \in S \ {v} : holder_order(r, v, q)

(* p's holding of r after it took n more units under call c.               *)
Credited_Replaces(p, r, n, c) ==
  IF n = 0 THEN holding[r][p]
  ELSE [amount |-> n, rank |-> request_rank(p, c), fixed |-> c.fixed, since |-> now]
Credited(p, r, n, c) ==
  LET h == holding[r][p]
  IN  IF n = 0 THEN h
      ELSE IF h.amount > 0 THEN [h EXCEPT !.amount = @ + n]
      ELSE [amount |-> n, rank |-> request_rank(p, c), fixed |-> c.fixed,
            since |-> now]
TagsAfter(p, r, n) == IF n > 0 THEN tags[p] \cup {r} ELSE tags[p]

(* cmi_process_cancel_awaiteds: p's queue entries and timers are gone.     *)
WithoutEntries_Keeps(p) == queue
WithoutEntries(p)   == [r \in Resources |-> {e \in queue[r] : e.proc # p}]
WithoutTimers(p, S) == {e \in S : ~(e.proc = p /\ e.kind \in {"timer", "hold"})}
WithoutEvents(p, S) == {e \in S : e.proc # p}
WithoutHold(p, S)   == {e \in S : ~(e.proc = p /\ e.kind = "hold")}

(* An actor makes calls: the running process between two calls, or a hook. *)
Idle     == shrinking = NoRes /\ dying = NoProc
Acts(a)  == /\ trial = "running" /\ current = a /\ Idle
            /\ a \in Procs => pc[a] = "ready"
Inside(p, step) == /\ trial = "running" /\ current = p /\ Idle /\ pc[p] = step
Dispatch == trial = "running" /\ current = NoProc /\ Idle

(* cmb_resourceguard_signal of r, when n units of cap are in use, the       *)
(* waiting rooms are q and the events of this instant ev.  A granted entry  *)
(* leaves every waiting room it stands in.                                  *)
Signal(r, n, cap, q, ev) ==
  LET granted == Granted(q[r], n, cap)
  IN  /\ queue' = [s \in Resources |->
                     {e \in q[s] : \A g \in granted : e.key # g.key}]
      /\ due'   = ev \cup {GrantOf(r, e) : e \in granted}

-----------------------------------------------------------------------------
(* The calls of processes and hooks *)

(* The entry of acquire_inner: note the holding for a rollback, and rank it *)
(* as this request.                                                         *)
Acquire(p, r, rq) ==
  /\ Acts(p) /\ request_seq < MaxRequests
  /\ LET h == holding[r][p]
         c == [res |-> r, preempt |-> rq.preempt, fixed |-> rq.fixed,
               rank |-> rq.rank, amount |-> rq.amount, rem |-> rq.amount,
               key |-> NoKey,
               held0 |-> h.amount, rank0 |-> h.rank, fixed0 |-> h.fixed]
     IN  /\ call' = [call EXCEPT ![p] = c]
         /\ holding' = IF h.amount = 0 THEN holding
                       ELSE [holding EXCEPT ![r][p] =
                               [@ EXCEPT !.rank = request_rank(p, c),
                                         !.fixed = rq.fixed]]
  /\ pc' = [pc EXCEPT ![p] = "claim"]
  /\ UNCHANGED <<current, prio, sig, events, waits, in_use, tags, sampled, caps,
                 tasks, request_seq, trial>>

(* acquire_inner returns.  What the caller does with the signal is up to it.*)
Returns(p) == /\ pc'   = [pc   EXCEPT ![p] = "ready"]
              /\ sig'  = [sig  EXCEPT ![p] = CMB_PROCESS_SUCCESS]
              /\ call' = [call EXCEPT ![p] = NoCall]

(* All that is missing is free: take it, and signal for the leftovers.      *)
ClaimAll(p) ==
  /\ Inside(p, "claim")
  /\ LET c == call[p]
         r == c.res
         n == in_use[r] + c.rem
     IN  /\ Room(r, in_use[r]) >= c.rem
         /\ in_use'  = [in_use  EXCEPT ![r] = n]
         /\ sampled' = record_sample(r, n)
         /\ holding' = [holding EXCEPT ![r][p] = Credited(p, r, c.rem, c)]
         /\ tags'    = [tags    EXCEPT ![p] = TagsAfter(p, r, c.rem)]
         /\ Signal(r, n, capacity[r], queue, due)
  /\ Returns(p)
  /\ UNCHANGED <<current, prio, now, later, awaits, caps, tasks, request_seq, trial>>

(* Take what is free, and go on for the rest.                               *)
ClaimSome(p) ==
  /\ Inside(p, "claim")
  /\ LET c == call[p]
         r == c.res
         avail == Room(r, in_use[r])
         n == in_use[r] + avail
     IN  /\ avail < c.rem
         /\ in_use'  = [in_use  EXCEPT ![r] = n]
         /\ sampled' = IF avail > 0 THEN record_sample(r, n) ELSE sampled
         /\ holding' = [holding EXCEPT ![r][p] = Credited(p, r, avail, c)]
         /\ tags'    = [tags    EXCEPT ![p] = TagsAfter(p, r, avail)]
         /\ call'    = [call    EXCEPT ![p].rem = @ - avail]
  /\ pc' = [pc EXCEPT ![p] = "evict"]
  /\ UNCHANGED <<current, prio, sig, events, waits, caps, tasks, request_seq, trial>>

(* preempt_front: holder v loses its holding, its waits and its timers, and *)
(* is told by an interrupt.  What the queue, the events and the tags become.*)
Outranked_OrEqual(p, v) ==
  /\ IsFirstVictim(v, call[p].res, Holders(call[p].res))
  /\ holding[call[p].res][v].rank <= request_rank(p, call[p])
Outranked(p, v) == /\ IsFirstVictim(v, call[p].res, Holders(call[p].res))
                   /\ holding[call[p].res][v].rank < request_rank(p, call[p])
EventsAfterPreempt_Silent(v) == WithoutTimers(v, due)
EventsAfterPreempt(v) ==
  WithoutTimers(v, due) \cup {Wakeup("interrupt", v, CMB_PROCESS_PREEMPTED)}

(* One turn of the preemption loop: throw out the next victim and take what *)
(* is needed of the room.  The claim completing signals for the leftovers.  *)
Evict(p, v) ==
  /\ Inside(p, "evict") /\ call[p].preempt /\ Outranked(p, v)
  /\ LET c    == call[p]
         r    == c.res
         left == in_use[r] - holding[r][v].amount
         take == IF Room(r, left) < c.rem THEN Room(r, left) ELSE c.rem
         n    == left + take
         done == take = c.rem
     IN  /\ in_use'  = [in_use  EXCEPT ![r] = n]
         /\ sampled' = IF n # in_use[r] \/ done THEN record_sample(r, n) ELSE sampled
         /\ holding' = [holding EXCEPT ![r][v] = NoHolding,
                                       ![r][p] = Credited(p, r, take, c)]
         /\ tags'    = [tags EXCEPT ![v] = @ \ {r}, ![p] = TagsAfter(p, r, take)]
         /\ IF done
            THEN /\ Signal(r, n, capacity[r], WithoutEntries(v), EventsAfterPreempt(v))
                 /\ Returns(p)
            ELSE /\ queue' = WithoutEntries(v)
                 /\ due'   = EventsAfterPreempt(v)
                 /\ call'  = [call EXCEPT ![p].rem = @ - take]
                 /\ UNCHANGED <<pc, sig>>
  /\ awaits' = [awaits EXCEPT ![v] = {}]
  /\ later'  = WithoutTimers(v, later)
  /\ UNCHANGED <<current, prio, now, caps, tasks, request_seq, trial>>

(* next_wait_key: a sequence number on the first wait of a call, a fresh    *)
(* episode on each later one, until the episodes run out.                   *)
next_wait_key(key) ==
  IF key = NoKey THEN <<request_seq + 1, 0>>
  ELSE <<key[1], IF key[2] < EPISODE_MAX THEN key[2] + 1 ELSE key[2]>>

(* Nobody left to throw out: wait_placed, up to its yield.                  *)
EnterQueue(p) ==
  /\ Inside(p, "evict")
  /\ call[p].preempt => \A v \in Procs : ~Outranked(p, v)
  /\ LET c   == call[p]
         r   == c.res
         key == next_wait_key(c.key)
     IN  /\ call'   = [call   EXCEPT ![p].key = key]
         /\ queue'  = [queue  EXCEPT ![r] = @ \cup
                        {[proc |-> p, key |-> key, rank |-> request_rank(p, c)]}]
         /\ awaits' = [awaits EXCEPT ![p] = @ \cup {r}]
         /\ tags'   = [tags   EXCEPT ![p] = @ \cup {r}]
         /\ request_seq' = IF c.key = NoKey THEN request_seq + 1 ELSE request_seq
  /\ pc' = [pc EXCEPT ![p] = "wait"]
  /\ current' = NoProc
  /\ UNCHANGED <<prio, sig, events, in_use, holding, sampled, caps, tasks, trial>>

(* Give back part or all of the holding.                                    *)
Release(p, r, n) ==
  /\ Acts(p) /\ n \in 1 .. holding[r][p].amount
  /\ LET left == in_use[r] - n
         kept == holding[r][p].amount - n
         all  == kept = 0
     IN  /\ holding' = [holding EXCEPT ![r][p] =
                          IF all THEN NoHolding ELSE [@ EXCEPT !.amount = kept]]
         /\ tags'    = [tags    EXCEPT ![p] = IF all THEN @ \ {r} ELSE @]
         /\ in_use'  = [in_use  EXCEPT ![r] = left]
         /\ sampled' = record_sample(r, left)
         /\ Signal(r, left, capacity[r], queue, due)
  /\ UNCHANGED <<current, procs, now, later, awaits, caps, tasks, request_seq, trial>>

(* A release of more than is held, an amount that is not positive or a      *)
(* negative capacity fails the trial before anything changes.               *)
CallFails(a) ==
  /\ Acts(a) /\ FaultyCalls /\ trial' = "failed"
  /\ UNCHANGED <<current, procs, events, waits, units, caps, tasks, request_seq>>

(* set_capacity, up to its preemption loop.  The present value is a no-op.  *)
SetCapacity(a, r, n, mode) ==
  /\ Acts(a) /\ n # capacity[r]
  /\ capacity'     = [capacity     EXCEPT ![r] = n]
  /\ max_capacity' = [max_capacity EXCEPT ![r] = IF n > @ THEN n ELSE @]
  /\ IF mode = "preempt" /\ in_use[r] > n
     THEN /\ shrinking' = r
          /\ UNCHANGED <<queue, due, sampled>>
     ELSE /\ sampled' = record_sample(r, in_use[r])
          /\ Signal(r, in_use[r], n, queue, due)
          /\ UNCHANGED shrinking
  /\ UNCHANGED <<current, procs, now, later, awaits, in_use, holding, tags, dying,
                 request_seq, trial>>

(* One turn of that loop; it passes over the caller's own holding.          *)
ShrinkEvict(v) ==
  LET r == shrinking
      left == in_use[r] - holding[r][v].amount
  IN  /\ trial = "running" /\ r # NoRes
      /\ in_use[r] > capacity[r]
      /\ IsFirstVictim(v, r, Holders(r) \ {current})
      /\ in_use'  = [in_use  EXCEPT ![r] = left]
      /\ holding' = [holding EXCEPT ![r][v] = NoHolding]
      /\ tags'    = [tags    EXCEPT ![v] = @ \ {r}]
      /\ queue'   = WithoutEntries(v)
      /\ due'     = EventsAfterPreempt(v)
      /\ later'   = WithoutTimers(v, later)
      /\ awaits'  = [awaits  EXCEPT ![v] = {}]
      /\ UNCHANGED <<current, procs, now, sampled, caps, tasks, request_seq, trial>>

(* The units fit, or only the caller holds any: sample and signal.          *)
ShrinkDone ==
  LET r == shrinking
  IN  /\ trial = "running" /\ r # NoRes
      /\ in_use[r] <= capacity[r] \/ Holders(r) \subseteq {current}
      /\ sampled' = record_sample(r, in_use[r])
      /\ Signal(r, in_use[r], capacity[r], queue, due)
      /\ shrinking' = NoRes
      /\ UNCHANGED <<current, procs, now, later, awaits, in_use, holding, tags, caps,
                     dying, request_seq, trial>>

(* priority_set: the engine re-ranks q's waiting entry at the new priority, *)
(* then each tag's reprioritize moves a tracking holding and puts a ranked  *)
(* entry back.                                                              *)
EntryRank_Moved(q, r, n) == n
EntryRank(q, r, n) == IF r \in tags[q] /\ call[q].fixed THEN call[q].rank ELSE n
PrioritySet(a, q, n) ==
  /\ Acts(a) /\ pc[q] # "done"
  /\ prio'  = [prio EXCEPT ![q] = n]
  /\ queue' = [r \in Resources |-> {e \in queue[r] : e.proc # q} \cup
                 {[e EXCEPT !.rank = EntryRank(q, r, n)] :
                    e \in {f \in queue[r] : f.proc = q}}]
  /\ holding' = [r \in Resources |->
                   IF r \in tags[q] /\ holding[r][q].amount > 0 /\ ~holding[r][q].fixed
                   THEN [holding[r] EXCEPT ![q].rank = n] ELSE holding[r]]
  /\ UNCHANGED <<current, pc, sig, call, events, awaits, in_use, tags, sampled, caps,
                 tasks, request_seq, trial>>

(* Process.interrupt and Process.resume: an event of this instant.          *)
Interrupt(a, q, s) ==
  /\ Acts(a) /\ Suspended(q) /\ Wakeup("interrupt", q, s) \notin due
  /\ due' = due \cup {Wakeup("interrupt", q, s)}
  /\ UNCHANGED <<current, procs, now, later, waits, units, caps, tasks, request_seq,
                 trial>>
Resume(a, q, s) ==
  /\ Acts(a) /\ Suspended(q) /\ Wakeup("resume", q, s) \notin due
  /\ due' = due \cup {Wakeup("resume", q, s)}
  /\ UNCHANGED <<current, procs, now, later, waits, units, caps, tasks, request_seq,
                 trial>>

(* timer_set replaces the timers of the process; timers_clear removes them. *)
TimerSet(p, s) ==
  /\ Acts(p)
  /\ later' = WithoutTimers(p, later) \cup {Wakeup("timer", p, s)}
  /\ due'   = WithoutTimers(p, due)
  /\ UNCHANGED <<current, procs, now, waits, units, caps, tasks, request_seq, trial>>
TimersClear(p) ==
  /\ Acts(p)
  /\ later' = WithoutTimers(p, later)
  /\ due'   = WithoutTimers(p, due)
  /\ UNCHANGED <<current, procs, now, waits, units, caps, tasks, request_seq, trial>>

(* hold: a timer of its own, and a suspension.  A bare resume can leave the *)
(* timer of an earlier hold behind, which then ends this one as its own does*)
(* (two that are due at later instants are one here).                       *)
Hold(p) ==
  /\ Acts(p)
  /\ later' = later \cup {Wakeup("hold", p, CMB_PROCESS_SUCCESS)}
  /\ pc' = [pc EXCEPT ![p] = "hold"]
  /\ current' = NoProc
  /\ UNCHANGED <<prio, sig, call, now, due, waits, units, caps, tasks, request_seq,
                 trial>>

(* A process that returns, or is stopped, loses its waits, its timers and   *)
(* every event on its way; the engine then drops its tags one by one.       *)
Ends(q) ==
  /\ pc'     = [pc     EXCEPT ![q] = "done"]
  /\ sig'    = [sig    EXCEPT ![q] = CMB_PROCESS_SUCCESS]
  /\ call'   = [call   EXCEPT ![q] = NoCall]
  /\ awaits' = [awaits EXCEPT ![q] = {}]
  /\ queue'  = WithoutEntries(q)
  /\ later'  = WithoutEvents(q, later)
  /\ due'    = WithoutEvents(q, due)
  /\ dying'  = IF tags[q] = {} THEN NoProc ELSE q
  /\ UNCHANGED <<prio, now, units, caps, shrinking, request_seq, trial>>
Exit(p)    == Acts(p) /\ p # Hook /\ Ends(p) /\ current' = NoProc
Stop(a, q) == Acts(a) /\ q # a /\ Suspended(q) /\ Ends(q) /\ UNCHANGED current

(* drop_holder: the tag of r is off the list; the units go back unsampled.  *)
Drop(r) ==
  LET q == dying
      left == in_use[r] - holding[r][q].amount
  IN  /\ trial = "running" /\ q # NoProc /\ r \in tags[q]
      /\ tags'    = [tags    EXCEPT ![q] = @ \ {r}]
      /\ in_use'  = [in_use  EXCEPT ![r] = left]
      /\ holding' = [holding EXCEPT ![r][q] = NoHolding]
      /\ dying'   = IF tags[q] = {r} THEN NoProc ELSE q
      /\ IF holding[r][q].amount > 0 \/ StopPassesOn
         THEN Signal(r, left, capacity[r], queue, due)
         ELSE UNCHANGED <<queue, due>>
      /\ UNCHANGED <<current, procs, now, later, awaits, sampled, caps, shrinking,
                     request_seq, trial>>

(* A scheduled function or hook starts, and returns.                        *)
HookRuns == /\ Dispatch /\ Hook \in Controllers /\ current' = Hook
            /\ UNCHANGED <<procs, events, waits, units, caps, tasks, request_seq, trial>>
HookEnds == /\ Acts(Hook) /\ current' = NoProc
            /\ UNCHANGED <<procs, events, waits, units, caps, tasks, request_seq, trial>>

-----------------------------------------------------------------------------
(* The events of this instant, in any order *)

(* Process q runs again with signal s; its wait or hold does the rest.      *)
Resumes(q, s) ==
  /\ current' = q
  /\ sig' = [sig EXCEPT ![q] = IF pc[q] = "wait" THEN s ELSE @]
  /\ pc'  = [pc  EXCEPT ![q] = IF @ = "wait" THEN "woken" ELSE "ready"]

(* The wakeup of a grant, unless its process no longer awaits that key.     *)
Awaited_AnyKey(ev) == ev.res \in awaits[ev.proc]
Awaited(ev) == ev.res \in awaits[ev.proc] /\ call[ev.proc].key = ev.key
Grant(ev) ==
  /\ Dispatch /\ ev \in due /\ ev.kind = "grant"
  /\ due' = due \ {ev}
  /\ IF Awaited(ev)
     THEN Resumes(ev.proc, ev.sig)
     ELSE UNCHANGED <<current, sig, pc>>
  /\ UNCHANGED <<prio, call, now, later, waits, units, caps, tasks, request_seq, trial>>

(* An interrupt cancels whatever its process awaits, then resumes it.       *)
Interrupted(ev) ==
  /\ Dispatch /\ ev \in due /\ ev.kind = "interrupt"
  /\ due'    = WithoutTimers(ev.proc, due \ {ev})
  /\ later'  = WithoutTimers(ev.proc, later)
  /\ queue'  = WithoutEntries(ev.proc)
  /\ awaits' = [awaits EXCEPT ![ev.proc] = {}]
  /\ Resumes(ev.proc, ev.sig)
  /\ UNCHANGED <<prio, call, now, units, caps, tasks, request_seq, trial>>

(* A timer or a bare resume leaves the waits as they are.  A hold that ends *)
(* with another signal than success cancels its own timer.                  *)
Resumed(ev) ==
  /\ Dispatch /\ ev \in due /\ ev.kind \in {"timer", "hold", "resume"}
  /\ LET cut == pc[ev.proc] = "hold" /\ ev.sig # CMB_PROCESS_SUCCESS
     IN  /\ due'   = IF cut THEN WithoutHold(ev.proc, due \ {ev}) ELSE due \ {ev}
         /\ later' = IF cut THEN WithoutHold(ev.proc, later) ELSE later
  /\ Resumes(ev.proc, ev.sig)
  /\ UNCHANGED <<prio, call, now, waits, units, caps, tasks, request_seq, trial>>

(* Nothing is left to do now: time moves on to when some timers are due.    *)
Tick(S) ==
  /\ Dispatch /\ due = {} /\ S # {} /\ S \subseteq later /\ now < MaxTime
  /\ now'   = now + 1
  /\ due'   = S
  /\ later' = later \ S
  /\ UNCHANGED <<current, procs, waits, units, caps, tasks, request_seq, trial>>

-----------------------------------------------------------------------------
(* acquire_inner after its wait *)

(* The end of wait_placed: withdraw the entry, or, when something else took *)
(* it out, pass on the opportunity of a grant that is now stale.            *)
PassesOn_Never(p, queued) == FALSE
PassesOn(p, queued) == /\ ~queued
                       /\ sig[p] \notin {CMB_PROCESS_SUCCESS, CMB_PROCESS_CANCELLED}
WaitOver(p) ==
  /\ Inside(p, "woken")
  /\ LET r == call[p].res
         queued == \E e \in queue[r] : e.proc = p
     IN  IF PassesOn(p, queued)
         THEN Signal(r, in_use[r], capacity[r], queue, due)
         ELSE queue' = WithoutEntries(p) /\ UNCHANGED due
  /\ awaits' = [awaits EXCEPT ![p] = {}]
  /\ pc' = [pc EXCEPT ![p] = "settle"]
  /\ UNCHANGED <<current, prio, sig, call, now, later, units, caps, tasks, request_seq,
                 trial>>

(* Granted: look again, someone else may have taken the room meanwhile.     *)
Retry(p) ==
  /\ Inside(p, "settle") /\ sig[p] = CMB_PROCESS_SUCCESS
  /\ pc' = [pc EXCEPT ![p] = "claim"]
  /\ UNCHANGED <<current, prio, sig, call, events, waits, units, caps, tasks,
                 request_seq, trial>>

(* settle_tag: the tag stays only with a holding.                           *)
settle_tag_Keeps(p, r, amount) == tags[p]
settle_tag(p, r, amount) == IF amount = 0 THEN tags[p] \ {r} ELSE tags[p]

(* Thrown out, here or elsewhere: returning as is.                          *)
Thrown(p) ==
  /\ Inside(p, "settle") /\ sig[p] = CMB_PROCESS_PREEMPTED
  /\ LET r == call[p].res
     IN  tags' = [tags EXCEPT ![p] = settle_tag(p, r, holding[r][p].amount)]
  /\ Returns(p)
  /\ UNCHANGED <<current, prio, events, waits, in_use, holding, sampled, caps, tasks,
                 request_seq, trial>>

Fails(p) == Inside(p, "settle")
            /\ sig[p] \notin {CMB_PROCESS_SUCCESS, CMB_PROCESS_PREEMPTED}

(* Back to the holding the call started with: amount and rank.              *)
RollBack(p) ==
  /\ Fails(p)
  /\ LET c == call[p]
         r == c.res
         left == in_use[r] - (holding[r][p].amount - c.held0)
     IN  /\ c.held0 > 0 /\ holding[r][p].amount > 0
         /\ holding' = [holding EXCEPT ![r][p] =
                          [@ EXCEPT !.amount = c.held0, !.rank = c.rank0,
                                    !.fixed = c.fixed0]]
         /\ in_use'  = [in_use  EXCEPT ![r] = left]
         /\ sampled' = record_sample(r, left)
         /\ Signal(r, left, capacity[r], queue, due)
  /\ Returns(p)
  /\ UNCHANGED <<current, prio, now, later, awaits, tags, caps, tasks, request_seq,
                 trial>>

(* Back to no holding at all: the units taken so far go, without a signal.  *)
GiveUp(p) ==
  /\ Fails(p) /\ call[p].held0 = 0
  /\ LET r == call[p].res
         left == in_use[r] - holding[r][p].amount
     IN  /\ holding' = [holding EXCEPT ![r][p] = NoHolding]
         /\ in_use'  = [in_use  EXCEPT ![r] = left]
         /\ sampled' = record_sample(r, left)
         /\ tags'    = [tags    EXCEPT ![p] = settle_tag(p, r, 0)]
  /\ Returns(p)
  /\ UNCHANGED <<current, prio, events, waits, caps, tasks, request_seq, trial>>

(* The holding to go back to is gone: reset_holder reads and writes an item *)
(* of the hashheap that is not there.  Nothing is known from here on.       *)
ResetMissing(p) ==
  /\ Fails(p) /\ call[p].held0 > 0 /\ holding[call[p].res][p].amount = 0
  /\ trial' = "broken"
  /\ UNCHANGED <<current, procs, events, waits, units, caps, tasks, request_seq>>

-----------------------------------------------------------------------------
(* Every process has been started: it begins as after a hold of no time.    *)
Init ==
  /\ current = NoProc /\ now = 0 /\ later = {}
  /\ due  = {Wakeup("hold", p, CMB_PROCESS_SUCCESS) : p \in Procs}
  /\ prio = InitPrio
  /\ pc   = [p \in Procs |-> "hold"]
  /\ sig  = [p \in Procs |-> CMB_PROCESS_SUCCESS]
  /\ call = [p \in Procs |-> NoCall]
  /\ awaits   = [p \in Procs |-> {}]
  /\ tags     = [p \in Procs |-> {}]
  /\ queue    = [r \in Resources |-> {}]
  /\ holding  = [r \in Resources |-> [p \in Procs |-> NoHolding]]
  /\ in_use   = [r \in Resources |-> 0]
  /\ sampled  = [r \in Resources |-> 0]
  /\ capacity = InitCapacity
  /\ max_capacity = InitCapacity
  /\ request_seq = 0
  /\ shrinking = NoRes /\ dying = NoProc
  /\ trial = "running"

InCall(p) ==
  \/ ClaimAll(p) \/ ClaimSome(p)
  \/ \E v \in Procs : Evict(p, v)
  \/ EnterQueue(p)
  \/ WaitOver(p) \/ Retry(p) \/ Thrown(p) \/ RollBack(p) \/ GiveUp(p)
  \/ ResetMissing(p)

Calls(p) ==
  \/ \E r \in Resources :
       \/ \E rq \in Requests[p] : Acquire(p, r, rq)
       \/ \E n \in {rq.amount : rq \in Requests[p]} : Release(p, r, n)
  \/ \E s \in TimerSignals : TimerSet(p, s)
  \/ TimersClear(p)
  \/ Hold(p)
  \/ Exit(p)

Controls(a) ==
  \/ CallFails(a)
  \/ \E r \in Resources, n \in Capacities, mode \in {"finish", "preempt"} :
       SetCapacity(a, r, n, mode)
  \/ \E q \in Procs :
       \/ \E n \in Priorities : PrioritySet(a, q, n)
       \/ \E s \in IntrSignals : Interrupt(a, q, s)
       \/ \E s \in ResumeSignals : Resume(a, q, s)
       \/ q \in MayStop /\ Stop(a, q)

EventLoop ==
  \/ \E ev \in due : Grant(ev) \/ Interrupted(ev) \/ Resumed(ev)
  \/ \E S \in SUBSET later : Tick(S)
  \/ HookRuns \/ HookEnds

Tasks ==
  \/ \E v \in Procs : ShrinkEvict(v)
  \/ ShrinkDone
  \/ \E r \in Resources : Drop(r)

Next ==
  \/ \E p \in Procs : InCall(p) \/ Calls(p)
  \/ \E a \in Controllers : Controls(a)
  \/ EventLoop
  \/ Tasks

Spec == Init /\ [][Next]_vars
=============================================================================
