------------------------ MODULE ResourceUnitsProofs -------------------------
(***************************************************************************)
(* Proofs about the units of cb.Resource: what calls may take, from whom,  *)
(* and that free units reach those who wait, for any processes, resources, *)
(* capacities and requests.  Each result has a condition on the requests,  *)
(* signals or priorities of the model, and without it the code breaks it   *)
(* (README, section 3).                                                    *)
(***************************************************************************)
EXTENDS ResourceQueueProofs

USE DEF CMB_PROCESS_SUCCESS, CMB_PROCESS_PREEMPTED, CallSteps, Inside,
        procs, events, waits, units, caps, tasks

-----------------------------------------------------------------------------
(* Nothing is oversold *)

(* No interrupt or bare resume looks like the grant of a request.           *)
LoudWakes == CMB_PROCESS_SUCCESS \notin IntrSignals \cup ResumeSignals

Loud == \A g \in due : g.kind \in {"interrupt", "resume"} => g.sig # CMB_PROCESS_SUCCESS

(* Nothing but an interrupt or a bare resume can wake p.                    *)
Stripped(p) ==
  /\ awaits[p] = {}
  /\ \A g \in later \cup due : g.proc = p => g.kind \notin {"timer", "hold"}

(* A call still has what it began with, or was preempted of all and will not*)
(* go on to claim again.                                                    *)
Kept(p) ==
  LET c == call[p]
      n == holding[c.res][p].amount
  IN  pc[p] \in CallSteps =>
        \/ n >= c.held0
        \/ n = 0 /\ pc[p] = "wait" /\ Stripped(p)
        \/ n = 0 /\ pc[p] \in {"woken", "settle"} /\ sig[p] # CMB_PROCESS_SUCCESS

Within == \A r \in Resources : /\ in_use[r] <= max_capacity[r]
                               /\ capacity[r] <= max_capacity[r]

KInv == Loud /\ (\A p \in Procs : Kept(p)) /\ Within

-----------------------------------------------------------------------------
(* Signals *)

(* Serving a room makes nothing happen but grants.                          *)
LEMMA SignalGrants ==
  ASSUME NEW r, NEW n, NEW cap, NEW q, NEW ev, Signal(r, n, cap, q, ev)
  PROVE  \A g \in due' : g \in ev \/ g.kind = "grant"
BY DEF Signal, GrantOf

(* A preemption makes nothing happen but the interrupt of its victim.       *)
LEMMA PreemptInterrupts ==
  ASSUME NEW v
  PROVE  /\ \A g \in EventsAfterPreempt(v) :
              \/ g \in due /\ (g.proc = v => g.kind \notin {"timer", "hold"})
              \/ g.kind = "interrupt" /\ g.sig # CMB_PROCESS_SUCCESS
         /\ \A g \in WithoutTimers(v, later) :
              g \in later /\ (g.proc = v => g.kind \notin {"timer", "hold"})
BY DEF EventsAfterPreempt, WithoutTimers, Wakeup

LEMMA LoudKept ==
  ASSUME LoudWakes, Loud, EventsLive, [Next]_vars
  PROVE  Loud'
<1> DEFINE Quiet(g) == g.kind \in {"interrupt", "resume"} /\ g.sig = CMB_PROCESS_SUCCESS
<1> SUFFICES \A g \in due' : g \in due \/ ~Quiet(g)
  BY DEF Loud
<1>1. \A g : g.kind = "grant" => ~Quiet(g)
  OBVIOUS
<1>2. \A v : \A g \in EventsAfterPreempt(v) : g \in due \/ ~Quiet(g)
  BY PreemptInterrupts
<1>3. ASSUME NEW r, NEW n, NEW cap, NEW q, Signal(r, n, cap, q, due)
      PROVE  \A g \in due' : g \in due \/ ~Quiet(g)
  BY <1>1, <1>3, SignalGrants
<1>4. ASSUME NEW p \in Procs, InCall(p) PROVE \A g \in due' : g \in due \/ ~Quiet(g)
  <2>1. CASE ClaimAll(p)
    BY <1>3, <2>1 DEF ClaimAll
  <2>2. CASE ClaimSome(p) \/ EnterQueue(p) \/ Retry(p) \/ Thrown(p) \/ GiveUp(p)
             \/ ResetMissing(p)
    BY <2>2 DEF ClaimSome, EnterQueue, Retry, Thrown, GiveUp, ResetMissing
  <2>3. CASE WaitOver(p)
    BY <1>3, <2>3 DEF WaitOver
  <2>4. CASE RollBack(p)
    BY <1>3, <2>4 DEF RollBack
  <2>5. ASSUME NEW v \in Procs, Evict(p, v)
        PROVE  \A g \in due' : g \in due \/ ~Quiet(g)
    <3> PICK r, n, cap, q : \/ Signal(r, n, cap, q, EventsAfterPreempt(v))
                            \/ due' = EventsAfterPreempt(v)
      BY <2>5 DEF Evict
    <3>1. \A g \in due' : g \in EventsAfterPreempt(v) \/ g.kind = "grant"
      BY SignalGrants
    <3> QED
      BY <1>1, <1>2, <3>1
  <2> QED
    BY <1>4, <2>1, <2>2, <2>3, <2>4, <2>5 DEF InCall
<1>5. ASSUME NEW x, Ends(x) PROVE due' \subseteq due
  BY <1>5 DEF Ends, WithoutEvents
<1>6. ASSUME NEW p \in Procs, Calls(p) PROVE \A g \in due' : g \in due \/ ~Quiet(g)
  <2>1. CASE \E r \in Resources, rq \in Requests[p] : Acquire(p, r, rq)
    BY <2>1 DEF Acquire
  <2>2. CASE \E r \in Resources, n \in {rq.amount : rq \in Requests[p]} : Release(p, r, n)
    BY <1>3, <2>2 DEF Release
  <2>3. CASE (\E s \in TimerSignals : TimerSet(p, s)) \/ TimersClear(p) \/ Hold(p)
    BY <2>3 DEF TimerSet, TimersClear, Hold, WithoutTimers
  <2>4. CASE Exit(p)
    BY <1>5, <2>4 DEF Exit
  <2> QED
    BY <1>6, <2>1, <2>2, <2>3, <2>4 DEF Calls
<1>7. ASSUME NEW a \in Controllers, Controls(a)
      PROVE  \A g \in due' : g \in due \/ ~Quiet(g)
  <2>1. CASE \E r \in Resources, n \in Capacities, mode \in {"finish", "preempt"} :
               SetCapacity(a, r, n, mode)
    BY <1>3, <2>1 DEF SetCapacity
  <2>2. CASE CallFails(a) \/ \E x \in Procs, n \in Priorities : PrioritySet(a, x, n)
    BY <2>2 DEF PrioritySet, CallFails
  <2>3. ASSUME NEW x \in Procs, NEW s \in IntrSignals \cup ResumeSignals,
               Interrupt(a, x, s) \/ Resume(a, x, s)
        PROVE  \A g \in due' : g \in due \/ ~Quiet(g)
    BY <2>3 DEF LoudWakes, Interrupt, Resume, Wakeup
  <2>4. CASE \E x \in Procs : Stop(a, x)
    BY <1>5, <2>4 DEF Stop
  <2> HIDE DEF Quiet
  <2> QED
    BY <1>7, <2>1, <2>2, <2>3, <2>4 DEF Controls
<1>8. CASE EventLoop
  <2>1. ASSUME NEW g \in due, Grant(g) \/ Interrupted(g) \/ Resumed(g)
        PROVE  due' \subseteq due
    BY <2>1 DEF Grant, Interrupted, Resumed, WithoutTimers, WithoutHold
  <2>2. ASSUME NEW S \in SUBSET later, Tick(S)
        PROVE  \A g \in due' : g \in due \/ ~Quiet(g)
    BY <2>2 DEF Tick, EventsLive
  <2>3. CASE HookRuns \/ HookEnds
    BY <2>3 DEF HookRuns, HookEnds
  <2> QED
    BY <1>8, <2>1, <2>2, <2>3 DEF EventLoop
<1>9. CASE Tasks
  <2>1. ASSUME NEW v \in Procs, ShrinkEvict(v)
        PROVE  \A g \in due' : g \in due \/ ~Quiet(g)
    BY <1>2, <2>1 DEF ShrinkEvict
  <2>2. CASE ShrinkDone
    BY <1>3, <2>2 DEF ShrinkDone
  <2>3. ASSUME NEW r \in Resources, Drop(r)
        PROVE  \A g \in due' : g \in due \/ ~Quiet(g)
    BY <1>3, <2>3 DEF Drop
  <2> QED
    BY <1>9, <2>1, <2>2, <2>3 DEF Tasks
<1>10. CASE UNCHANGED vars
  BY <1>10 DEF vars
<1> QED
  BY <1>4, <1>6, <1>7, <1>8, <1>9, <1>10 DEF Next

-----------------------------------------------------------------------------
(* Calls keep what they began with *)

(* The step leaves x its call and its units, and sets no timer for it.      *)
Spared(x) ==
  /\ pc'[x] = pc[x] /\ call'[x] = call[x] /\ sig'[x] = sig[x]
  /\ awaits'[x] \subseteq awaits[x]
  /\ \A r \in Resources : holding'[r][x].amount = holding[r][x].amount
  /\ \A g \in later' \cup due' :
       g.proc = x /\ g.kind \in {"timer", "hold"} => g \in later \cup due

LEMMA SparedKept ==
  ASSUME IInv, NEW x \in Procs, Kept(x), Spared(x)
  PROVE  Kept(x)'
<1>1. pc[x] \in CallSteps => call[x].res \in Resources
  BY DEF IInv, CallKnown
<1>2. Stripped(x) => Stripped(x)'
  BY DEF Stripped, Spared
<1> QED
  BY <1>1, <1>2 DEF Kept, Spared

(* Who is outside of a call has nothing to keep.                            *)
LEMMA OutsideKept ==
  ASSUME NEW x \in Procs, pc'[x] \notin CallSteps
  PROVE  Kept(x)'
BY DEF Kept

LEMMA ClaimKept ==
  ASSUME IInv, KInv, NEW p \in Procs, ClaimAll(p) \/ ClaimSome(p)
  PROVE  \A x \in Procs : Kept(x)'
<1> DEFINE c == call[p]
           r == c.res
           avail == Room(r, in_use[r])
<1>1. /\ r \in Resources /\ c \in Call /\ pc[p] = "claim" /\ avail \in Nat
      /\ holding[r][p].amount \in Nat
  BY RoomTyped DEF ClaimAll, ClaimSome, IInv, CallKnown, TypeOK, Holding
<1>2. ASSUME NEW x \in Procs \ {p} PROVE Spared(x)
  <2>1. \A g \in due' : g \in due \/ g.kind = "grant"
    BY SignalGrants DEF ClaimAll, ClaimSome
  <2>2. pc'[x] = pc[x] /\ call'[x] = call[x] /\ sig'[x] = sig[x]
    BY Returned DEF ClaimAll, ClaimSome, IInv, TypeOK
  <2>3. PICK h : holding' = [holding EXCEPT ![r][p] = h]
    BY DEF ClaimAll, ClaimSome
  <2>4. \A s \in Resources : holding'[s][x] = holding[s][x]
    BY <1>1, <2>3 DEF IInv, TypeOK
  <2> QED
    BY <2>1, <2>2, <2>4 DEF ClaimAll, ClaimSome, Spared
<1>3. Kept(p)'
  <2>1. CASE ClaimAll(p)
    BY <2>1, Returned, OutsideKept DEF ClaimAll
  <2>2. CASE ClaimSome(p)
    <3>1. /\ pc'[p] = "evict" /\ call'[p].res = r /\ call'[p].held0 = c.held0
          /\ holding'[r][p] = Credited(p, r, avail, c)
      BY <1>1, <2>2 DEF ClaimSome, IInv, TypeOK, Call
    <3>2. holding'[r][p].amount = holding[r][p].amount + avail
      BY <1>1, <3>1, CreditedTyped DEF IInv
    <3>3. holding[r][p].amount >= c.held0 /\ c.held0 \in Nat
      BY <1>1 DEF KInv, Kept, Call
    <3>4. holding'[r][p].amount >= c.held0
      BY <1>1, <3>2, <3>3
    <3> QED
      BY <3>1, <3>4 DEF Kept
  <2> QED
    BY <2>1, <2>2
<1> QED
  BY <1>2, <1>3, SparedKept DEF KInv

(* A victim was suspended: it loses all it has, and with it every way to be *)
(* woken but by an interrupt or a bare resume.                              *)
LEMMA VictimKept ==
  ASSUME IInv, NEW v \in Procs, v # current, NEW r \in Resources,
         holding[r][v].amount > 0, holding'[r][v].amount = 0,
         \A s \in Resources \ {r} : holding'[s][v].amount = holding[s][v].amount,
         Kept(v), pc'[v] = pc[v], call'[v] = call[v], awaits'[v] = {},
         \A g \in later' \cup due' : g.proc = v => g.kind \notin {"timer", "hold"}
  PROVE  Kept(v)'
<1>1. pc[v] \in {"hold", "wait", "done"}
  BY DEF IInv, OneRuns, TypeOK
<1>2. Stripped(v)'
  BY DEF Stripped
<1>3. pc[v] = "wait" => call[v].res \in Resources
  BY DEF IInv, CallKnown
<1> QED
  BY <1>1, <1>2, <1>3 DEF Kept

LEMMA EvictKept ==
  ASSUME IInv, QInv, KInv, NEW p \in Procs, NEW v \in Procs, Evict(p, v)
  PROVE  \A x \in Procs : Kept(x)'
<1> DEFINE c == call[p]
           r == c.res
           left == in_use[r] - holding[r][v].amount
           take == IF Room(r, left) < c.rem THEN Room(r, left) ELSE c.rem
           ev == EventsAfterPreempt(v)
<1>1. /\ r \in Resources /\ c \in Call /\ pc[p] = "evict" /\ v # p /\ current = p
      /\ holding[r][p].amount \in Nat /\ holding[r][v].amount > 0
  <2>1. v # p /\ pc[p] = "evict" /\ r \in Resources
    BY Victim
  <2>2. current = p /\ holding[r][v].amount > 0
    BY DEF Evict, Outranked, IsFirstVictim, Holders
  <2> QED
    BY <2>1, <2>2 DEF IInv, TypeOK, Holding
<1>2. take \in Nat
  <2>1. left \in Nat
    BY <1>1, HeldIsInUse DEF IInv, TypeOK, Holding
  <2> QED
    BY <1>1, <2>1, RoomTyped DEF IInv, Call
<1>3. /\ holding' = [holding EXCEPT ![r][v] = NoHolding,
                                    ![r][p] = Credited(p, r, take, c)]
      /\ awaits' = [awaits EXCEPT ![v] = {}]
      /\ later' = WithoutTimers(v, later)
  BY DEF Evict
<1>4. \/ Returns(p)
      \/ call' = [call EXCEPT ![p].rem = @ - take] /\ UNCHANGED <<pc, sig>>
  BY DEF Evict
<1>5. \A g \in due' : g \in ev \/ g.kind = "grant"
  <2> PICK n, cap, q : Signal(r, n, cap, q, ev) \/ due' = ev
    BY DEF Evict
  <2> QED
    BY SignalGrants
<1> HIDE DEF take, ev
<1>6. /\ \A g \in due' : \/ g \in due /\ (g.proc = v => g.kind \notin {"timer", "hold"})
                         \/ g.kind \in {"grant", "interrupt"}
      /\ \A g \in later' : g \in later /\ (g.proc = v => g.kind \notin {"timer", "hold"})
  BY <1>3, <1>5, PreemptInterrupts DEF ev
<1>7. \A x \in Procs \ {p} : pc'[x] = pc[x] /\ call'[x] = call[x] /\ sig'[x] = sig[x]
  BY <1>4, Returned DEF IInv, TypeOK
<1>8. /\ \A x \in Procs \ {p, v}, s \in Resources :
           holding'[s][x] = holding[s][x] /\ awaits'[x] = awaits[x]
      /\ \A s \in Resources \ {r} : holding'[s][v] = holding[s][v]
      /\ holding'[r][v] = NoHolding /\ awaits'[v] = {}
      /\ holding'[r][p] = Credited(p, r, take, c)
  BY <1>1, <1>3 DEF IInv, TypeOK
<1>9. ASSUME NEW x \in Procs \ {p, v} PROVE Kept(x)'
  <2>1. \A g \in later' \cup due' :
          g.kind \in {"timer", "hold"} => g \in later \cup due
    BY <1>6
  <2>2. /\ \A s \in Resources : holding'[s][x] = holding[s][x]
        /\ r \in Resources => awaits'[x] = awaits[x]
    BY <1>8
  <2>3. Spared(x)
    BY <1>1, <1>7, <2>1, <2>2 DEF Spared
  <2> QED
    BY <2>3, SparedKept DEF KInv
<1>10. Kept(v)'
  BY <1>1, <1>6, <1>7, <1>8, NoHoldingTyped, VictimKept DEF KInv
<1>11. Kept(p)'
  <2>1. CASE Returns(p)
    BY <2>1, Returned, OutsideKept
  <2>2. CASE call' = [call EXCEPT ![p].rem = @ - take] /\ UNCHANGED <<pc, sig>>
    <3>1. pc'[p] = "evict" /\ call'[p].res = r /\ call'[p].held0 = c.held0
      BY <1>1, <2>2 DEF IInv, TypeOK, Call
    <3>2. holding'[r][p].amount = holding[r][p].amount + take
      BY <1>1, <1>2, <1>8, CreditedTyped DEF IInv
    <3>3. holding[r][p].amount >= c.held0 /\ c.held0 \in Nat
      BY <1>1 DEF KInv, Kept, Call
    <3>4. holding'[r][p].amount >= c.held0
      BY <1>1, <1>2, <3>2, <3>3
    <3> QED
      BY <3>1, <3>4 DEF Kept
  <2> QED
    BY <1>4, <2>1, <2>2
<1> QED
  BY <1>9, <1>10, <1>11

(* The caller waits, wakes, withdraws or looks again.                       *)
LEMMA WaitKept ==
  ASSUME IInv, KInv, NEW p \in Procs, EnterQueue(p) \/ WaitOver(p) \/ Retry(p)
  PROVE  \A x \in Procs : Kept(x)'
<1>1. /\ pc[p] \in CallSteps /\ call[p].res \in Resources /\ call[p] \in Call
      /\ UNCHANGED <<holding, later, sig>>
  BY DEF EnterQueue, WaitOver, Retry, IInv, CallKnown, TypeOK
<1>2. \A g \in due' : g \in due \/ g.kind = "grant"
  <2>1. CASE WaitOver(p)
    <3> PICK r, n, cap : Signal(r, n, cap, queue, due) \/ due' = due
      BY <2>1 DEF WaitOver
    <3> QED
      BY SignalGrants
  <2>2. CASE EnterQueue(p) \/ Retry(p)
    BY <2>2 DEF EnterQueue, Retry
  <2> QED
    BY <2>1, <2>2
<1>3. ASSUME NEW x \in Procs \ {p} PROVE Spared(x)
  <2>1. pc'[x] = pc[x] /\ call'[x] = call[x] /\ awaits'[x] = awaits[x]
    BY DEF EnterQueue, WaitOver, Retry, IInv, TypeOK
  <2> QED
    BY <1>1, <1>2, <2>1 DEF Spared
<1>4. Kept(p)'
  <2>1. call'[p].held0 = call[p].held0 /\ call'[p].res = call[p].res
    <3> PICK k : call' = [call EXCEPT ![p].key = k] \/ call' = call
      BY DEF EnterQueue, WaitOver, Retry
    <3> QED
      BY <1>1 DEF IInv, TypeOK, Call
  <2>2. CASE EnterQueue(p) \/ Retry(p)
    <3>1. holding[call[p].res][p].amount >= call[p].held0
      BY <1>1, <2>2 DEF EnterQueue, Retry, KInv, Kept
    <3> QED
      BY <1>1, <2>1, <3>1 DEF Kept
  <2>3. CASE WaitOver(p)
    <3>1. pc[p] = "woken" /\ pc'[p] = "settle"
      BY <2>3 DEF WaitOver, IInv, TypeOK
    <3> QED
      BY <1>1, <2>1, <3>1 DEF KInv, Kept
  <2> QED
    BY <2>2, <2>3
<1> QED
  BY <1>3, <1>4, SparedKept DEF KInv

LEMMA CallEndsKept ==
  ASSUME IInv, KInv, NEW p \in Procs,
         Thrown(p) \/ RollBack(p) \/ GiveUp(p) \/ ResetMissing(p)
  PROVE  \A x \in Procs : Kept(x)'
<1>1. CASE ResetMissing(p)
  <2>1. \A x \in Procs : Spared(x)
    BY <1>1 DEF ResetMissing, Spared
  <2> QED
    BY <2>1, SparedKept DEF KInv
<1>2. CASE Thrown(p) \/ RollBack(p) \/ GiveUp(p)
  <2>1. Returns(p) /\ call[p].res \in Resources /\ UNCHANGED <<later, awaits>>
    BY <1>2 DEF Thrown, RollBack, GiveUp, Fails, IInv, CallKnown
  <2>2. \A g \in due' : g \in due \/ g.kind = "grant"
    BY <1>2, SignalGrants DEF Thrown, RollBack, GiveUp
  <2>3. PICK h : \/ holding' = [holding EXCEPT ![call[p].res][p] = h]
                 \/ holding' = holding
    <3>1. CASE Thrown(p)
      BY <3>1 DEF Thrown
    <3>2. CASE RollBack(p) \/ GiveUp(p)
      BY <3>2 DEF RollBack, GiveUp
    <3> QED
      BY <1>2, <3>1, <3>2
  <2>4. ASSUME NEW x \in Procs \ {p} PROVE Spared(x)
    <3> DEFINE r == call[p].res
    <3>1. \/ holding' = [holding EXCEPT ![r][p] = h]
          \/ holding' = holding
      BY <2>3
    <3>2. holding \in [Resources -> [Procs -> Holding]] /\ r \in Resources
      BY <2>1 DEF IInv, TypeOK
    <3> HIDE DEF r
    <3>3. \A s \in Resources : holding'[s][x] = holding[s][x]
      BY <3>1, <3>2
    <3> QED
      BY <2>1, <2>2, <3>3, Returned DEF Spared
  <2> QED
    BY <2>1, <2>4, SparedKept, OutsideKept, Returned DEF KInv
<1> QED
  BY <1>1, <1>2

(* A step of p alone, which is outside of a call after it.                  *)
LEMMA OneMoves ==
  ASSUME IInv, KInv, NEW p \in Procs, pc'[p] \notin CallSteps,
         \A x \in Procs \ {p} : /\ pc'[x] = pc[x] /\ call'[x] = call[x]
                                /\ sig'[x] = sig[x] /\ awaits'[x] = awaits[x],
         \A x \in Procs \ {p}, s \in Resources : holding'[s][x] = holding[s][x],
         \A g \in later' \cup due' :
           g \in later \cup due \/ g.proc = p \/ g.kind = "grant"
  PROVE  \A x \in Procs : Kept(x)'
<1>1. \A x \in Procs \ {p} : Spared(x)
  BY DEF Spared
<1> QED
  BY <1>1, SparedKept, OutsideKept DEF KInv

LEMMA EndsKept ==
  ASSUME IInv, KInv, NEW q \in Procs, Ends(q)
  PROVE  \A x \in Procs : Kept(x)'
<1>1. \A g \in later' \cup due' : g \in later \cup due
  BY DEF Ends, WithoutEvents
<1>2. /\ pc'[q] = "done" /\ holding' = holding
      /\ \A x \in Procs \ {q} : /\ pc'[x] = pc[x] /\ call'[x] = call[x]
                                /\ sig'[x] = sig[x] /\ awaits'[x] = awaits[x]
  BY DEF Ends, IInv, TypeOK
<1> QED
  BY <1>1, <1>2, OneMoves

LEMMA CallsKept ==
  ASSUME IInv, KInv, NEW p \in Procs, Calls(p)
  PROVE  \A x \in Procs : Kept(x)'
<1>1. ASSUME NEW r \in Resources, NEW rq \in Requests[p], Acquire(p, r, rq)
      PROVE  \A x \in Procs : Kept(x)'
  <2> PICK c : /\ call' = [call EXCEPT ![p] = c]
               /\ c.res = r /\ c.held0 = holding[r][p].amount
               /\ holding' = IF holding[r][p].amount = 0 THEN holding
                             ELSE [holding EXCEPT ![r][p] =
                                     [@ EXCEPT !.rank = request_rank(p, c),
                                               !.fixed = rq.fixed]]
    BY <1>1 DEF Acquire
  <2>1. \A x \in Procs, s \in Resources : holding'[s][x].amount = holding[s][x].amount
    BY DEF IInv, TypeOK, Holding
  <2>2. /\ pc' = [pc EXCEPT ![p] = "claim"]
        /\ UNCHANGED <<sig, awaits, later, due>>
    BY <1>1 DEF Acquire
  <2>3. \A x \in Procs \ {p} : Spared(x)
    BY <2>1, <2>2 DEF Spared, IInv, TypeOK
  <2>4. Kept(p)'
    <3>1. call'[p] = c /\ holding'[r][p].amount = c.held0 /\ c.held0 \in Nat
      BY <2>1 DEF IInv, TypeOK, Holding
    <3> QED
      BY <3>1 DEF Kept
  <2> QED
    BY <2>3, <2>4, SparedKept DEF KInv
<1>2. CASE \E r \in Resources, n \in {rq.amount : rq \in Requests[p]} : Release(p, r, n)
  <2> PICK r \in Resources, n \in {rq.amount : rq \in Requests[p]} : Release(p, r, n)
    BY <1>2
  <2>1. pc[p] = "ready" /\ UNCHANGED <<procs, awaits, later>>
    BY DEF Release, Acts
  <2>2. \A g \in due' : g \in due \/ g.kind = "grant"
    BY SignalGrants DEF Release
  <2>3. PICK h : holding' = [holding EXCEPT ![r][p] = h]
    BY DEF Release
  <2>4. \A x \in Procs \ {p}, s \in Resources : holding'[s][x] = holding[s][x]
    BY <2>3 DEF IInv, TypeOK
  <2> QED
    BY <2>1, <2>2, <2>4, OneMoves
<1>3. ASSUME NEW s, TimerSet(p, s) \/ TimersClear(p) \/ Hold(p)
      PROVE  \A x \in Procs : Kept(x)'
  <2>1. pc[p] = "ready" /\ UNCHANGED <<sig, call, awaits, holding>>
    BY <1>3 DEF TimerSet, TimersClear, Hold, Acts
  <2>2. pc' = pc \/ pc' = [pc EXCEPT ![p] = "hold"]
    BY <1>3 DEF TimerSet, TimersClear, Hold
  <2>3. pc'[p] \notin CallSteps /\ \A x \in Procs \ {p} : pc'[x] = pc[x]
    BY <2>1, <2>2 DEF IInv, TypeOK
  <2>4. \A g \in later' \cup due' : g \in later \cup due \/ g.proc = p
    BY <1>3 DEF TimerSet, TimersClear, Hold, WithoutTimers, Wakeup
  <2> QED
    BY <2>1, <2>3, <2>4, OneMoves
<1>4. CASE Exit(p)
  BY <1>4, EndsKept DEF Exit
<1> QED
  BY <1>1, <1>2, <1>3, <1>4 DEF Calls

LEMMA ControlsKept ==
  ASSUME IInv, KInv, NEW a \in Controllers, Controls(a)
  PROVE  \A x \in Procs : Kept(x)'
<1>1. ASSUME NEW r, NEW n, NEW mode, SetCapacity(a, r, n, mode)
      PROVE  \A x \in Procs : Kept(x)'
  <2>1. \A g \in due' : g \in due \/ g.kind = "grant"
    BY <1>1, SignalGrants DEF SetCapacity
  <2>2. \A x \in Procs : Spared(x)
    BY <1>1, <2>1 DEF SetCapacity, Spared
  <2> QED
    BY <2>2, SparedKept DEF KInv
<1>2. ASSUME NEW q \in Procs, NEW n, PrioritySet(a, q, n)
      PROVE  \A x \in Procs : Kept(x)'
  <2>1. \A x \in Procs, r \in Resources : holding'[r][x].amount = holding[r][x].amount
    BY <1>2 DEF PrioritySet, IInv, TypeOK, Holding
  <2>2. \A x \in Procs : Spared(x)
    BY <1>2, <2>1 DEF PrioritySet, Spared
  <2> QED
    BY <2>2, SparedKept DEF KInv
<1>3. ASSUME NEW q \in Procs, NEW s, Interrupt(a, q, s) \/ Resume(a, q, s)
      PROVE  \A x \in Procs : Kept(x)'
  <2>1. \A g \in due' : g \in due \/ g.kind \in {"interrupt", "resume"}
    BY <1>3 DEF Interrupt, Resume, Wakeup
  <2>2. \A x \in Procs : Spared(x)
    BY <1>3, <2>1 DEF Interrupt, Resume, Spared
  <2> QED
    BY <2>2, SparedKept DEF KInv
<1>4. CASE CallFails(a)
  <2>1. \A x \in Procs : Spared(x)
    BY <1>4 DEF CallFails, Spared
  <2> QED
    BY <2>1, SparedKept DEF KInv
<1>5. ASSUME NEW q \in Procs, Stop(a, q) PROVE \A x \in Procs : Kept(x)'
  BY <1>5, EndsKept DEF Stop
<1> QED
  BY <1>1, <1>2, <1>3, <1>4, <1>5 DEF Controls

(* A process wakes: if it has lost all it had, only to give up.             *)
LEMMA WakesKept ==
  ASSUME IInv, KInv, EventsLive, NEW g \in due, Dispatch, Resumes(g.proc, g.sig),
         g.kind \in {"interrupt", "resume"} \/ ~Stripped(g.proc),
         \A x \in Procs \ {g.proc} : awaits'[x] = awaits[x],
         later' \cup due' \subseteq later \cup due, UNCHANGED <<call, holding>>
  PROVE  \A x \in Procs : Kept(x)'
<1>1. ASSUME NEW x \in Procs \ {g.proc} PROVE Kept(x)'
  <2>1. Spared(x)
    BY RunsOn DEF Spared
  <2> QED
    BY <2>1, SparedKept DEF KInv
<1>2. /\ g.proc \in Procs /\ pc[g.proc] \in {"hold", "wait"}
      /\ pc'[g.proc] = IF pc[g.proc] = "wait" THEN "woken" ELSE "ready"
      /\ pc[g.proc] = "wait" => sig'[g.proc] = g.sig
  BY RunsOn
<1>3. g.kind \in {"interrupt", "resume"} => g.sig # CMB_PROCESS_SUCCESS
  BY DEF KInv, Loud
<1>4. Kept(g.proc)'
  BY <1>2, <1>3 DEF KInv, Kept
<1> QED
  BY <1>1, <1>4

LEMMA EventLoopKept ==
  ASSUME IInv, QInv, KInv, EventLoop
  PROVE  \A x \in Procs : Kept(x)'
<1>1. EventsLive
  BY DEF QInv
<1>2. ASSUME NEW g \in due, Grant(g) PROVE \A x \in Procs : Kept(x)'
  <2>1. Dispatch /\ due' \subseteq due /\ UNCHANGED <<call, holding, later, awaits>>
    BY <1>2 DEF Grant
  <2>2. CASE Awaited(g)
    <3>1. Resumes(g.proc, g.sig) /\ ~Stripped(g.proc)
      BY <1>2, <2>2 DEF Grant, Awaited, Stripped
    <3> QED
      BY <1>1, <2>1, <3>1, WakesKept
  <2>3. CASE ~Awaited(g)
    <3>1. \A x \in Procs : Spared(x)
      BY <1>2, <2>1, <2>3 DEF Grant, Spared
    <3> QED
      BY <3>1, SparedKept DEF KInv
  <2> QED
    BY <2>2, <2>3
<1>3. ASSUME NEW g \in due, Interrupted(g) PROVE \A x \in Procs : Kept(x)'
  <2>1. /\ Dispatch /\ Resumes(g.proc, g.sig) /\ g.kind = "interrupt"
        /\ later' \cup due' \subseteq later \cup due /\ UNCHANGED <<call, holding>>
        /\ awaits' = [awaits EXCEPT ![g.proc] = {}]
    BY <1>3 DEF Interrupted, WithoutTimers
  <2>2. \A x \in Procs \ {g.proc} : awaits'[x] = awaits[x]
    BY <2>1 DEF IInv, TypeOK
  <2> QED
    BY <1>1, <2>1, <2>2, WakesKept
<1>4. ASSUME NEW g \in due, Resumed(g) PROVE \A x \in Procs : Kept(x)'
  <2>1. /\ Dispatch /\ Resumes(g.proc, g.sig) /\ g.kind \in {"timer", "hold", "resume"}
        /\ later' \cup due' \subseteq later \cup due /\ UNCHANGED <<call, holding, awaits>>
    BY <1>4 DEF Resumed, WithoutHold
  <2>2. g.kind \in {"timer", "hold"} => ~Stripped(g.proc)
    BY DEF Stripped
  <2> QED
    BY <1>1, <2>1, <2>2, WakesKept
<1>5. ASSUME NEW S \in SUBSET later, Tick(S) PROVE \A x \in Procs : Kept(x)'
  <2>1. \A x \in Procs : Spared(x)
    BY <1>5 DEF Tick, Spared
  <2> QED
    BY <2>1, SparedKept DEF KInv
<1>6. CASE HookRuns \/ HookEnds
  <2>1. \A x \in Procs : Spared(x)
    BY <1>6 DEF HookRuns, HookEnds, Spared
  <2> QED
    BY <2>1, SparedKept DEF KInv
<1> QED
  BY <1>2, <1>3, <1>4, <1>5, <1>6 DEF EventLoop

LEMMA TasksKept ==
  ASSUME IInv, QInv, KInv, Tasks
  PROVE  \A x \in Procs : Kept(x)'
<1>1. ASSUME NEW v \in Procs, ShrinkEvict(v) PROVE \A x \in Procs : Kept(x)'
  <2> PICK r \in Resources : r = shrinking
    BY <1>1 DEF ShrinkEvict, IInv, TypeOK
  <2>1. v # current /\ holding[r][v].amount > 0 /\ UNCHANGED <<pc, call, sig>>
    BY <1>1 DEF ShrinkEvict, IsFirstVictim, Holders
  <2>2. /\ holding' = [holding EXCEPT ![r][v] = NoHolding]
        /\ awaits' = [awaits EXCEPT ![v] = {}]
        /\ due' = EventsAfterPreempt(v) /\ later' = WithoutTimers(v, later)
    BY <1>1 DEF ShrinkEvict
  <2>3. /\ \A x \in Procs \ {v}, s \in Resources :
             holding'[s][x] = holding[s][x] /\ awaits'[x] = awaits[x]
        /\ \A s \in Resources \ {r} : holding'[s][v] = holding[s][v]
        /\ holding'[r][v] = NoHolding /\ awaits'[v] = {}
    BY <2>2 DEF IInv, TypeOK
  <2>4. \A g \in later' \cup due' :
          /\ g \in later \cup due \/ g.kind = "interrupt"
          /\ g.proc = v => g.kind \notin {"timer", "hold"}
    BY <2>2, PreemptInterrupts
  <2>5. ASSUME NEW x \in Procs \ {v} PROVE Kept(x)'
    <3>1. \A g \in later' \cup due' :
            g.kind \in {"timer", "hold"} => g \in later \cup due
      BY <2>4
    <3>2. Spared(x)
      BY <2>1, <2>3, <3>1 DEF Spared
    <3> QED
      BY <3>2, SparedKept DEF KInv
  <2>6. Kept(v)'
    BY <2>1, <2>3, <2>4, NoHoldingTyped, VictimKept DEF KInv
  <2> QED
    BY <2>5, <2>6
<1>2. CASE ShrinkDone
  <2>1. \A g \in due' : g \in due \/ g.kind = "grant"
    BY <1>2, SignalGrants DEF ShrinkDone
  <2>2. \A x \in Procs : Spared(x)
    BY <1>2, <2>1 DEF ShrinkDone, Spared
  <2> QED
    BY <2>2, SparedKept DEF KInv
<1>3. ASSUME NEW r \in Resources, Drop(r) PROVE \A x \in Procs : Kept(x)'
  <2> PICK q \in Procs : q = dying
    BY <1>3 DEF Drop, IInv, TypeOK
  <2>1. pc[q] = "done" /\ UNCHANGED <<procs, later, awaits>>
    BY <1>3 DEF Drop, QInv, DyingEnds
  <2>2. \A g \in due' : g \in due \/ g.kind = "grant"
    <3> PICK n, cap : Signal(r, n, cap, queue, due) \/ due' = due
      BY <1>3 DEF Drop
    <3> QED
      BY SignalGrants
  <2>3. holding' = [holding EXCEPT ![r][q] = NoHolding]
    BY <1>3 DEF Drop
  <2>4. \A x \in Procs \ {q}, s \in Resources : holding'[s][x] = holding[s][x]
    BY <2>3 DEF IInv, TypeOK
  <2> QED
    BY <2>1, <2>2, <2>4, OneMoves
<1> QED
  BY <1>1, <1>2, <1>3 DEF Tasks

(* The use of a resource grows by units that its capacity offers.           *)
LEMMA Growth ==
  ASSUME IInv, QInv, KInv, [Next]_vars, NEW r \in Resources
  PROVE  in_use'[r] <= in_use[r] \/ in_use'[r] <= capacity'[r]
<1>1. in_use \in [Resources -> Nat] /\ capacity \in [Resources -> Nat]
  BY DEF IInv, TypeOK
<1>2. in_use' = in_use => in_use'[r] <= in_use[r]
  BY <1>1
<1>3. ASSUME NEW s \in Resources, NEW n \in Int,
             in_use' = [in_use EXCEPT ![s] = n], n <= in_use[s]
      PROVE  in_use'[r] <= in_use[r]
  BY <1>1, <1>3
<1>4. ASSUME NEW s \in Resources, NEW n \in Int, UNCHANGED capacity,
             in_use' = [in_use EXCEPT ![s] = n], n <= in_use[s] \/ n <= capacity[s]
      PROVE  in_use'[r] <= in_use[r] \/ in_use'[r] <= capacity'[r]
  BY <1>1, <1>4
<1>5. \A s \in Resources, p \in Procs : holding[s][p].amount \in Nat
  BY DEF IInv, TypeOK, Holding
<1>6. ASSUME NEW p \in Procs, InCall(p)
      PROVE  in_use'[r] <= in_use[r] \/ in_use'[r] <= capacity'[r]
  <2> PICK s : s = call[p].res
    OBVIOUS
  <2>0. pc[p] \in CallSteps /\ s \in Resources /\ call[p] \in Call
    BY <1>6 DEF InCall, ClaimAll, ClaimSome, Evict, EnterQueue, WaitOver, Retry, Thrown,
                RollBack, GiveUp, Fails, ResetMissing, IInv, CallKnown, TypeOK
  <2>1. CASE ClaimAll(p)
    <3>1. /\ Room(s, in_use[s]) >= call[p].rem /\ call[p].rem \in Nat
          /\ in_use' = [in_use EXCEPT ![s] = in_use[s] + call[p].rem]
          /\ UNCHANGED capacity
      BY <2>0, <2>1 DEF ClaimAll, Call
    <3>2. in_use[s] + call[p].rem <= in_use[s] \/ in_use[s] + call[p].rem <= capacity[s]
      BY <1>1, <2>0, <3>1 DEF Room
    <3>3. in_use[s] + call[p].rem \in Int
      BY <1>1, <2>0, <3>1
    <3> QED
      BY <1>4, <2>0, <3>1, <3>2, <3>3
  <2>2. CASE ClaimSome(p)
    <3>1. /\ in_use' = [in_use EXCEPT ![s] = in_use[s] + Room(s, in_use[s])]
          /\ UNCHANGED capacity
      BY <2>2 DEF ClaimSome
    <3> PICK n : n = in_use[s] + Room(s, in_use[s])
      OBVIOUS
    <3>2. n \in Int /\ (n <= in_use[s] \/ n <= capacity[s])
      BY <1>1, <2>0 DEF Room
    <3> QED
      BY <1>4, <2>0, <3>1, <3>2
  <2>3. ASSUME NEW v \in Procs, Evict(p, v)
        PROVE  in_use'[r] <= in_use[r] \/ in_use'[r] <= capacity'[r]
    <3> PICK left : left = in_use[s] - holding[s][v].amount
      OBVIOUS
    <3> PICK take : take = IF Room(s, left) < call[p].rem THEN Room(s, left)
                           ELSE call[p].rem
      OBVIOUS
    <3>1. in_use' = [in_use EXCEPT ![s] = left + take] /\ UNCHANGED capacity
      BY <2>3 DEF Evict
    <3>2. left \in Nat /\ left <= in_use[s] /\ call[p].rem \in Nat
      BY <1>1, <1>5, <2>0, HeldIsInUse DEF IInv, Call
    <3>3. left + take \in Int /\ (left + take <= in_use[s] \/ left + take <= capacity[s])
      BY <1>1, <2>0, <3>2 DEF Room
    <3> QED
      BY <1>4, <2>0, <3>1, <3>3
  <2>4. CASE RollBack(p)
    <3> PICK n : n = in_use[s] - (holding[s][p].amount - call[p].held0)
      OBVIOUS
    <3>1. in_use' = [in_use EXCEPT ![s] = n]
      BY <2>4 DEF RollBack
    <3>2. holding[s][p].amount > 0 /\ pc[p] = "settle"
      BY <2>4 DEF RollBack, Fails
    <3>3. holding[s][p].amount >= call[p].held0 /\ call[p].held0 \in Nat
      BY <1>5, <2>0, <3>2 DEF KInv, Kept, Call
    <3>4. n \in Int /\ n <= in_use[s]
      BY <1>1, <1>5, <2>0, <3>3
    <3> QED
      BY <1>3, <2>0, <3>1, <3>4
  <2>5. CASE GiveUp(p)
    <3>1. in_use' = [in_use EXCEPT ![s] = in_use[s] - holding[s][p].amount]
      BY <2>5 DEF GiveUp
    <3>2. /\ in_use[s] - holding[s][p].amount \in Int
          /\ in_use[s] - holding[s][p].amount <= in_use[s]
      BY <1>1, <1>5, <2>0
    <3> QED
      BY <1>3, <2>0, <3>1, <3>2
  <2>6. CASE EnterQueue(p) \/ WaitOver(p) \/ Retry(p) \/ Thrown(p) \/ ResetMissing(p)
    BY <1>2, <2>6 DEF EnterQueue, WaitOver, Retry, Thrown, ResetMissing
  <2> QED
    BY <1>6, <2>1, <2>2, <2>3, <2>4, <2>5, <2>6 DEF InCall
<1>7. ASSUME NEW p \in Procs, Calls(p) PROVE in_use'[r] <= in_use[r]
  <2>1. CASE \E s \in Resources, rq \in Requests[p] : Acquire(p, s, rq)
    BY <1>2, <2>1 DEF Acquire
  <2>2. CASE \E s \in Resources, n \in {rq.amount : rq \in Requests[p]} : Release(p, s, n)
    <3> PICK s \in Resources, n \in {rq.amount : rq \in Requests[p]} : Release(p, s, n)
      BY <2>2
    <3>1. n \in 1 .. holding[s][p].amount /\ in_use' = [in_use EXCEPT ![s] = in_use[s] - n]
      BY DEF Release
    <3>2. in_use[s] - n \in Int /\ in_use[s] - n <= in_use[s]
      BY <1>1, <1>5, <3>1
    <3> QED
      BY <1>3, <3>1, <3>2
  <2>3. CASE (\E s \in TimerSignals : TimerSet(p, s)) \/ TimersClear(p) \/ Hold(p)
             \/ Exit(p)
    BY <1>2, <2>3 DEF TimerSet, TimersClear, Hold, Exit, Ends
  <2> QED
    BY <1>7, <2>1, <2>2, <2>3 DEF Calls
<1>8. ASSUME NEW a \in Controllers, Controls(a) PROVE in_use' = in_use
  <2>1. CASE \E s \in Resources, n \in Capacities, mode \in {"finish", "preempt"} :
               SetCapacity(a, s, n, mode)
    BY <2>1 DEF SetCapacity
  <2>2. CASE CallFails(a) \/ \E x \in Procs, n \in Priorities : PrioritySet(a, x, n)
    BY <2>2 DEF PrioritySet, CallFails
  <2>3. ASSUME NEW x \in Procs, NEW s, Interrupt(a, x, s) \/ Resume(a, x, s)
        PROVE  in_use' = in_use
    BY <2>3 DEF Interrupt, Resume
  <2>4. CASE \E x \in Procs : Stop(a, x)
    BY <2>4 DEF Stop, Ends
  <2> QED
    BY <1>8, <2>1, <2>2, <2>3, <2>4 DEF Controls
<1>9. CASE EventLoop
  BY <1>2, <1>9 DEF EventLoop, Grant, Interrupted, Resumed, Tick, HookRuns, HookEnds
<1>10. CASE Tasks
  <2>1. ASSUME NEW v \in Procs, ShrinkEvict(v) PROVE in_use'[r] <= in_use[r]
    <3> PICK s \in Resources : s = shrinking
      BY <2>1 DEF ShrinkEvict, IInv, TypeOK
    <3>1. in_use' = [in_use EXCEPT ![s] = in_use[s] - holding[s][v].amount]
      BY <2>1 DEF ShrinkEvict
    <3>2. /\ in_use[s] - holding[s][v].amount \in Int
          /\ in_use[s] - holding[s][v].amount <= in_use[s]
      BY <1>1, <1>5
    <3> QED
      BY <1>3, <3>1, <3>2
  <2>2. CASE ShrinkDone
    BY <1>2, <2>2 DEF ShrinkDone
  <2>3. ASSUME NEW s \in Resources, Drop(s) PROVE in_use'[r] <= in_use[r]
    <3> PICK q \in Procs : q = dying
      BY <2>3 DEF Drop, IInv, TypeOK
    <3>1. in_use' = [in_use EXCEPT ![s] = in_use[s] - holding[s][q].amount]
      BY <2>3 DEF Drop
    <3>2. /\ in_use[s] - holding[s][q].amount \in Int
          /\ in_use[s] - holding[s][q].amount <= in_use[s]
      BY <1>1, <1>5
    <3> QED
      BY <1>3, <3>1, <3>2
  <2> QED
    BY <1>10, <2>1, <2>2, <2>3 DEF Tasks
<1>11. CASE UNCHANGED vars
  BY <1>2, <1>11 DEF vars
<1> QED
  BY <1>2, <1>6, <1>7, <1>8, <1>9, <1>10, <1>11 DEF Next

(* Capacities change in set_capacity only, which keeps the largest.         *)
LEMMA LargestKept ==
  ASSUME IInv, KInv, [Next]_vars, NEW r \in Resources
  PROVE  max_capacity[r] <= max_capacity'[r] /\ capacity'[r] <= max_capacity'[r]
<1>1. /\ capacity[r] \in Nat /\ max_capacity[r] \in Nat
      /\ capacity[r] <= max_capacity[r]
  BY DEF IInv, TypeOK, KInv, Within
<1>2. ASSUME NEW a, NEW s \in Resources, NEW n \in Capacities, NEW mode,
             SetCapacity(a, s, n, mode)
      PROVE  max_capacity[r] <= max_capacity'[r] /\ capacity'[r] <= max_capacity'[r]
  <2>1. n \in Nat
    BY CapacityAssumption
  <2>2. /\ capacity' = [capacity EXCEPT ![s] = n]
        /\ max_capacity' = [max_capacity EXCEPT ![s] = IF n > @ THEN n ELSE @]
    BY <1>2 DEF SetCapacity
  <2> QED
    BY <1>1, <2>1, <2>2 DEF IInv, TypeOK
<1>3. CASE UNCHANGED caps
  BY <1>1, <1>3
<1>4. ASSUME NEW p \in Procs, InCall(p) PROVE UNCHANGED caps
  BY <1>4 DEF InCall, ClaimAll, ClaimSome, Evict, EnterQueue, WaitOver, Retry, Thrown,
              RollBack, GiveUp, ResetMissing
<1>5. ASSUME NEW p \in Procs, Calls(p) PROVE UNCHANGED caps
  BY <1>5 DEF Calls, Acquire, Release, TimerSet, TimersClear, Hold, Exit, Ends
<1>6. ASSUME NEW a \in Controllers, Controls(a)
      PROVE  \/ UNCHANGED caps
             \/ \E s \in Resources, n \in Capacities, mode \in {"finish", "preempt"} :
                  SetCapacity(a, s, n, mode)
  BY <1>6 DEF Controls, CallFails, PrioritySet, Interrupt, Resume, Stop, Ends
<1>7. EventLoop => UNCHANGED caps
  BY DEF EventLoop, Grant, Interrupted, Resumed, Tick, HookRuns, HookEnds
<1>8. Tasks => UNCHANGED caps
  BY DEF Tasks, ShrinkEvict, ShrinkDone, Drop
<1>9. UNCHANGED vars => UNCHANGED caps
  BY DEF vars
<1> QED
  BY <1>2, <1>3, <1>4, <1>5, <1>6, <1>7, <1>8, <1>9 DEF Next

LEMMA UnitsBegin == Init => KInv
<1> SUFFICES ASSUME Init PROVE KInv
  OBVIOUS
<1>1. /\ \A p \in Procs : pc[p] = "hold"
      /\ \A r \in Resources : in_use[r] = 0 /\ capacity[r] = max_capacity[r]
                              /\ capacity[r] \in Nat
      /\ due = {Wakeup("hold", p, CMB_PROCESS_SUCCESS) : p \in Procs}
  BY CapacityAssumption DEF Init
<1>2. Loud
  BY <1>1 DEF Loud, Wakeup
<1> QED
  BY <1>1, <1>2 DEF KInv, Kept, Within

LEMMA UnitsKeep ==
  ASSUME LoudWakes, IInv, IInv', QInv, KInv, [Next]_vars
  PROVE  KInv'
<1>1. Loud'
  BY LoudKept DEF KInv, QInv
<1>2. ASSUME NEW p \in Procs, InCall(p) PROVE \A x \in Procs : Kept(x)'
  BY <1>2, ClaimKept, EvictKept, WaitKept, CallEndsKept DEF InCall
<1>3. ASSUME UNCHANGED vars PROVE \A x \in Procs : Kept(x)'
  <2>1. \A x \in Procs : Spared(x)
    BY <1>3 DEF vars, Spared
  <2> QED
    BY <2>1, SparedKept DEF KInv
<1>4. \A x \in Procs : Kept(x)'
  BY <1>2, <1>3, CallsKept, ControlsKept, EventLoopKept, TasksKept DEF Next
<1>5. Within'
  <2> SUFFICES ASSUME NEW r \in Resources
               PROVE  in_use'[r] <= max_capacity'[r] /\ capacity'[r] <= max_capacity'[r]
    BY DEF Within
  <2>1. /\ in_use[r] \in Nat /\ in_use'[r] \in Nat /\ capacity'[r] \in Nat
        /\ max_capacity[r] \in Nat /\ max_capacity'[r] \in Nat
        /\ in_use[r] <= max_capacity[r]
    BY DEF IInv, TypeOK, KInv, Within
  <2> QED
    BY <2>1, Growth, LargestKept
<1> QED
  BY <1>1, <1>4, <1>5 DEF KInv

LEMMA UnitsInvariant == LoudWakes => (Spec => [](IInv /\ QInv /\ KInv))
<1> SUFFICES ASSUME LoudWakes PROVE Spec => [](IInv /\ QInv /\ KInv)
  OBVIOUS
<1>1. IInv /\ QInv /\ KInv /\ [Next]_vars => (IInv /\ QInv /\ KInv)'
  BY Keeps, QueueKeeps, UnitsKeep
<1> QED
  BY Begins, QueueBegins, UnitsBegin, <1>1, PTL DEF Spec

(* No step takes units that the capacity does not offer, as long as no      *)
(* interrupt or bare resume carries the success signal: the rollback of a   *)
(* call then never restores a holding that was taken from it.               *)
THEOREM NothingIsOversold == LoudWakes => (Spec => NeverOversold)
<1> SUFFICES ASSUME LoudWakes PROVE Spec => NeverOversold
  OBVIOUS
<1>1. IInv /\ IInv' /\ QInv /\ KInv /\ [Next]_vars =>
        [\A r \in Resources : in_use'[r] > in_use[r] => in_use'[r] <= capacity'[r]]_vars
  <2> SUFFICES ASSUME IInv, IInv', QInv, KInv, [Next]_vars,
                      NEW r \in Resources, in_use'[r] > in_use[r]
               PROVE  in_use'[r] <= capacity'[r]
    OBVIOUS
  <2>1. in_use[r] \in Nat /\ in_use'[r] \in Nat
    BY DEF IInv, TypeOK
  <2> QED
    BY <2>1, Growth
<1> QED
  BY <1>1, UnitsInvariant, PTL DEF Spec, NeverOversold

(* "The usage never exceeds the largest capacity the resource has had",     *)
(* under the same condition.                                                *)
THEOREM UseStaysWithinLargest == LoudWakes => (Spec => []WithinLargest)
<1> SUFFICES ASSUME LoudWakes PROVE Spec => []WithinLargest
  OBVIOUS
<1>1. KInv => WithinLargest
  BY DEF KInv, Within, WithinLargest
<1> QED
  BY <1>1, UnitsInvariant, PTL

-----------------------------------------------------------------------------
(* Only lower ranks are evicted *)

Signals == IntrSignals \cup TimerSignals \cup ResumeSignals
Plain   == {CMB_PROCESS_SUCCESS, CMB_PROCESS_PREEMPTED}

(* Priorities stay as they are, or no call is ever rolled back: a rollback  *)
(* restores the rank a holding had before a priority_set.                   *)
SteadyRanks == Priorities = {} \/ Signals \subseteq Plain

(* A holding that tracks its process has its priority.                      *)
Tracks == \A r \in Resources, p \in Procs :
            LET h == holding[r][p]
            IN  h.amount > 0 /\ ~h.fixed => h.rank = prio[p]

(* So has the holding that a call would restore.                            *)
Noted == \A p \in Procs : call[p].held0 > 0 /\ ~call[p].fixed0 => call[p].rank0 = prio[p]

(* Nothing that is or was on its way rolls a call back.                     *)
Calm == /\ \A g \in later \cup due : g.sig \in Plain
        /\ \A p \in Procs : sig[p] \in Plain

TInv == /\ Tracks
        /\ Priorities = {} => Noted
        /\ Signals \subseteq Plain => Calm

(* What the signals of a step can be.                                       *)
SignalsFrom(S) ==
  /\ \A g \in later' \cup due' : g \in later \cup due \/ g.sig \in S
  /\ \A p \in Procs : sig'[p] \in {sig[p], CMB_PROCESS_SUCCESS} \cup {g.sig : g \in due}

LEMMA CalmKept ==
  ASSUME Signals \subseteq Plain, Calm, SignalsFrom(Plain \cup Signals)
  PROVE  Calm'
BY DEF Calm, SignalsFrom, Plain

LEMMA GrantsPlain ==
  ASSUME NEW r, NEW n, NEW cap, NEW q, NEW ev, Signal(r, n, cap, q, ev)
  PROVE  \A g \in due' : g \in ev \/ g.sig \in Plain
BY DEF Signal, GrantOf, Plain

LEMMA PreemptsPlain ==
  ASSUME NEW v
  PROVE  /\ \A g \in EventsAfterPreempt(v) : g \in due \/ g.sig \in Plain
         /\ WithoutTimers(v, later) \subseteq later
BY DEF EventsAfterPreempt, WithoutTimers, Wakeup, Plain

(* Whatever a step does, it invents no signals.                             *)
LEMMA NoNewSignals ==
  ASSUME IInv, EventsLive, [Next]_vars
  PROVE  SignalsFrom(Plain \cup Signals)
<1> DEFINE Known(g) == g \in later \cup due \/ g.sig \in Plain \cup Signals
           Same == \A p \in Procs : sig'[p] \in {sig[p], CMB_PROCESS_SUCCESS}
<1>0. ASSUME \A g \in later' \cup due' : Known(g), Same
      PROVE  SignalsFrom(Plain \cup Signals)
  BY <1>0 DEF SignalsFrom
<1>1. ASSUME NEW r, NEW n, NEW cap, NEW q, Signal(r, n, cap, q, due)
      PROVE  \A g \in due' : Known(g)
  BY <1>1, GrantsPlain
<1>2. UNCHANGED sig => Same
  OBVIOUS
<1>3. ASSUME NEW p \in Procs, Returns(p) PROVE Same
  BY <1>3 DEF Returns, IInv, TypeOK
<1>4. ASSUME NEW p \in Procs, InCall(p) PROVE SignalsFrom(Plain \cup Signals)
  <2>1. CASE ClaimAll(p) \/ RollBack(p)
    BY <1>0, <1>1, <1>3, <2>1 DEF ClaimAll, RollBack
  <2>2. CASE ClaimSome(p) \/ EnterQueue(p) \/ Retry(p) \/ ResetMissing(p)
    BY <1>0, <1>2, <2>2 DEF ClaimSome, EnterQueue, Retry, ResetMissing
  <2>3. CASE Thrown(p) \/ GiveUp(p)
    BY <1>0, <1>3, <2>3 DEF Thrown, GiveUp
  <2>4. CASE WaitOver(p)
    <3> PICK r, n, cap : Signal(r, n, cap, queue, due) \/ due' = due
      BY <2>4 DEF WaitOver
    <3> QED
      BY <1>0, <1>1, <1>2, <2>4 DEF WaitOver
  <2>5. ASSUME NEW v \in Procs, Evict(p, v) PROVE SignalsFrom(Plain \cup Signals)
    <3> PICK r, n, cap, q : \/ Signal(r, n, cap, q, EventsAfterPreempt(v))
                            \/ due' = EventsAfterPreempt(v)
      BY <2>5 DEF Evict
    <3>1. \A g \in due' : Known(g)
      BY GrantsPlain, PreemptsPlain
    <3>2. later' = WithoutTimers(v, later) /\ (Returns(p) \/ UNCHANGED sig)
      BY <2>5 DEF Evict
    <3> QED
      BY <1>0, <1>2, <1>3, <3>1, <3>2, PreemptsPlain
  <2> QED
    BY <1>4, <2>1, <2>2, <2>3, <2>4, <2>5 DEF InCall
<1>5. ASSUME NEW x \in Procs, Ends(x) PROVE SignalsFrom(Plain \cup Signals)
  <2>1. Same /\ later' \subseteq later /\ due' \subseteq due
    BY <1>5 DEF Ends, WithoutEvents, IInv, TypeOK
  <2> QED
    BY <1>0, <2>1
<1>6. ASSUME NEW p \in Procs, Calls(p) PROVE SignalsFrom(Plain \cup Signals)
  <2>1. CASE \E r \in Resources, rq \in Requests[p] : Acquire(p, r, rq)
    BY <1>0, <1>2, <2>1 DEF Acquire
  <2>2. CASE \E r \in Resources, n \in {rq.amount : rq \in Requests[p]} : Release(p, r, n)
    BY <1>0, <1>1, <1>2, <2>2 DEF Release
  <2>3. CASE (\E s \in TimerSignals : TimerSet(p, s)) \/ TimersClear(p) \/ Hold(p)
    <3>1. \A g \in later' \cup due' : Known(g)
      BY <2>3 DEF TimerSet, TimersClear, Hold, WithoutTimers, Wakeup, Plain, Signals
    <3> QED
      BY <1>0, <1>2, <2>3, <3>1 DEF TimerSet, TimersClear, Hold
  <2>4. CASE Exit(p)
    BY <1>5, <2>4 DEF Exit
  <2> QED
    BY <1>6, <2>1, <2>2, <2>3, <2>4 DEF Calls
<1>7. ASSUME NEW a \in Controllers, Controls(a) PROVE SignalsFrom(Plain \cup Signals)
  <2>1. CASE \E r \in Resources, n \in Capacities, mode \in {"finish", "preempt"} :
               SetCapacity(a, r, n, mode)
    BY <1>0, <1>1, <1>2, <2>1 DEF SetCapacity
  <2>2. CASE CallFails(a) \/ \E x \in Procs, n \in Priorities : PrioritySet(a, x, n)
    BY <1>0, <1>2, <2>2 DEF PrioritySet, CallFails
  <2>3. ASSUME NEW x \in Procs, NEW s \in IntrSignals \cup ResumeSignals,
               Interrupt(a, x, s) \/ Resume(a, x, s)
        PROVE  SignalsFrom(Plain \cup Signals)
    <3>1. \A g \in due' : Known(g)
      BY <2>3 DEF Interrupt, Resume, Wakeup, Signals
    <3> QED
      BY <1>0, <1>2, <2>3, <3>1 DEF Interrupt, Resume
  <2>4. CASE \E x \in Procs : Stop(a, x)
    BY <1>5, <2>4 DEF Stop
  <2> HIDE DEF Known, Same
  <2> QED
    BY <1>7, <2>1, <2>2, <2>3, <2>4 DEF Controls
<1>8. CASE EventLoop
  <2>1. ASSUME NEW g \in due, Grant(g) \/ Interrupted(g) \/ Resumed(g)
        PROVE  SignalsFrom(Plain \cup Signals)
    <3>1. later' \subseteq later /\ due' \subseteq due
      BY <2>1 DEF Grant, Interrupted, Resumed, WithoutTimers, WithoutHold
    <3>2. Dispatch /\ (Resumes(g.proc, g.sig) \/ UNCHANGED sig)
      BY <2>1 DEF Grant, Interrupted, Resumed
    <3>3. \A p \in Procs : sig'[p] \in {sig[p], g.sig}
      BY <3>2 DEF Resumes, IInv, TypeOK
    <3> QED
      BY <3>1, <3>3 DEF SignalsFrom
  <2>2. CASE (\E S \in SUBSET later : Tick(S)) \/ HookRuns \/ HookEnds
    BY <1>0, <1>2, <2>2 DEF Tick, HookRuns, HookEnds
  <2> QED
    BY <1>8, <2>1, <2>2 DEF EventLoop
<1>9. CASE Tasks
  <2>1. ASSUME NEW v \in Procs, ShrinkEvict(v) PROVE SignalsFrom(Plain \cup Signals)
    BY <1>0, <1>2, <2>1, PreemptsPlain DEF ShrinkEvict
  <2>2. CASE ShrinkDone
    BY <1>0, <1>1, <1>2, <2>2 DEF ShrinkDone
  <2>3. ASSUME NEW r \in Resources, Drop(r) PROVE SignalsFrom(Plain \cup Signals)
    <3> PICK n, cap : Signal(r, n, cap, queue, due) \/ due' = due
      BY <2>3 DEF Drop
    <3> QED
      BY <1>0, <1>1, <1>2, <2>3 DEF Drop
  <2> QED
    BY <1>9, <2>1, <2>2, <2>3 DEF Tasks
<1>10. CASE UNCHANGED vars
  BY <1>0, <1>2, <1>10 DEF vars
<1> QED
  BY <1>4, <1>6, <1>7, <1>8, <1>9, <1>10 DEF Next

LEMMA OneTracks ==
  ASSUME IInv, Tracks, prio' = prio, NEW r \in Resources, NEW p \in Procs, NEW h,
         holding' = [holding EXCEPT ![r][p] = h],
         h.amount > 0 /\ ~h.fixed => h.rank = prio[p]
  PROVE  Tracks'
<1>1. /\ holding'[r][p] = h
      /\ \A s \in Resources, q \in Procs :
           s # r \/ q # p => holding'[s][q] = holding[s][q]
  BY DEF IInv, TypeOK
<1> QED
  BY <1>1 DEF Tracks

(* A holding lost leaves nothing to rank.                                   *)
LEMMA NoneTracks ==
  ASSUME IInv, Tracks, prio' = prio, NEW r \in Resources, NEW p \in Procs,
         holding' = [holding EXCEPT ![r][p] = NoHolding]
  PROVE  Tracks'
<1> PICK h : h = NoHolding
  OBVIOUS
<1>1. holding' = [holding EXCEPT ![r][p] = h]
  OBVIOUS
<1>2. ~(h.amount > 0)
  BY DEF NoHolding
<1> QED
  BY <1>1, <1>2, OneTracks

LEMMA SameTracks ==
  ASSUME Tracks, UNCHANGED <<prio, holding>>
  PROVE  Tracks'
BY DEF Tracks

(* Units taken join a holding or begin one at the rank of the request.      *)
LEMMA CreditedTracks ==
  ASSUME IInv, Tracks, NEW r \in Resources, NEW p \in Procs, NEW n \in Nat
  PROVE  LET h == Credited(p, r, n, call[p])
         IN  h.amount > 0 /\ ~h.fixed => h.rank = prio[p]
<1>1. holding[r][p] \in Holding
  BY DEF IInv, TypeOK
<1> QED
  BY <1>1 DEF Tracks, Credited, request_rank, Holding

LEMMA TracksKept ==
  ASSUME IInv, QInv, Tracks, Priorities = {} => Noted, Signals \subseteq Plain => Calm,
         SteadyRanks, [Next]_vars
  PROVE  Tracks'
<1>0. NoHolding.amount = 0
  BY DEF NoHolding
<1>1. ASSUME NEW p \in Procs, InCall(p) PROVE Tracks'
  <2> PICK r : r = call[p].res
    OBVIOUS
  <2>0. /\ pc[p] \in CallSteps /\ r \in Resources /\ call[p] \in Call
        /\ holding[r][p] \in Holding /\ prio' = prio
    BY <1>1 DEF InCall, ClaimAll, ClaimSome, Evict, EnterQueue, WaitOver, Retry, Thrown,
                RollBack, GiveUp, Fails, ResetMissing, IInv, CallKnown, TypeOK
  <2>1. CASE ClaimAll(p) \/ ClaimSome(p)
    <3>1. PICK n \in Nat : holding' = [holding EXCEPT ![r][p] = Credited(p, r, n, call[p])]
      <4>1. call[p].rem \in Nat /\ Room(r, in_use[r]) \in Nat
        BY <2>0, RoomTyped DEF Call, IInv, TypeOK
      <4> QED
        BY <2>1, <4>1 DEF ClaimAll, ClaimSome
    <3> PICK h : h = Credited(p, r, n, call[p])
      OBVIOUS
    <3>2. h.amount > 0 /\ ~h.fixed => h.rank = prio[p]
      BY <2>0, CreditedTracks
    <3>3. holding' = [holding EXCEPT ![r][p] = h]
      BY <3>1
    <3> QED
      BY <2>0, <3>2, <3>3, OneTracks
  <2>2. ASSUME NEW v \in Procs, Evict(p, v) PROVE Tracks'
    <3>1. PICK n \in Nat :
            holding' = [holding EXCEPT ![r][v] = NoHolding,
                                       ![r][p] = Credited(p, r, n, call[p])]
      <4> PICK left : left = in_use[r] - holding[r][v].amount
        OBVIOUS
      <4>1. left \in Nat
        BY <2>0, HeldIsInUse DEF IInv, TypeOK, Holding
      <4>2. Room(r, left) \in Nat /\ call[p].rem \in Nat
        BY <2>0, <4>1, RoomTyped DEF IInv, Call
      <4> QED
        BY <2>2, <4>2 DEF Evict
    <3>2. /\ \A s \in Resources, q \in Procs :
               (s # r \/ q \notin {p, v}) => holding'[s][q] = holding[s][q]
          /\ holding'[r][p] = Credited(p, r, n, call[p])
          /\ p # v => holding'[r][v] = NoHolding
      BY <2>0, <3>1 DEF IInv, TypeOK
    <3>3. holding'[r][p].amount > 0 /\ ~holding'[r][p].fixed => holding'[r][p].rank = prio[p]
      BY <2>0, <3>2, CreditedTracks
    <3> QED
      BY <1>0, <2>0, <3>2, <3>3 DEF Tracks
  <2>3. CASE RollBack(p)
    <3>1. CASE Priorities = {}
      <4> PICK h : h = [holding[r][p] EXCEPT !.amount = call[p].held0,
                                             !.rank = call[p].rank0,
                                             !.fixed = call[p].fixed0]
        OBVIOUS
      <4>1. holding' = [holding EXCEPT ![r][p] = h]
        BY <2>3 DEF RollBack
      <4>2. h.rank = call[p].rank0 /\ h.fixed = call[p].fixed0
        BY <2>0 DEF Holding
      <4>3. call[p].held0 > 0
        BY <2>3 DEF RollBack
      <4>4. ~h.fixed => h.rank = prio[p]
        BY <3>1, <4>2, <4>3 DEF Noted
      <4> QED
        BY <2>0, <4>1, <4>4, OneTracks
    <3>2. CASE Signals \subseteq Plain
      BY <2>3, <3>2 DEF RollBack, Fails, Calm, Plain
    <3> QED
      BY <3>1, <3>2 DEF SteadyRanks
  <2>4. CASE GiveUp(p)
    <3>1. holding' = [holding EXCEPT ![r][p] = NoHolding]
      BY <2>4 DEF GiveUp
    <3> QED
      BY <2>0, <3>1, NoneTracks
  <2>5. CASE EnterQueue(p) \/ WaitOver(p) \/ Retry(p) \/ Thrown(p) \/ ResetMissing(p)
    BY <2>5, SameTracks DEF EnterQueue, WaitOver, Retry, Thrown, ResetMissing
  <2> QED
    BY <1>1, <2>1, <2>2, <2>3, <2>4, <2>5 DEF InCall
<1>2. ASSUME NEW p \in Procs, Calls(p) PROVE Tracks'
  <2>1. ASSUME NEW r \in Resources, NEW rq \in Requests[p], Acquire(p, r, rq)
        PROVE  Tracks'
    <3>1. PICK c : /\ c.fixed = rq.fixed /\ prio' = prio
                   /\ holding' = IF holding[r][p].amount = 0 THEN holding
                                 ELSE [holding EXCEPT ![r][p] =
                                         [@ EXCEPT !.rank = request_rank(p, c),
                                                   !.fixed = rq.fixed]]
      BY <2>1 DEF Acquire
    <3> PICK h : h = [holding[r][p] EXCEPT !.rank = request_rank(p, c), !.fixed = rq.fixed]
      OBVIOUS
    <3>2. h.rank = request_rank(p, c) /\ h.fixed = rq.fixed
      BY DEF IInv, TypeOK, Holding
    <3>3. ~h.fixed => h.rank = prio[p]
      BY <3>1, <3>2 DEF request_rank
    <3> QED
      BY <3>1, <3>3, OneTracks, SameTracks
  <2>2. ASSUME NEW r \in Resources, NEW n, Release(p, r, n)
        PROVE  Tracks'
    <3> PICK h : h = IF holding[r][p].amount - n = 0 THEN NoHolding
                     ELSE [holding[r][p] EXCEPT !.amount = holding[r][p].amount - n]
      OBVIOUS
    <3>1. holding' = [holding EXCEPT ![r][p] = h] /\ n \in 1 .. holding[r][p].amount
          /\ prio' = prio
      BY <2>2 DEF Release
    <3>2. h.amount > 0 /\ ~h.fixed => h.rank = prio[p]
      BY <1>0, <3>1 DEF IInv, TypeOK, Holding, Tracks
    <3> QED
      BY <3>1, <3>2, OneTracks
  <2>3. CASE (\E s \in TimerSignals : TimerSet(p, s)) \/ TimersClear(p) \/ Hold(p)
             \/ Exit(p)
    BY <2>3, SameTracks DEF TimerSet, TimersClear, Hold, Exit, Ends
  <2> QED
    BY <1>2, <2>1, <2>2, <2>3 DEF Calls
<1>3. ASSUME NEW a \in Controllers, Controls(a) PROVE Tracks'
  <2>1. ASSUME NEW q \in Procs, NEW n \in Priorities, PrioritySet(a, q, n)
        PROVE  Tracks'
    <3>1. /\ prio' = [prio EXCEPT ![q] = n]
          /\ holding' = [r \in Resources |->
               IF r \in tags[q] /\ holding[r][q].amount > 0 /\ ~holding[r][q].fixed
               THEN [holding[r] EXCEPT ![q].rank = n] ELSE holding[r]]
      BY <2>1 DEF PrioritySet
    <3> SUFFICES ASSUME NEW r \in Resources, NEW p \in Procs,
                        holding'[r][p].amount > 0, ~holding'[r][p].fixed
                 PROVE  holding'[r][p].rank = prio'[p]
      BY DEF Tracks
    <3>2. holding[r] \in [Procs -> Holding] /\ prio \in [Procs -> Int]
      BY DEF IInv, TypeOK
    <3>3. CASE p # q
      <4>1. holding'[r][p] = holding[r][p] /\ prio'[p] = prio[p]
        BY <3>1, <3>2, <3>3
      <4> QED
        BY <4>1 DEF Tracks
    <3>4. CASE p = q
      <4>1. holding[r][q].amount > 0 /\ ~holding[r][q].fixed
        BY <3>1, <3>2, <3>4 DEF Holding
      <4>2. r \in tags[q]
        BY <4>1 DEF IInv, TagsFaithful
      <4> QED
        BY <3>1, <3>2, <3>4, <4>1, <4>2 DEF Holding
    <3> QED
      BY <3>3, <3>4
  <2>2. ASSUME NEW x, NEW s, NEW n, NEW mode,
               \/ SetCapacity(a, s, n, mode) \/ CallFails(a) \/ Interrupt(a, x, s)
               \/ Resume(a, x, s) \/ Stop(a, x)
        PROVE  Tracks'
    BY <2>2, SameTracks DEF SetCapacity, CallFails, Interrupt, Resume, Stop, Ends
  <2> QED
    BY <1>3, <2>1, <2>2 DEF Controls
<1>4. CASE EventLoop
  BY <1>4, SameTracks
  DEF EventLoop, Grant, Interrupted, Resumed, Tick, HookRuns, HookEnds
<1>5. CASE Tasks
  <2>1. ASSUME NEW v \in Procs, ShrinkEvict(v) PROVE Tracks'
    <3> PICK r \in Resources : r = shrinking
      BY <2>1 DEF ShrinkEvict, IInv, TypeOK
    <3>1. holding' = [holding EXCEPT ![r][v] = NoHolding] /\ prio' = prio
      BY <2>1 DEF ShrinkEvict
    <3> QED
      BY <3>1, NoneTracks
  <2>2. CASE ShrinkDone
    BY <2>2, SameTracks DEF ShrinkDone
  <2>3. ASSUME NEW r \in Resources, Drop(r) PROVE Tracks'
    <3> PICK q \in Procs : q = dying
      BY <2>3 DEF Drop, IInv, TypeOK
    <3>1. holding' = [holding EXCEPT ![r][q] = NoHolding] /\ prio' = prio
      BY <2>3 DEF Drop
    <3> QED
      BY <3>1, NoneTracks
  <2> QED
    BY <1>5, <2>1, <2>2, <2>3 DEF Tasks
<1>6. CASE UNCHANGED vars
  BY <1>6, SameTracks DEF vars
<1> QED
  BY <1>1, <1>2, <1>3, <1>4, <1>5, <1>6 DEF Next

(* A call notes the rank of a holding when it begins, and priorities stay.  *)
LEMMA NotedKept ==
  ASSUME IInv, Tracks, Noted, Priorities = {}, [Next]_vars
  PROVE  Noted'
<1>1. ASSUME UNCHANGED <<prio, call>> PROVE Noted'
  BY <1>1 DEF Noted
<1>2. ASSUME NEW p \in Procs, NEW c, call' = [call EXCEPT ![p] = c], prio' = prio,
             c.held0 > 0 /\ ~c.fixed0 => c.rank0 = prio[p]
      PROVE  Noted'
  BY <1>2 DEF Noted, IInv, TypeOK
<1>3. ASSUME NEW p \in Procs, Returns(p) \/ Ends(p), prio' = prio PROVE Noted'
  <2> PICK c : c = NoCall
    OBVIOUS
  <2>1. call' = [call EXCEPT ![p] = c] /\ ~(c.held0 > 0)
    BY <1>3 DEF Returns, Ends, NoCall
  <2> QED
    BY <1>2, <1>3, <2>1
<1>4. ASSUME NEW p \in Procs, NEW c, call' = [call EXCEPT ![p] = c], prio' = prio,
             c.held0 = call[p].held0, c.fixed0 = call[p].fixed0, c.rank0 = call[p].rank0
      PROVE  Noted'
  BY <1>2, <1>4 DEF Noted
<1>5. ASSUME NEW p \in Procs, InCall(p) PROVE Noted'
  <2>0. call[p] \in Call
    BY DEF IInv, TypeOK
  <2>1. CASE ClaimAll(p) \/ Thrown(p) \/ RollBack(p) \/ GiveUp(p)
    BY <1>3, <2>1 DEF ClaimAll, Thrown, RollBack, GiveUp
  <2>2. CASE ClaimSome(p)
    <3> PICK n : call' = [call EXCEPT ![p].rem = n] /\ prio' = prio
      BY <2>2 DEF ClaimSome
    <3> QED
      BY <1>4, <2>0 DEF Call
  <2>3. CASE EnterQueue(p)
    <3> PICK k : call' = [call EXCEPT ![p].key = k] /\ prio' = prio
      BY <2>3 DEF EnterQueue
    <3> QED
      BY <1>4, <2>0 DEF Call
  <2>4. ASSUME NEW v \in Procs, Evict(p, v) PROVE Noted'
    <3>1. CASE Returns(p)
      BY <1>3, <2>4, <3>1 DEF Evict
    <3>2. CASE ~Returns(p)
      <4> PICK n : call' = [call EXCEPT ![p].rem = n] /\ prio' = prio
        BY <2>4, <3>2 DEF Evict
      <4> QED
        BY <1>4, <2>0 DEF Call
    <3> QED
      BY <3>1, <3>2
  <2>5. CASE WaitOver(p) \/ Retry(p) \/ ResetMissing(p)
    BY <1>1, <2>5 DEF WaitOver, Retry, ResetMissing
  <2> QED
    BY <1>5, <2>1, <2>2, <2>3, <2>4, <2>5 DEF InCall
<1>6. ASSUME NEW p \in Procs, Calls(p) PROVE Noted'
  <2>1. ASSUME NEW r \in Resources, NEW rq \in Requests[p], Acquire(p, r, rq)
        PROVE  Noted'
    <3> PICK h : h = holding[r][p]
      OBVIOUS
    <3> PICK c : c = [res |-> r, preempt |-> rq.preempt, fixed |-> rq.fixed,
                      rank |-> rq.rank, amount |-> rq.amount, rem |-> rq.amount,
                      key |-> NoKey,
                      held0 |-> h.amount, rank0 |-> h.rank, fixed0 |-> h.fixed]
      OBVIOUS
    <3>1. call' = [call EXCEPT ![p] = c] /\ prio' = prio
      BY <2>1 DEF Acquire
    <3>2. c.held0 = h.amount /\ c.rank0 = h.rank /\ c.fixed0 = h.fixed
      OBVIOUS
    <3>3. c.held0 > 0 /\ ~c.fixed0 => c.rank0 = prio[p]
      BY <3>2 DEF Tracks
    <3> QED
      BY <1>2, <3>1, <3>3
  <2>2. CASE \E r \in Resources, n \in {rq.amount : rq \in Requests[p]} : Release(p, r, n)
    BY <1>1, <2>2 DEF Release
  <2>3. CASE (\E s \in TimerSignals : TimerSet(p, s)) \/ TimersClear(p) \/ Hold(p)
    BY <1>1, <2>3 DEF TimerSet, TimersClear, Hold
  <2>4. CASE Exit(p)
    BY <1>3, <2>4 DEF Exit, Ends
  <2> QED
    BY <1>6, <2>1, <2>2, <2>3, <2>4 DEF Calls
<1>7. ASSUME NEW a \in Controllers, Controls(a) PROVE Noted'
  <2>1. ASSUME NEW x, NEW s, NEW n, NEW mode,
               \/ SetCapacity(a, s, n, mode) \/ CallFails(a) \/ Interrupt(a, x, s)
               \/ Resume(a, x, s)
        PROVE  Noted'
    BY <1>1, <2>1 DEF SetCapacity, CallFails, Interrupt, Resume
  <2>2. ASSUME NEW x \in Procs, Stop(a, x) PROVE Noted'
    BY <1>3, <2>2 DEF Stop, Ends
  <2> QED
    BY <1>7, <2>1, <2>2 DEF Controls
<1>8. EventLoop => UNCHANGED <<prio, call>>
  BY DEF EventLoop, Grant, Interrupted, Resumed, Tick, HookRuns, HookEnds
<1>9. Tasks => UNCHANGED <<prio, call>>
  BY DEF Tasks, ShrinkEvict, ShrinkDone, Drop
<1>10. UNCHANGED vars => UNCHANGED <<prio, call>>
  BY DEF vars
<1> QED
  BY <1>1, <1>5, <1>6, <1>7, <1>8, <1>9, <1>10 DEF Next

LEMMA RanksBegin == Init => TInv
<1> SUFFICES ASSUME Init PROVE TInv
  OBVIOUS
<1>1. /\ \A r \in Resources, p \in Procs : holding[r][p].amount = 0
      /\ \A p \in Procs : call[p].held0 = 0 /\ sig[p] = CMB_PROCESS_SUCCESS
      /\ later = {} /\ due = {Wakeup("hold", p, CMB_PROCESS_SUCCESS) : p \in Procs}
  BY DEF Init, NoHolding, NoCall
<1>2. \A g \in due : g.sig = CMB_PROCESS_SUCCESS
  BY <1>1 DEF Wakeup
<1> QED
  BY <1>1, <1>2 DEF TInv, Tracks, Noted, Calm, Plain

LEMMA RanksInvariant == SteadyRanks => (Spec => [](IInv /\ QInv /\ TInv))
<1> SUFFICES ASSUME SteadyRanks PROVE Spec => [](IInv /\ QInv /\ TInv)
  OBVIOUS
<1>1. IInv /\ QInv /\ TInv /\ [Next]_vars => (IInv /\ QInv /\ TInv)'
  <2> SUFFICES ASSUME IInv, QInv, TInv, [Next]_vars
               PROVE  (IInv /\ QInv)' /\ TInv'
    OBVIOUS
  <2>1. (IInv /\ QInv)'
    BY Keeps, QueueKeeps
  <2>2. Tracks'
    BY TracksKept DEF TInv
  <2>3. Priorities = {} => Noted'
    BY NotedKept DEF TInv
  <2>4. Signals \subseteq Plain => Calm'
    BY CalmKept, NoNewSignals DEF TInv, QInv
  <2> QED
    BY <2>1, <2>2, <2>3, <2>4 DEF TInv
<1> QED
  BY Begins, QueueBegins, RanksBegin, <1>1, PTL DEF Spec

(* Inside of the preemption loop only its evictions take from holdings.     *)
LEMMA OnlyEvictions ==
  ASSUME IInv, [Next]_vars, NEW p \in Procs, Inside(p, "evict"),
         NEW r \in Resources, NEW v \in Procs \ {p}, r = call[p].res,
         holding[r][v].amount > 0, holding'[r][v].amount = 0
  PROVE  Evict(p, v)
<1>1. holding' # holding
  OBVIOUS
<1>2. p # Hook /\ p # NoProc
  BY NamesAssumption
<1>3. ASSUME NEW x \in Procs, InCall(x) PROVE Evict(p, v)
  <2>1. x = p
    BY <1>3 DEF InCall, ClaimAll, ClaimSome, Evict, EnterQueue, WaitOver, Retry, Thrown,
                RollBack, GiveUp, Fails, ResetMissing
  <2>2. PICK w \in Procs : Evict(p, w) \/ ClaimSome(p) \/ EnterQueue(p)
    BY <1>3, <2>1 DEF InCall, ClaimAll, ClaimSome, EnterQueue, WaitOver, Retry, Thrown,
                      RollBack, GiveUp, Fails, ResetMissing
  <2>3. Evict(p, w)
    BY <1>1, <2>2 DEF ClaimSome, EnterQueue
  <2>4. PICK h : holding' = [holding EXCEPT ![r][w] = NoHolding, ![r][p] = h]
    BY <2>3 DEF Evict
  <2>5. v = w
    BY <2>4 DEF IInv, TypeOK
  <2> QED
    BY <2>3, <2>5
<1>4. ASSUME NEW x \in Procs, Calls(x) PROVE FALSE
  BY <1>4 DEF Calls, Acquire, Release, TimerSet, TimersClear, Hold, Exit, Acts
<1>5. ASSUME NEW a \in Controllers, Controls(a) PROVE FALSE
  BY <1>2, <1>5 DEF Controls, CallFails, SetCapacity, PrioritySet, Interrupt, Resume, Stop, Acts
<1>6. EventLoop => FALSE
  BY <1>1, <1>2 DEF EventLoop, Grant, Interrupted, Resumed, Tick, HookRuns, HookEnds
<1>7. Tasks => FALSE
  BY <1>1, <1>2, NamesAssumption DEF Tasks, ShrinkEvict, ShrinkDone, Drop, Idle
<1>8. UNCHANGED vars => FALSE
  BY <1>1 DEF vars
<1> QED
  BY <1>3, <1>4, <1>5, <1>6, <1>7, <1>8 DEF Next

(* A preempting call takes units only from holders of lower rank, and of a  *)
(* holding that tracks its process that rank is the priority it has now, as *)
(* long as priorities are not set or no call is rolled back.                *)
THEOREM OnlyLowerLose == SteadyRanks => (Spec => OnlyLowerEvicted)
<1> SUFFICES ASSUME SteadyRanks PROVE Spec => OnlyLowerEvicted
  OBVIOUS
<1>1. IInv /\ QInv /\ TInv /\ [Next]_vars =>
        [\A p \in Procs : Inside(p, "evict") =>
           \A v \in Procs \ {p} :
             LET r == call[p].res
                 h == holding[r][v]
             IN  h.amount > 0 /\ holding'[r][v].amount = 0
                 => (IF h.fixed THEN h.rank ELSE prio[v]) < request_rank(p, call[p])]_vars
  <2> SUFFICES ASSUME IInv, TInv, [Next]_vars, NEW p \in Procs, Inside(p, "evict"),
                      NEW v \in Procs \ {p}, NEW r, r = call[p].res,
                      holding[r][v].amount > 0, holding'[r][v].amount = 0
               PROVE  (IF holding[r][v].fixed THEN holding[r][v].rank ELSE prio[v])
                        < request_rank(p, call[p])
    OBVIOUS
  <2>1. r \in Resources
    BY DEF IInv, CallKnown
  <2>2. holding[r][v].rank < request_rank(p, call[p])
    BY <2>1, OnlyEvictions DEF Evict, Outranked
  <2> QED
    BY <2>1, <2>2 DEF TInv, Tracks
<1> QED
  BY <1>1, RanksInvariant, PTL DEF Spec, OnlyLowerEvicted

-----------------------------------------------------------------------------
(* Nobody waits beside free units *)

(* No call takes part of what it wants and then gives it up: that leaves    *)
(* units without a signal.  No wakeup carries the signal that wait_placed   *)
(* does not pass on, and a stop of one who was granted is passed on.        *)
OneUnit  == \A p \in Procs : \A rq \in Requests[p] : rq.amount = 1
LoudEnds == /\ OneUnit \/ Signals \subseteq Plain
            /\ CMB_PROCESS_CANCELLED \notin Signals
            /\ StopPassesOn \/ MayStop = {}

(* Signals are those of model code, of grants, holds and preemptions.       *)
Heard == /\ \A g \in later \cup due : g.sig \in Plain \cup Signals
         /\ \A p \in Procs : sig[p] \in Plain \cup Signals

(* A preempting call took all the room before it goes on to throw out.      *)
Full(p) == pc[p] = "evict" => in_use[call[p].res] >= capacity[call[p].res]

(* A call of one unit has taken nothing before it is done.                  *)
Untaken(p) == pc[p] \in CallSteps =>
                /\ call[p].rem = 1
                /\ (call[p].held0 = 0 => holding[call[p].res][p].amount = 0)

(* Process p is about to look at the room of r, or to pass on the chance.   *)
Opportunity(p, r) ==
  /\ call[p].res = r
  /\ \/ /\ pc[p] \in {"wait", "woken"} /\ r \in tags[p]
        /\ \A e \in queue[r] : e.proc # p
     \/ pc[p] = "settle" /\ sig[p] = CMB_PROCESS_SUCCESS
     \/ pc[p] = "claim"

(* A process that ended, or a capacity that shrinks, will signal r.         *)
Dropping(r) == StopPassesOn /\ dying # NoProc /\ r \in tags[dying]
Handled(r)  == shrinking = r \/ Dropping(r) \/ \E p \in Procs : Opportunity(p, r)

Answered(r) == in_use[r] >= capacity[r] \/ queue[r] = {} \/ Handled(r)

(* While units are dropped or taken back, no call is under way.             *)
Busy   == {"claim", "evict", "woken", "settle"}
Paused == /\ ~Idle => \A p \in Procs : pc[p] \notin Busy
          /\ shrinking # NoRes => current # NoProc

SInv == /\ Heard /\ Paused
        /\ \A p \in Procs : Full(p) /\ (OneUnit => Untaken(p))
        /\ \A r \in Resources : Answered(r)

-----------------------------------------------------------------------------
(* The front of a room *)

(* Two entries of a room are of two processes and made at two times.        *)
LEMMA EntriesApart ==
  ASSUME IInv, Requesting, NEW r \in Resources, NEW e \in queue[r], NEW f \in queue[r],
         e.proc = f.proc \/ e.key[1] = f.key[1]
  PROVE  e = f
<1>1. e \in Entry /\ f \in Entry
  BY DEF IInv, TypeOK
<1>2. e.proc \in Procs /\ f.proc \in Procs
  BY <1>1 DEF Entry
<1>3. /\ e.key = call[e.proc].key /\ f.key = call[f.proc].key
      /\ e.key # NoKey /\ f.key # NoKey
      /\ e.rank = request_rank(e.proc, call[e.proc])
      /\ f.rank = request_rank(f.proc, call[f.proc])
  BY DEF Requesting, QueueFaithful, EntriesTagged
<1>4. e.proc = f.proc
  BY <1>2, <1>3 DEF Requesting, KeysOwn
<1>5. e.rank = f.rank /\ e.key = f.key
  BY <1>3, <1>4
<1>6. /\ e = [proc |-> e.proc, key |-> e.key, rank |-> e.rank]
      /\ f = [proc |-> f.proc, key |-> f.key, rank |-> f.rank]
  BY <1>1 DEF Entry
<1> QED
  BY <1>4, <1>5, <1>6

(* A room with an entry has one in front.                                   *)
LEMMA FrontOccurs ==
  ASSUME IInv, Requesting, NEW r \in Resources, NEW q \in SUBSET queue[r], q # {}
  PROVE  Front(q) # {}
<1>1. \A e \in q : e \in Entry /\ e.proc \in Procs /\ e.rank \in Int /\ e.key[1] \in Nat
  BY DEF IInv, TypeOK, Entry, Key
<1>2. IsFiniteSet(q)
  <2> DEFINE f == [e \in q |-> e.proc]
  <2>1. f \in [q -> Procs]
    BY <1>1
  <2>2. \A e, g \in q : f[e] = f[g] => e = g
    BY EntriesApart
  <2>3. f \in Injection(q, Procs)
    BY <2>1, <2>2 DEF Injection, IsInjective
  <2> QED
    BY <2>3, FS_Injection, ProcsAssumption
<1> DEFINE before(e) == {f \in q : Ahead(f, e)}
           n == Cardinality(q)
           place == [e \in q |-> Cardinality(before(e))]
<1>3. \A e, f \in q : e # f => Ahead(e, f) \/ Ahead(f, e)
  <2> SUFFICES ASSUME NEW e \in q, NEW f \in q, e # f PROVE Ahead(e, f) \/ Ahead(f, e)
    OBVIOUS
  <2>1. e.key[1] # f.key[1]
    BY EntriesApart
  <2> QED
    BY <1>1, <2>1 DEF Ahead
<1>4. n \in Nat /\ n # 0
  BY <1>2, FS_CardinalityType, FS_EmptySet
<1>5. \A e \in q : /\ IsFiniteSet(before(e)) /\ e \notin before(e)
                   /\ Cardinality(before(e)) \in 0 .. n - 1
  <2> TAKE e \in q
  <2>1. before(e) \subseteq q \ {e} /\ e \notin before(e)
    BY <1>1 DEF Ahead
  <2>2. IsFiniteSet(q \ {e}) /\ Cardinality(q \ {e}) = n - 1
    BY <1>2, FS_RemoveElement
  <2> QED
    BY <1>4, <2>1, <2>2, FS_Subset, FS_CardinalityType
<1>6. \A e, f \in q : Ahead(e, f) => Cardinality(before(e)) < Cardinality(before(f))
  <2> SUFFICES ASSUME NEW e \in q, NEW f \in q, Ahead(e, f)
               PROVE  Cardinality(before(e)) < Cardinality(before(f))
    OBVIOUS
  <2>1. before(e) \cup {e} \subseteq before(f)
    BY <1>1 DEF Ahead
  <2>2. /\ Cardinality(before(e) \cup {e}) = Cardinality(before(e)) + 1
        /\ IsFiniteSet(before(f))
    BY <1>5, FS_AddElement
  <2> QED
    BY <1>5, <2>1, <2>2, FS_Subset
<1>7. place \in Injection(q, 0 .. n - 1)
  <2>1. place \in [q -> 0 .. n - 1]
    BY <1>5
  <2>2. \A e, f \in q : place[e] = place[f] => e = f
    <3> SUFFICES ASSUME NEW e \in q, NEW f \in q, e # f PROVE place[e] # place[f]
      OBVIOUS
    <3>1. Cardinality(before(e)) \in Nat /\ Cardinality(before(f)) \in Nat
      BY <1>4, <1>5
    <3>2. /\ Ahead(e, f) => Cardinality(before(e)) < Cardinality(before(f))
          /\ Ahead(f, e) => Cardinality(before(f)) < Cardinality(before(e))
      BY <1>6
    <3>3. Ahead(e, f) \/ Ahead(f, e)
      BY <1>3
    <3> HIDE DEF before
    <3> QED
      BY <3>1, <3>2, <3>3
  <2> QED
    BY <2>1, <2>2 DEF Injection, IsInjective
<1>8. IsFiniteSet(0 .. n - 1) /\ Cardinality(0 .. n - 1) = n
  <2>1. n - 1 \in Int /\ 0 \in Int
    BY <1>4
  <2> QED
    BY <1>4, <2>1, FS_Interval
<1>9. place \in Surjection(q, 0 .. n - 1)
  BY <1>7, <1>8, FS_Injection
<1>10. PICK e \in q : place[e] = 0
  <2>1. 0 \in 0 .. n - 1
    BY <1>4
  <2> HIDE DEF place, n
  <2> QED
    BY <1>9, <2>1 DEF Surjection
<1>11. before(e) = {}
  BY <1>5, <1>10, FS_EmptySet
<1>12. \A f \in q : f = e \/ Ahead(e, f)
  BY <1>3, <1>11
<1> QED
  BY <1>12 DEF Front

-----------------------------------------------------------------------------
(* Calls *)

(* Between calls, and when events are chosen, nobody is busy; inside of a   *)
(* call only its process is.                                                *)
LEMMA OneBusy ==
  ASSUME IInv, Paused
  PROVE  /\ \A a : Acts(a) => \A x \in Procs : pc[x] \notin Busy
         /\ Dispatch => \A x \in Procs : pc[x] \notin Busy
         /\ ~Idle => \A x \in Procs : pc[x] \notin Busy
         /\ \A p, step : Inside(p, step) => \A x \in Procs \ {p} : pc[x] \notin Busy
BY NamesAssumption DEF IInv, OneRuns, Acts, Dispatch, Paused, Busy

LEMMA PausedKept ==
  ASSUME IInv, IInv', Paused, [Next]_vars
  PROVE  Paused'
<1>1. Idle /\ UNCHANGED tasks => Paused'
  BY DEF Paused, Idle
<1>2. ASSUME NEW x \in Procs, Ends(x), Idle, \A y \in Procs : pc[y] \notin Busy
      PROVE  Paused'
  BY <1>2 DEF Ends, Paused, Idle, Busy, IInv, TypeOK
<1>3. ASSUME NEW p \in Procs, InCall(p) PROVE Paused'
  BY <1>1, <1>3 DEF InCall, ClaimAll, ClaimSome, Evict, EnterQueue, WaitOver, Retry, Thrown,
                    RollBack, GiveUp, Fails, ResetMissing
<1>4. ASSUME NEW p \in Procs, Calls(p) PROVE Paused'
  <2>1. CASE Exit(p)
    BY <1>2, <2>1, OneBusy DEF Exit, Acts
  <2>2. ASSUME NEW r \in Resources, NEW rq, NEW n, Acquire(p, r, rq) \/ Release(p, r, n)
        PROVE  Paused'
    BY <1>1, <2>2 DEF Acquire, Release, Acts
  <2>3. CASE (\E s \in TimerSignals : TimerSet(p, s)) \/ TimersClear(p) \/ Hold(p)
    BY <1>1, <2>3 DEF TimerSet, TimersClear, Hold, Acts
  <2> QED
    BY <1>4, <2>1, <2>2, <2>3 DEF Calls
<1>5. ASSUME NEW a \in Controllers, Controls(a) PROVE Paused'
  <2>1. ASSUME NEW r \in Resources, NEW n, NEW mode, SetCapacity(a, r, n, mode) PROVE Paused'
    <3>1. UNCHANGED <<pc, current>> /\ Acts(a)
      BY <2>1 DEF SetCapacity
    <3>2. current # NoProc
      BY <3>1, NamesAssumption, ActorsAssumption DEF Acts
    <3> QED
      BY <3>1, <3>2, OneBusy DEF Paused
  <2>2. ASSUME NEW x \in Procs, Stop(a, x) PROVE Paused'
    BY <1>2, <2>2, OneBusy DEF Stop, Acts
  <2>3. CASE \/ CallFails(a)
             \/ \E x \in Procs : \/ \E n \in Priorities : PrioritySet(a, x, n)
                                 \/ \E s \in IntrSignals : Interrupt(a, x, s)
                                 \/ \E s \in ResumeSignals : Resume(a, x, s)
    BY <1>1, <2>3 DEF CallFails, PrioritySet, Interrupt, Resume, Acts
  <2> QED
    BY <1>5, <2>1, <2>2, <2>3 DEF Controls
<1>6. CASE EventLoop
  BY <1>1, <1>6 DEF EventLoop, Grant, Interrupted, Resumed, Tick, HookRuns, HookEnds,
                    Dispatch, Acts
<1>7. CASE Tasks
  <2>1. UNCHANGED <<pc, current>> /\ ~Idle
    BY <1>7, NamesAssumption DEF Tasks, ShrinkEvict, ShrinkDone, Drop, Idle
  <2>2. shrinking' # NoRes => shrinking # NoRes
    BY <1>7, NamesAssumption DEF Tasks, ShrinkEvict, ShrinkDone, Drop
  <2> QED
    BY <2>1, <2>2, OneBusy DEF Paused
<1>8. CASE UNCHANGED vars
  BY <1>8 DEF vars, Paused, Idle
<1> QED
  BY <1>3, <1>4, <1>5, <1>6, <1>7, <1>8 DEF Next

(* Room is taken whole before a call goes on without it.                    *)
LEMMA TakesRoom ==
  ASSUME IInv, NEW r \in Resources, NEW n \in Nat
  PROVE  n + Room(r, n) >= capacity[r] /\ Room(r, n) \in Nat
BY DEF Room, IInv, TypeOK

LEMMA FullKept ==
  ASSUME IInv, QInv, SInv, [Next]_vars
  PROVE  \A x \in Procs : Full(x)'
<1>1. ASSUME \A x \in Procs : pc[x] \notin Busy, \A x \in Procs : pc'[x] = "evict" => pc[x] = "evict"
      PROVE  \A x \in Procs : Full(x)'
  BY <1>1 DEF Full, Busy
<1>2. ASSUME NEW p \in Procs, \A x \in Procs \ {p} : pc[x] \notin Busy,
             \A x \in Procs \ {p} : pc'[x] = pc[x], Full(p)'
      PROVE  \A x \in Procs : Full(x)'
  BY <1>2 DEF Full, Busy
<1>b. /\ \A a : Acts(a) => \A x \in Procs : pc[x] \notin Busy
      /\ Dispatch => \A x \in Procs : pc[x] \notin Busy
      /\ ~Idle => \A x \in Procs : pc[x] \notin Busy
      /\ \A p, step : Inside(p, step) => \A x \in Procs \ {p} : pc[x] \notin Busy
  BY OneBusy DEF SInv
<1>3. ASSUME NEW p \in Procs, InCall(p) PROVE \A x \in Procs : Full(x)'
  <2>1. \A x \in Procs \ {p} : pc[x] \notin Busy
    <3> PICK step : Inside(p, step)
      BY <1>3 DEF InCall, ClaimAll, ClaimSome, Evict, EnterQueue, WaitOver, Retry, Thrown,
                  RollBack, GiveUp, Fails, ResetMissing
    <3> QED
      BY <1>b
  <2>2. CASE ClaimAll(p) \/ Thrown(p) \/ RollBack(p) \/ GiveUp(p)
    <3>1. Returns(p)
      BY <2>2 DEF ClaimAll, Thrown, RollBack, GiveUp
    <3> QED
      BY <1>2, <2>1, <3>1, Returned DEF Full
  <2>3. CASE ClaimSome(p)
    <3> DEFINE r == call[p].res
               avail == Room(r, in_use[r])
    <3>1. r \in Resources /\ in_use[r] \in Nat /\ call[p] \in Call
      BY <2>3 DEF ClaimSome, IInv, CallKnown, TypeOK
    <3>2. /\ in_use' = [in_use EXCEPT ![r] = in_use[r] + avail]
          /\ call' = [call EXCEPT ![p].rem = @ - avail]
          /\ pc' = [pc EXCEPT ![p] = "evict"] /\ UNCHANGED capacity
      BY <2>3 DEF ClaimSome
    <3>3. call'[p].res = r /\ in_use'[r] = in_use[r] + avail
      BY <3>1, <3>2 DEF IInv, TypeOK, Call
    <3>4. in_use[r] + avail >= capacity[r]
      BY <3>1, TakesRoom
    <3>5. Full(p)'
      BY <3>2, <3>3, <3>4 DEF Full
    <3> QED
      BY <1>2, <2>1, <3>2, <3>5 DEF IInv, TypeOK
  <2>4. ASSUME NEW v \in Procs, Evict(p, v) PROVE \A x \in Procs : Full(x)'
    <3> DEFINE c == call[p]
               r == c.res
               left == in_use[r] - holding[r][v].amount
               take == IF Room(r, left) < c.rem THEN Room(r, left) ELSE c.rem
    <3>1. r \in Resources /\ c \in Call
      BY <2>4, Victim DEF IInv, TypeOK
    <3>2. CASE Returns(p)
      BY <1>2, <2>1, <3>2, Returned DEF Full
    <3>3. CASE ~Returns(p)
      <4>1. /\ in_use' = [in_use EXCEPT ![r] = left + take] /\ take # c.rem
            /\ call' = [call EXCEPT ![p].rem = @ - take] /\ UNCHANGED <<pc, capacity>>
        BY <2>4, <3>3 DEF Evict
      <4>2. left \in Nat
        BY <3>1, HeldIsInUse DEF IInv, TypeOK, Holding
      <4>3. left + Room(r, left) >= capacity[r]
        BY <3>1, <4>2, TakesRoom
      <4>4. take = Room(r, left)
        BY <4>1
      <4> HIDE DEF take, left
      <4>5. call'[p].res = r /\ in_use'[r] = left + take
        BY <3>1, <4>1 DEF IInv, TypeOK, Call
      <4>6. Full(p)'
        BY <4>1, <4>3, <4>4, <4>5 DEF Full
      <4> QED
        BY <1>2, <2>1, <4>1, <4>6
    <3> QED
      BY <3>2, <3>3
  <2>5. CASE EnterQueue(p) \/ WaitOver(p) \/ Retry(p) \/ ResetMissing(p)
    <3>1. /\ \A x \in Procs \ {p} : pc'[x] = pc[x]
          /\ pc'[p] # "evict"
      BY <2>5 DEF EnterQueue, WaitOver, Retry, ResetMissing, Fails, IInv, TypeOK
    <3> QED
      BY <1>2, <2>1, <3>1 DEF Full
  <2> QED
    BY <1>3, <2>2, <2>3, <2>4, <2>5 DEF InCall
<1>4. ASSUME NEW p \in Procs, Calls(p) PROVE \A x \in Procs : Full(x)'
  <2>1. Acts(p)
    BY <1>4 DEF Calls, Acquire, Release, TimerSet, TimersClear, Hold, Exit
  <2>2. pc' = pc \/ \E w \in {"claim", "hold", "done"} : pc' = [pc EXCEPT ![p] = w]
    BY <1>4 DEF Calls, Acquire, Release, TimerSet, TimersClear, Hold, Exit, Ends
  <2> QED
    BY <1>1, <1>b, <2>1, <2>2 DEF IInv, TypeOK
<1>5. ASSUME NEW a \in Controllers, Controls(a) PROVE \A x \in Procs : Full(x)'
  <2>1. Acts(a)
    BY <1>5 DEF Controls, CallFails, SetCapacity, PrioritySet, Interrupt, Resume, Stop
  <2>2. pc' = pc \/ \E x \in Procs : pc' = [pc EXCEPT ![x] = "done"]
    BY <1>5 DEF Controls, CallFails, SetCapacity, PrioritySet, Interrupt, Resume, Stop, Ends
  <2> QED
    BY <1>1, <1>b, <2>1, <2>2 DEF IInv, TypeOK
<1>6. CASE EventLoop
  <2>1. Dispatch \/ Acts(Hook)
    BY <1>6 DEF EventLoop, Grant, Interrupted, Resumed, Tick, HookRuns, HookEnds
  <2>2. pc' = pc \/ \E g \in due : Resumes(g.proc, g.sig)
    BY <1>6 DEF EventLoop, Grant, Interrupted, Resumed, Tick, HookRuns, HookEnds
  <2> QED
    BY <1>1, <1>b, <2>1, <2>2 DEF Resumes, IInv, TypeOK
<1>7. CASE Tasks
  <2>1. pc' = pc /\ ~Idle
    BY <1>7, NamesAssumption DEF Tasks, ShrinkEvict, ShrinkDone, Drop, Idle
  <2> QED
    BY <1>1, <1>b, <2>1
<1>8. CASE UNCHANGED vars
  BY <1>8 DEF vars, Full, SInv
<1> QED
  BY <1>3, <1>4, <1>5, <1>6, <1>7, <1>8 DEF Next

(* The step leaves x the call it is in, and gives it no units.              *)
Ungained(x) ==
  /\ pc'[x] \in CallSteps =>
       /\ pc[x] \in CallSteps
       /\ call'[x].res = call[x].res /\ call'[x].rem = call[x].rem
       /\ call'[x].held0 = call[x].held0
  /\ \A r \in Resources : holding'[r][x].amount \in {holding[r][x].amount, 0}

LEMMA UngainedKept ==
  ASSUME IInv, NEW x \in Procs, Untaken(x), Ungained(x)
  PROVE  Untaken(x)'
<1>1. pc[x] \in CallSteps => call[x].res \in Resources
  BY DEF IInv, CallKnown
<1> QED
  BY <1>1 DEF Untaken, Ungained

LEMMA UntakenKept ==
  ASSUME IInv, QInv, OneUnit, \A x \in Procs : Untaken(x), [Next]_vars
  PROVE  \A x \in Procs : Untaken(x)'
<1>1. ASSUME \A x \in Procs : Ungained(x)
      PROVE  \A x \in Procs : Untaken(x)'
  BY <1>1, UngainedKept
<1>2. ASSUME NEW p \in Procs, \A x \in Procs \ {p} : Ungained(x), Untaken(p)'
      PROVE  \A x \in Procs : Untaken(x)'
  BY <1>2, UngainedKept
<1>3. ASSUME UNCHANGED <<call, holding>>,
             \A x \in Procs : pc'[x] \in CallSteps => pc[x] \in CallSteps
      PROVE  \A x \in Procs : Untaken(x)'
  BY <1>1, <1>3 DEF Ungained
<1>4. ASSUME NEW p \in Procs, NEW r \in Resources, NEW h, pc'[p] \notin CallSteps,
             holding' = [holding EXCEPT ![r][p] = h],
             \A x \in Procs \ {p} : pc'[x] = pc[x] /\ call'[x] = call[x]
      PROVE  \A x \in Procs : Untaken(x)'
  <2>1. \A x \in Procs \ {p} : Ungained(x)
    <3>1. \A x \in Procs \ {p}, s \in Resources : holding'[s][x] = holding[s][x]
      BY <1>4 DEF IInv, TypeOK
    <3> QED
      BY <1>4, <3>1 DEF Ungained
  <2>2. Untaken(p)'
    BY <1>4 DEF Untaken
  <2> QED
    BY <1>2, <2>1, <2>2
<1>5. ASSUME NEW p \in Procs, InCall(p) PROVE \A x \in Procs : Untaken(x)'
  <2> DEFINE r == call[p].res
             c == call[p]
  <2>1. /\ r \in Resources /\ c \in Call /\ pc[p] \in CallSteps /\ in_use[r] \in Nat
        /\ c.rem = 1 /\ (c.held0 = 0 => holding[r][p].amount = 0)
        /\ holding[r][p].amount \in Nat
    <3>1. pc[p] \in CallSteps
      BY <1>5 DEF InCall, ClaimAll, ClaimSome, Evict, EnterQueue, WaitOver, Retry, Thrown,
                  RollBack, GiveUp, Fails, ResetMissing
    <3>2. r \in Resources
      BY <3>1 DEF IInv, CallKnown
    <3> QED
      BY <3>1, <3>2 DEF Untaken, IInv, TypeOK, Holding
  <2>2. CASE ClaimAll(p) \/ RollBack(p) \/ GiveUp(p)
    <3> PICK h : holding' = [holding EXCEPT ![r][p] = h]
      BY <2>2 DEF ClaimAll, RollBack, GiveUp
    <3>1. Returns(p)
      BY <2>2 DEF ClaimAll, RollBack, GiveUp
    <3> QED
      BY <1>4, <2>1, <3>1, Returned
  <2>3. CASE ClaimSome(p)
    <3>1. Room(r, in_use[r]) = 0
      BY <2>1, <2>3, TakesRoom DEF ClaimSome
    <3>2. /\ holding' = [holding EXCEPT ![r][p] = Credited(p, r, 0, c)]
          /\ call' = [call EXCEPT ![p].rem = @ - 0] /\ pc' = [pc EXCEPT ![p] = "evict"]
      BY <2>3, <3>1 DEF ClaimSome
    <3>3. Credited(p, r, 0, c) = holding[r][p]
      BY DEF Credited
    <3>4. \A x \in Procs, s \in Resources : holding'[s][x] = holding[s][x]
      BY <2>1, <3>2, <3>3 DEF IInv, TypeOK
    <3>5. /\ call'[p].res = r /\ call'[p].rem = c.rem /\ call'[p].held0 = c.held0
          /\ \A x \in Procs \ {p} : call'[x] = call[x] /\ pc'[x] = pc[x]
      BY <2>1, <3>2 DEF IInv, TypeOK, Call
    <3>6. \A x \in Procs : Ungained(x)
      BY <2>1, <3>4, <3>5 DEF Ungained
    <3> QED
      BY <1>1, <3>6
  <2>4. ASSUME NEW v \in Procs, Evict(p, v) PROVE \A x \in Procs : Untaken(x)'
    <3> DEFINE left == in_use[r] - holding[r][v].amount
               take == IF Room(r, left) < c.rem THEN Room(r, left) ELSE c.rem
    <3>1. v # p
      BY <2>4, Victim
    <3>2. /\ holding' = [holding EXCEPT ![r][v] = NoHolding,
                                        ![r][p] = Credited(p, r, take, c)]
          /\ \/ Returns(p)
             \/ /\ take # c.rem /\ call' = [call EXCEPT ![p].rem = @ - take]
                /\ UNCHANGED <<pc, sig>>
      BY <2>4 DEF Evict
    <3>3. left \in Nat
      BY <2>1, HeldIsInUse DEF IInv, TypeOK, Holding
    <3>4. take \in Nat /\ (take # c.rem => take = 0)
      BY <2>1, <3>3, TakesRoom
    <3> HIDE DEF take
    <3>5. /\ \A x \in Procs \ {p, v}, s \in Resources : holding'[s][x] = holding[s][x]
          /\ \A s \in Resources : /\ holding'[s][v].amount \in {holding[s][v].amount, 0}
                                  /\ s # r => holding'[s][p] = holding[s][p]
          /\ holding'[r][p] = Credited(p, r, take, c)
      BY <2>1, <3>1, <3>2, NoHoldingTyped DEF IInv, TypeOK
    <3>6. CASE Returns(p)
      <4>1. \A x \in Procs \ {p} : Ungained(x)
        BY <3>5, <3>6, Returned DEF Ungained
      <4>2. Untaken(p)'
        BY <3>6, Returned DEF Untaken
      <4> QED
        BY <1>2, <4>1, <4>2
    <3>7. CASE ~Returns(p)
      <4>1. take = 0 /\ call' = [call EXCEPT ![p].rem = @ - 0] /\ pc' = pc
        BY <3>2, <3>4, <3>7
      <4>2. Credited(p, r, take, c) = holding[r][p]
        BY <4>1 DEF Credited
      <4>3. /\ call'[p].res = r /\ call'[p].rem = c.rem /\ call'[p].held0 = c.held0
            /\ \A x \in Procs \ {p} : call'[x] = call[x]
        BY <2>1, <4>1 DEF IInv, TypeOK, Call
      <4>4. \A x \in Procs, s \in Resources : holding'[s][x].amount \in {holding[s][x].amount, 0}
        BY <3>5, <4>2
      <4>5. \A x \in Procs : Ungained(x)
        BY <4>1, <4>3, <4>4 DEF Ungained
      <4> QED
        BY <1>1, <4>5
    <3> QED
      BY <3>6, <3>7
  <2>5. CASE EnterQueue(p)
    <3>1. \E k : call' = [call EXCEPT ![p].key = k]
      BY <2>5 DEF EnterQueue
    <3>2. /\ call'[p].res = r /\ call'[p].rem = c.rem /\ call'[p].held0 = c.held0
          /\ \A x \in Procs \ {p} : call'[x] = call[x]
      BY <2>1, <3>1 DEF IInv, TypeOK, Call
    <3>3. holding' = holding /\ pc' = [pc EXCEPT ![p] = "wait"]
      BY <2>5 DEF EnterQueue
    <3>4. \A x \in Procs : Ungained(x)
      BY <2>1, <3>2, <3>3 DEF Ungained, IInv, TypeOK
    <3> QED
      BY <1>1, <3>4
  <2>6. CASE WaitOver(p) \/ Retry(p) \/ ResetMissing(p)
    <3>1. UNCHANGED <<call, holding>> /\ \A x \in Procs \ {p} : pc'[x] = pc[x]
      BY <2>6 DEF WaitOver, Retry, ResetMissing, IInv, TypeOK
    <3> QED
      BY <1>3, <2>1, <3>1
  <2>7. CASE Thrown(p)
    <3>1. Returns(p) /\ UNCHANGED holding
      BY <2>7 DEF Thrown
    <3>2. \A x \in Procs : Ungained(x)
      BY <3>1, Returned DEF Ungained
    <3> QED
      BY <1>1, <3>2
  <2> QED
    BY <1>5, <2>2, <2>3, <2>4, <2>5, <2>6, <2>7 DEF InCall
<1>6. ASSUME NEW x \in Procs, Ends(x) PROVE \A y \in Procs : Untaken(y)'
  <2>1. /\ UNCHANGED holding /\ pc'[x] = "done"
        /\ \A y \in Procs \ {x} : pc'[y] = pc[y] /\ call'[y] = call[y]
    BY <1>6 DEF Ends, IInv, TypeOK
  <2>2. \A y \in Procs : Ungained(y)
    BY <2>1 DEF Ungained
  <2> QED
    BY <1>1, <2>2
<1>7. ASSUME NEW p \in Procs, Calls(p) PROVE \A x \in Procs : Untaken(x)'
  <2>1. ASSUME NEW r \in Resources, NEW rq \in Requests[p], Acquire(p, r, rq)
        PROVE  \A x \in Procs : Untaken(x)'
    <3> PICK c : /\ call' = [call EXCEPT ![p] = c]
                 /\ c.res = r /\ c.held0 = holding[r][p].amount /\ c.rem = rq.amount
                 /\ holding' = IF holding[r][p].amount = 0 THEN holding
                               ELSE [holding EXCEPT ![r][p] =
                                       [@ EXCEPT !.rank = request_rank(p, c),
                                                 !.fixed = rq.fixed]]
      BY <2>1 DEF Acquire
    <3>1. \A x \in Procs, s \in Resources : holding'[s][x].amount = holding[s][x].amount
      BY DEF IInv, TypeOK, Holding
    <3>2. pc' = [pc EXCEPT ![p] = "claim"]
      BY <2>1 DEF Acquire
    <3>3. \A x \in Procs \ {p} : Ungained(x)
      BY <3>1, <3>2 DEF Ungained, IInv, TypeOK
    <3>4. Untaken(p)'
      <4>1. call'[p] = c /\ c.rem = 1
        BY DEF IInv, TypeOK, OneUnit
      <4> QED
        BY <3>1, <4>1 DEF Untaken
    <3> QED
      BY <1>2, <3>3, <3>4
  <2>2. ASSUME NEW r \in Resources, NEW n, Release(p, r, n)
        PROVE  \A x \in Procs : Untaken(x)'
    <3> PICK h : holding' = [holding EXCEPT ![r][p] = h]
      BY <2>2 DEF Release
    <3>1. pc[p] = "ready" /\ UNCHANGED procs
      BY <2>2 DEF Release, Acts
    <3> QED
      BY <1>4, <3>1
  <2>3. CASE (\E s \in TimerSignals : TimerSet(p, s)) \/ TimersClear(p) \/ Hold(p)
    <3>1. UNCHANGED <<call, holding>> /\ (pc' = pc \/ pc' = [pc EXCEPT ![p] = "hold"])
      BY <2>3 DEF TimerSet, TimersClear, Hold
    <3> QED
      BY <1>3, <3>1 DEF IInv, TypeOK
  <2>4. CASE Exit(p)
    BY <1>6, <2>4 DEF Exit
  <2> QED
    BY <1>7, <2>1, <2>2, <2>3, <2>4 DEF Calls
<1>8. ASSUME NEW a \in Controllers, Controls(a) PROVE \A x \in Procs : Untaken(x)'
  <2>1. ASSUME NEW x \in Procs, NEW n, PrioritySet(a, x, n)
        PROVE  \A y \in Procs : Untaken(y)'
    <3>1. \A y \in Procs, s \in Resources : holding'[s][y].amount = holding[s][y].amount
      BY <2>1 DEF PrioritySet, IInv, TypeOK, Holding
    <3>2. UNCHANGED <<pc, call>>
      BY <2>1 DEF PrioritySet
    <3>3. \A y \in Procs : Ungained(y)
      BY <3>1, <3>2 DEF Ungained
    <3> QED
      BY <1>1, <3>3
  <2>2. ASSUME NEW x \in Procs, Stop(a, x) PROVE \A y \in Procs : Untaken(y)'
    BY <1>6, <2>2 DEF Stop
  <2>3. UNCHANGED <<pc, call, holding>> \/ (\E x \in Procs : Stop(a, x))
        \/ (\E x \in Procs, n \in Priorities : PrioritySet(a, x, n))
    BY <1>8 DEF Controls, CallFails, SetCapacity, Interrupt, Resume
  <2> QED
    BY <1>3, <2>1, <2>2, <2>3
<1>9. CASE EventLoop
  <2>1. UNCHANGED <<call, holding>>
    BY <1>9 DEF EventLoop, Grant, Interrupted, Resumed, Tick, HookRuns, HookEnds
  <2>2. pc' = pc \/ \E g \in due : Resumes(g.proc, g.sig)
    BY <1>9 DEF EventLoop, Grant, Interrupted, Resumed, Tick, HookRuns, HookEnds
  <2> QED
    BY <1>3, <2>1, <2>2 DEF Resumes, IInv, TypeOK
<1>10. CASE Tasks
  <2>1. UNCHANGED <<pc, call>>
    BY <1>10 DEF Tasks, ShrinkEvict, ShrinkDone, Drop
  <2>2. \/ UNCHANGED holding
        \/ \E r \in Resources, v \in Procs : holding' = [holding EXCEPT ![r][v] = NoHolding]
    BY <1>10 DEF Tasks, ShrinkEvict, ShrinkDone, Drop, IInv, TypeOK
  <2>3. ASSUME NEW r \in Resources, NEW v \in Procs,
               holding' = [holding EXCEPT ![r][v] = NoHolding]
        PROVE  \A x \in Procs, s \in Resources :
                 holding'[s][x].amount \in {holding[s][x].amount, 0}
    <3>1. \A x \in Procs, s \in Resources : holding'[s][x] \in {holding[s][x], NoHolding}
      BY <2>3 DEF IInv, TypeOK
    <3> QED
      BY <3>1, NoHoldingTyped
  <2>4. \A x \in Procs : Ungained(x)
    BY <2>1, <2>2, <2>3 DEF Ungained
  <2> QED
    BY <1>1, <2>4
<1>11. CASE UNCHANGED vars
  BY <1>3, <1>11 DEF vars
<1> QED
  BY <1>5, <1>7, <1>8, <1>9, <1>10, <1>11 DEF Next

-----------------------------------------------------------------------------
(* Free units and those who wait for them *)

(* The room of r has entries of those processes only that had one.          *)
NoNewcomers(r) == \A e \in queue'[r] : \E f \in queue[r] : f.proc = e.proc

(* The step leaves x what makes it look at r.                               *)
Steady(x, r) == /\ pc'[x] = pc[x] /\ call'[x].res = call[x].res /\ sig'[x] = sig[x]
                /\ r \in tags[x] => r \in tags'[x]

LEMMA SteadyLooks ==
  ASSUME NEW x \in Procs, NEW r, Opportunity(x, r), Steady(x, r), NoNewcomers(r)
  PROVE  Opportunity(x, r)'
BY DEF Opportunity, Steady, NoNewcomers

(* Where no units move, only those D need care that the step is about.      *)
LEMMA StaysAnswered ==
  ASSUME NEW r \in Resources, Answered(r), NEW D,
         in_use'[r] = in_use[r], capacity'[r] = capacity[r], NoNewcomers(r),
         shrinking = r => shrinking' = r, Dropping(r) => Dropping(r)',
         \A x \in Procs \ D : Steady(x, r),
         \A x \in D : Opportunity(x, r) => Handled(r)'
  PROVE  Answered(r)'
<1>1. queue[r] = {} => queue'[r] = {}
  BY DEF NoNewcomers
<1>2. \A x \in Procs \ D : Opportunity(x, r) => Handled(r)'
  BY SteadyLooks DEF Handled
<1>3. Handled(r) => Handled(r)'
  BY <1>2 DEF Handled
<1> QED
  BY <1>1, <1>3 DEF Answered

(* A signal finds the room full, or nobody there, or hands the request in   *)
(* front its chance.                                                        *)
LEMMA SignalAnswers ==
  ASSUME IInv, Requesting, NEW r \in Resources, NEW n \in Int, NEW cap \in Int,
         NEW q, NEW ev, \A s \in Resources : q[s] \subseteq queue[s],
         Signal(r, n, cap, q, ev), in_use'[r] = n, capacity'[r] = cap,
         \A x \in Procs : (\E e \in q[r] : e.proc = x) => WaitsOn(x)
  PROVE  Answered(r)'
<1>1. queue'[r] = {e \in q[r] : \A g \in Granted(q[r], n, cap) : e.key # g.key}
  BY DEF Signal
<1>2. CASE n >= cap
  BY <1>2 DEF Answered
<1>3. CASE q[r] = {}
  BY <1>1, <1>3 DEF Answered
<1>4. CASE n < cap /\ q[r] # {}
  <2>1. q[r] \in SUBSET queue[r]
    OBVIOUS
  <2>2. Granted(q[r], n, cap) = Front(q[r]) /\ Front(q[r]) # {}
    BY <1>4, <2>1, FrontOccurs DEF Granted
  <2> PICK e \in q[r] : e \in Front(q[r])
    BY <2>2 DEF Front
  <2>3. e \in queue[r] /\ e.proc \in Procs /\ WaitsOn(e.proc)
    BY <2>1 DEF IInv, TypeOK, Entry
  <2>4. call[e.proc].res = r /\ pc[e.proc] \in {"wait", "woken"} /\ r \in tags[e.proc]
    BY <2>3 DEF Requesting, QueueFaithful, EntriesTagged
  <2>5. \A f \in queue'[r] : f.proc # e.proc
    BY <1>1, <2>2, <2>3, EntriesApart
  <2>6. Opportunity(e.proc, r)'
    BY <2>3, <2>4, <2>5 DEF Opportunity, WaitsOn
  <2> QED
    BY <2>3, <2>6 DEF Answered, Handled
<1> QED
  BY <1>2, <1>3, <1>4

(* Serving any room brings nobody into another.                             *)
LEMMA SignalFewer ==
  ASSUME NEW r, NEW n, NEW cap, NEW q, NEW ev, Signal(r, n, cap, q, ev),
         \A s \in Resources : q[s] \subseteq queue[s], NEW s \in Resources
  PROVE  NoNewcomers(s)
BY DEF Signal, NoNewcomers

(* A step of p leaves another process x as it is, or with fewer tags.       *)
Aside(x) == /\ pc'[x] = pc[x] /\ call'[x] = call[x] /\ sig'[x] = sig[x]
            /\ tags'[x] = tags[x] /\ prio'[x] = prio[x]

(* What a step of p signals, it answers; what it does not touch, it leaves. *)
LEMMA CallerSignals ==
  ASSUME IInv, QInv, NEW p \in Procs, pc[p] \notin {"wait", "woken"},
         NEW m \in Resources, NEW n \in Int,
         NEW q, NEW ev, \A s \in Resources : q[s] \subseteq queue[s],
         Signal(m, n, capacity[m], q, ev), in_use' = [in_use EXCEPT ![m] = n],
         capacity' = capacity, \A x \in Procs \ {p} : (\E e \in q[m] : e.proc = x) => WaitsOn(x)
  PROVE  Answered(m)'
<1>1. in_use'[m] = n /\ capacity[m] \in Int
  BY DEF IInv, TypeOK
<1>2. \A e \in q[m] : e.proc # p
  BY NotWaiting DEF QInv
<1>3. \A x \in Procs : (\E e \in q[m] : e.proc = x) => WaitsOn(x)
  BY <1>2
<1> QED
  BY <1>1, <1>3, SignalAnswers DEF QInv

LEMMA CallerLeaves ==
  ASSUME IInv, SInv, NEW p \in Procs, NEW r \in Resources,
         in_use'[r] = in_use[r], capacity'[r] = capacity[r], NoNewcomers(r),
         Idle, UNCHANGED tasks,
         \A x \in Procs \ {p} : Steady(x, r), Opportunity(p, r) => Handled(r)'
  PROVE  Answered(r)'
<1>1. r # NoRes
  BY NamesAssumption
<1>2. ~Dropping(r) /\ shrinking # r
  BY <1>1 DEF Dropping, Idle
<1>3. (shrinking = r => shrinking' = r) /\ (Dropping(r) => Dropping(r)')
  BY <1>2
<1> PICK D : D = {p}
  OBVIOUS
<1>4. \A x \in Procs \ D : Steady(x, r)
  OBVIOUS
<1>5. \A x \in D : Opportunity(x, r) => Handled(r)'
  OBVIOUS
<1>6. Answered(r)
  BY DEF SInv
<1> QED
  BY <1>3, <1>4, <1>5, <1>6, StaysAnswered

LEMMA ClaimsAnswered ==
  ASSUME IInv, QInv, SInv, NEW p \in Procs, ClaimAll(p) \/ ClaimSome(p),
         NEW r \in Resources
  PROVE  Answered(r)'
<1> DEFINE c == call[p]
           m == c.res
           taken == IF ClaimAll(p) THEN c.rem ELSE Room(m, in_use[m])
           n == in_use[m] + taken
<1>1. /\ m \in Resources /\ pc[p] = "claim" /\ in_use[m] \in Nat /\ c \in Call /\ taken \in Nat
      /\ Idle
  BY TakesRoom DEF ClaimAll, ClaimSome, IInv, CallKnown, TypeOK, Call
<1>2. /\ in_use' = [in_use EXCEPT ![m] = n]
      /\ tags' = [tags EXCEPT ![p] = TagsAfter(p, m, taken)]
      /\ UNCHANGED <<prio, awaits, capacity, tasks>>
  BY <1>1 DEF ClaimAll, ClaimSome
<1>3. /\ ClaimAll(p) => Signal(m, n, capacity[m], queue, due) /\ Returns(p)
      /\ ~ClaimAll(p) => /\ queue' = queue /\ call' = [call EXCEPT ![p].rem = @ - taken]
                         /\ pc' = [pc EXCEPT ![p] = "evict"] /\ UNCHANGED sig
  BY DEF ClaimAll, ClaimSome
<1> HIDE DEF taken
<1>4. n \in Int
  BY <1>1
<1>5. \A x \in Procs \ {p} : Aside(x)
  BY <1>1, <1>2, <1>3, Returned DEF Aside, IInv, TypeOK
<1>6. CASE r = m
  <2>1. CASE ClaimAll(p)
    <3>1. \A x \in Procs \ {p} : WaitsOn(x)
      BY <1>2, <1>5 DEF WaitsOn, Aside
    <3> QED
      BY <1>1, <1>2, <1>3, <1>4, <1>6, <2>1, <3>1, CallerSignals
  <2>2. CASE ~ClaimAll(p)
    <3>1. n >= capacity[m]
      BY <1>1, <2>2, TakesRoom DEF taken
    <3>2. in_use'[m] = n /\ capacity'[m] = capacity[m]
      BY <1>1, <1>2 DEF IInv, TypeOK
    <3> QED
      BY <1>6, <3>1, <3>2 DEF Answered
  <2> QED
    BY <2>1, <2>2
<1>7. CASE r # m
  <2>1. in_use'[r] = in_use[r] /\ capacity'[r] = capacity[r]
    BY <1>1, <1>2, <1>7 DEF IInv, TypeOK
  <2>2. NoNewcomers(r)
    BY <1>3, SignalFewer DEF NoNewcomers
  <2>3. \A x \in Procs \ {p} : Steady(x, r)
    BY <1>5 DEF Steady, Aside
  <2>4. ~Opportunity(p, r)
    BY <1>7 DEF Opportunity
  <2> QED
    BY <1>1, <1>2, <2>1, <2>2, <2>3, <2>4, CallerLeaves
<1> QED
  BY <1>6, <1>7

LEMMA EvictAnswered ==
  ASSUME IInv, QInv, SInv, NEW p \in Procs, NEW v \in Procs, Evict(p, v),
         NEW r \in Resources
  PROVE  Answered(r)'
<1> DEFINE c == call[p]
           m == c.res
           left == in_use[m] - holding[m][v].amount
           take == IF Room(m, left) < c.rem THEN Room(m, left) ELSE c.rem
           n == left + take
           q == WithoutEntries(v)
           ev == EventsAfterPreempt(v)
<1>1. m \in Resources /\ c \in Call /\ pc[p] = "evict" /\ v # p /\ Idle
  BY Victim DEF IInv, TypeOK, Evict
<1>2. left \in Nat
  BY <1>1, HeldIsInUse DEF IInv, TypeOK, Holding
<1>3. take \in Nat /\ (take # c.rem => n >= capacity[m])
  BY <1>1, <1>2, TakesRoom DEF Call
<1>4. /\ in_use' = [in_use EXCEPT ![m] = n]
      /\ tags' = [tags EXCEPT ![v] = @ \ {m}, ![p] = TagsAfter(p, m, take)]
      /\ awaits' = [awaits EXCEPT ![v] = {}]
      /\ UNCHANGED <<prio, capacity, tasks>>
  BY DEF Evict
<1>5. \/ Signal(m, n, capacity[m], q, ev) /\ Returns(p)
      \/ /\ take # c.rem /\ queue' = q
         /\ call' = [call EXCEPT ![p].rem = @ - take] /\ UNCHANGED <<pc, sig>>
  BY DEF Evict
<1> HIDE DEF take, ev, q
<1>6. \A s \in Resources : q[s] = {e \in queue[s] : e.proc # v}
  BY DEF q, WithoutEntries
<1>7. n \in Int
  BY <1>2, <1>3
<1> HIDE DEF n, left
<1>8. \A x \in Procs \ {p} : pc'[x] = pc[x] /\ call'[x] = call[x] /\ sig'[x] = sig[x]
  BY <1>1, <1>5, Returned DEF IInv, TypeOK
<1>9. /\ \A x \in Procs \ {p, v} : tags'[x] = tags[x] /\ awaits'[x] = awaits[x]
      /\ tags'[v] = tags[v] \ {m}
  BY <1>1, <1>4 DEF IInv, TypeOK
<1>10. CASE r = m
  <2>1. CASE Returns(p) /\ Signal(m, n, capacity[m], q, ev)
    <3>1. \A x \in Procs \ {p} : (\E e \in q[m] : e.proc = x) => WaitsOn(x)
      <4>1. \A x \in Procs \ {p, v} : WaitsOn(x)
        BY <1>4, <1>8, <1>9 DEF WaitsOn
      <4>2. \A e \in q[m] : e.proc # v
        BY <1>1, <1>6
      <4> QED
        BY <4>1, <4>2
    <3>2. \A s \in Resources : q[s] \subseteq queue[s]
      BY <1>6
    <3> QED
      BY <1>1, <1>4, <1>7, <1>10, <2>1, <3>1, <3>2, CallerSignals
  <2>2. CASE take # c.rem
    <3>1. in_use'[m] = n /\ capacity'[m] = capacity[m]
      BY <1>1, <1>4 DEF IInv, TypeOK
    <3> QED
      BY <1>3, <1>10, <2>2, <3>1 DEF Answered
  <2> QED
    BY <1>5, <2>1, <2>2
<1>11. CASE r # m
  <2>1. in_use'[r] = in_use[r] /\ capacity'[r] = capacity[r]
    BY <1>1, <1>4, <1>11 DEF IInv, TypeOK
  <2>2. NoNewcomers(r)
    <3>1. \A s \in Resources : q[s] \subseteq queue[s]
      BY <1>6
    <3>2. queue' = q => NoNewcomers(r)
      BY <3>1 DEF NoNewcomers
    <3> QED
      BY <1>5, <3>1, <3>2, SignalFewer
  <2>3. \A x \in Procs \ {p} : Steady(x, r)
    BY <1>8, <1>9, <1>11 DEF Steady
  <2>4. ~Opportunity(p, r)
    BY <1>11 DEF Opportunity
  <2> QED
    BY <1>1, <1>4, <2>1, <2>2, <2>3, <2>4, CallerLeaves
<1> QED
  BY <1>10, <1>11

LEMMA WaitsAnswered ==
  ASSUME IInv, QInv, SInv, LoudEnds, NEW p \in Procs,
         EnterQueue(p) \/ WaitOver(p) \/ Retry(p) \/ ResetMissing(p), NEW r \in Resources
  PROVE  Answered(r)'
<1> DEFINE m == call[p].res
<1>1. /\ m \in Resources /\ pc[p] \in {"evict", "woken", "settle"} /\ Idle
      /\ UNCHANGED <<sig, in_use, capacity, tasks, prio>>
  BY DEF EnterQueue, WaitOver, Retry, ResetMissing, Fails, IInv, CallKnown
<1>2. CASE EnterQueue(p)
  <2>1. \E k : call' = [call EXCEPT ![p].key = k]
    BY <1>2 DEF EnterQueue
  <2>2. /\ \A x \in Procs \ {p} : call'[x] = call[x]
        /\ pc' = [pc EXCEPT ![p] = "wait"] /\ tags' = [tags EXCEPT ![p] = @ \cup {m}]
        /\ pc[p] = "evict" /\ \E e : queue' = [queue EXCEPT ![m] = @ \cup {e}]
    BY <1>2, <2>1 DEF EnterQueue, IInv, TypeOK
  <2>3. CASE r = m
    BY <1>1, <2>2, <2>3 DEF SInv, Full, Answered
  <2>4. CASE r # m
    <3>1. NoNewcomers(r)
      BY <1>1, <2>2, <2>4 DEF NoNewcomers, IInv, TypeOK
    <3>2. \A x \in Procs \ {p} : Steady(x, r)
      BY <1>1, <2>2 DEF Steady, IInv, TypeOK
    <3>3. ~Opportunity(p, r)
      BY <2>4 DEF Opportunity
    <3> QED
      BY <1>1, <3>1, <3>2, <3>3, CallerLeaves
  <2> QED
    BY <2>3, <2>4
<1>3. CASE WaitOver(p)
  <2> DEFINE queued == \E e \in queue[m] : e.proc = p
  <2>1. /\ pc[p] = "woken" /\ pc' = [pc EXCEPT ![p] = "settle"]
        /\ awaits' = [awaits EXCEPT ![p] = {}] /\ UNCHANGED <<call, tags>>
    BY <1>3 DEF WaitOver
  <2>2. CASE PassesOn(p, queued) /\ r = m
    <3>1. Signal(m, in_use[m], capacity[m], queue, due) /\ ~queued
      BY <1>3, <2>2 DEF WaitOver, PassesOn
    <3>2. \A x \in Procs : (\E e \in queue[m] : e.proc = x) => WaitsOn(x)
      <4>1. \A x \in Procs \ {p} : WaitsOn(x)
        BY <1>1, <2>1 DEF WaitsOn, IInv, TypeOK
      <4> QED
        BY <3>1, <4>1
    <3>3. in_use[m] \in Int /\ capacity[m] \in Int
      BY <1>1 DEF IInv, TypeOK
    <3> QED
      BY <1>1, <2>2, <3>1, <3>2, <3>3, SignalAnswers DEF QInv
  <2>3. CASE ~(PassesOn(p, queued) /\ r = m)
    <3>1. NoNewcomers(r)
      <4>1. CASE PassesOn(p, queued)
        <5>1. Signal(m, in_use[m], capacity[m], queue, due)
          BY <1>3, <4>1 DEF WaitOver
        <5> QED
          BY <5>1, SignalFewer
      <4>2. CASE ~PassesOn(p, queued)
        BY <1>3, <4>2 DEF WaitOver, WithoutEntries, NoNewcomers
      <4> QED
        BY <4>1, <4>2
    <3>2. \A x \in Procs \ {p} : Steady(x, r)
      BY <1>1, <2>1 DEF Steady, IInv, TypeOK
    <3>3. Opportunity(p, r) => Opportunity(p, r)'
      <4> SUFFICES ASSUME Opportunity(p, r) PROVE Opportunity(p, r)'
        OBVIOUS
      <4>1. r = m /\ ~queued
        BY <2>1 DEF Opportunity
      <4>2. sig[p] # CMB_PROCESS_CANCELLED
        BY DEF SInv, Heard, LoudEnds, Plain, CMB_PROCESS_CANCELLED
      <4>3. sig[p] = CMB_PROCESS_SUCCESS
        BY <2>3, <4>1, <4>2 DEF PassesOn
      <4> QED
        BY <1>1, <2>1, <4>1, <4>3 DEF Opportunity, IInv, TypeOK
    <3> QED
      BY <1>1, <3>1, <3>2, <3>3, CallerLeaves DEF Handled
  <2> QED
    BY <2>2, <2>3
<1>4. CASE Retry(p) \/ ResetMissing(p)
  <2>1. /\ UNCHANGED <<call, tags, queue>>
        /\ \A x \in Procs \ {p} : pc'[x] = pc[x]
        /\ pc[p] = "settle" /\ pc'[p] \in {"claim", "settle"}
    BY <1>4 DEF Retry, ResetMissing, Fails, IInv, TypeOK
  <2>2. NoNewcomers(r)
    BY <2>1 DEF NoNewcomers
  <2>3. \A x \in Procs \ {p} : Steady(x, r)
    BY <1>1, <2>1 DEF Steady
  <2>4. Opportunity(p, r) => Opportunity(p, r)'
    BY <1>1, <2>1 DEF Opportunity
  <2> QED
    BY <1>1, <2>2, <2>3, <2>4, CallerLeaves DEF Handled
<1> QED
  BY <1>2, <1>3, <1>4

(* A call that ends after its wait signals what it gives back, or gives     *)
(* nothing back.                                                            *)
LEMMA CallEndsAnswered ==
  ASSUME IInv, QInv, SInv, LoudEnds, NEW p \in Procs,
         Thrown(p) \/ RollBack(p) \/ GiveUp(p), NEW r \in Resources
  PROVE  Answered(r)'
<1> DEFINE m == call[p].res
<1>1. /\ m \in Resources /\ pc[p] = "settle" /\ Idle /\ Returns(p)
      /\ UNCHANGED <<capacity, tasks, prio, awaits>>
  BY DEF Thrown, RollBack, GiveUp, Fails, IInv, CallKnown
<1>2. /\ \A x \in Procs \ {p} : pc'[x] = pc[x] /\ call'[x] = call[x] /\ sig'[x] = sig[x]
      /\ \A x \in Procs \ {p} : tags'[x] = tags[x]
  BY <1>1, Returned DEF Thrown, RollBack, GiveUp, IInv, TypeOK
<1>3. \A x \in Procs \ {p} : Steady(x, r) /\ WaitsOn(x)
  BY <1>1, <1>2 DEF Steady, WaitsOn
<1>4. CASE RollBack(p) /\ r = m
  <2> DEFINE left == in_use[m] - (holding[m][p].amount - call[p].held0)
  <2>1. /\ in_use' = [in_use EXCEPT ![m] = left]
        /\ Signal(m, left, capacity[m], queue, due)
    BY <1>4 DEF RollBack
  <2>2. left \in Int
    BY <1>1 DEF IInv, TypeOK, Holding, Call
  <2> QED
    BY <1>1, <1>3, <1>4, <2>1, <2>2, CallerSignals
<1>5. CASE ~(RollBack(p) /\ r = m)
  <2>1. in_use'[r] = in_use[r]
    <3>1. CASE Thrown(p)
      BY <3>1 DEF Thrown
    <3>2. CASE RollBack(p)
      BY <1>1, <1>5, <3>2 DEF RollBack, IInv, TypeOK
    <3>3. CASE GiveUp(p)
      <4>1. sig[p] \in Plain \cup Signals /\ sig[p] \notin Plain
        BY <3>3 DEF SInv, Heard, GiveUp, Fails, Plain
      <4>2. OneUnit
        BY <4>1 DEF LoudEnds
      <4>3. holding[m][p].amount = 0
        BY <1>1, <3>3, <4>2 DEF SInv, Untaken, GiveUp
      <4>4. in_use' = [in_use EXCEPT ![m] = in_use[m] - 0]
        BY <3>3, <4>3 DEF GiveUp
      <4> QED
        BY <1>1, <4>4 DEF IInv, TypeOK
    <3> QED
      BY <3>1, <3>2, <3>3
  <2>2. NoNewcomers(r)
    <3>1. queue' = queue \/ \E n : Signal(m, n, capacity[m], queue, due)
      BY DEF Thrown, RollBack, GiveUp
    <3> QED
      BY <3>1, SignalFewer DEF NoNewcomers
  <2>3. ~(Opportunity(p, r)) \/ RollBack(p)
    BY <1>1 DEF Opportunity, Thrown, GiveUp, Fails
  <2>4. ~Opportunity(p, r)
    BY <1>1, <1>5, <2>3 DEF Opportunity
  <2> QED
    BY <1>1, <1>3, <2>1, <2>2, <2>4, CallerLeaves
<1> QED
  BY <1>4, <1>5

(* A step by somebody else changes nothing for those who may look at r.     *)
LEMMA NobodyLooks ==
  ASSUME SInv, NEW r \in Resources, in_use'[r] = in_use[r], capacity'[r] = capacity[r],
         NoNewcomers(r), shrinking = r => shrinking' = r, Dropping(r) => Dropping(r)',
         \A x \in Procs : Steady(x, r)
  PROVE  Answered(r)'
<1> PICK D : D = {}
  OBVIOUS
<1>1. \A x \in Procs \ D : Steady(x, r)
  OBVIOUS
<1>2. \A x \in D : Opportunity(x, r) => Handled(r)'
  OBVIOUS
<1>3. Answered(r)
  BY DEF SInv
<1> QED
  BY <1>1, <1>2, <1>3, StaysAnswered

(* A release, a change of capacity or a drop signals the room it is about.  *)
LEMMA SignalStep ==
  ASSUME IInv, QInv, SInv, NEW m \in Resources, NEW n \in Int, NEW cap \in Int,
         Signal(m, n, cap, queue, due), in_use' = [in_use EXCEPT ![m] = n],
         capacity' = [capacity EXCEPT ![m] = cap], UNCHANGED <<procs, awaits>>,
         \A x \in Procs : tags[x] \ {m} \subseteq tags'[x],
         \A x \in Procs : pc[x] \in {"wait", "woken"} => tags'[x] = tags[x],
         \A s \in Resources \ {m} : /\ shrinking = s => shrinking' = s
                                    /\ Dropping(s) => Dropping(s)',
         NEW r \in Resources
  PROVE  Answered(r)'
<1>1. CASE r = m
  <2>1. \A x \in Procs : (\E e \in queue[m] : e.proc = x) => WaitsOn(x)
    BY DEF QInv, Requesting, QueueFaithful, WaitsOn
  <2>2. in_use'[m] = n /\ capacity'[m] = cap
    BY DEF IInv, TypeOK
  <2> QED
    BY <1>1, <2>1, <2>2, SignalAnswers DEF QInv
<1>2. CASE r # m
  <2>1. in_use'[r] = in_use[r] /\ capacity'[r] = capacity[r]
    BY <1>2 DEF IInv, TypeOK
  <2>2. NoNewcomers(r)
    BY SignalFewer
  <2>3. \A x \in Procs : Steady(x, r)
    BY <1>2 DEF Steady
  <2>4. (shrinking = r => shrinking' = r) /\ (Dropping(r) => Dropping(r)')
    BY <1>2
  <2> QED
    BY <2>1, <2>2, <2>3, <2>4, NobodyLooks
<1> QED
  BY <1>1, <1>2

(* Who is stopped before it could look leaves that to the drop of its tag.  *)
LEMMA EndsAnswered ==
  ASSUME IInv, QInv, SInv, LoudEnds, NEW x \in Procs, Ends(x), Idle,
         pc[x] = "ready" \/ (Suspended(x) /\ x \in MayStop), NEW r \in Resources
  PROVE  Answered(r)'
<1>1. /\ in_use' = in_use /\ capacity' = capacity /\ tags' = tags
      /\ dying' = (IF tags[x] = {} THEN NoProc ELSE x)
      /\ \A y \in Procs \ {x} : pc'[y] = pc[y] /\ call'[y] = call[y] /\ sig'[y] = sig[y]
      /\ queue' = WithoutEntries(x)
  BY DEF Ends, IInv, TypeOK
<1>2. NoNewcomers(r)
  BY <1>1 DEF NoNewcomers, WithoutEntries
<1>3. ~Dropping(r) /\ shrinking # r
  BY NamesAssumption DEF Dropping, Idle
<1> PICK D : D = {x}
  OBVIOUS
<1>4. \A y \in Procs \ D : Steady(y, r)
  BY <1>1 DEF Steady
<1>5. Opportunity(x, r) => Dropping(r)'
  BY <1>1, NamesAssumption DEF Opportunity, Dropping, Suspended, LoudEnds
<1>6. \A y \in D : Opportunity(y, r) => Handled(r)'
  BY <1>5 DEF Handled
<1>7. Answered(r)
  BY DEF SInv
<1> QED
  BY <1>1, <1>2, <1>3, <1>4, <1>6, <1>7, StaysAnswered

LEMMA CallsAnswered ==
  ASSUME IInv, QInv, SInv, LoudEnds, NEW p \in Procs, Calls(p), NEW r \in Resources
  PROVE  Answered(r)'
<1>1. ASSUME NEW m \in Resources, NEW n \in {rq.amount : rq \in Requests[p]}, Release(p, m, n)
      PROVE  Answered(r)'
  <2> DEFINE left == in_use[m] - n
  <2>0. n \in Nat
    <3> PICK rq \in Requests[p] : n = rq.amount
      OBVIOUS
    <3> QED
      BY RequestsAssumption DEF Request
  <2>1. /\ n \in Nat /\ pc[p] = "ready" /\ Idle
        /\ Signal(m, left, capacity[m], queue, due) /\ in_use' = [in_use EXCEPT ![m] = left]
        /\ UNCHANGED <<procs, awaits, capacity, tasks>>
        /\ tags' = [tags EXCEPT ![p] = @ \ {m}] \/ tags' = tags
    <3>1. /\ Acts(p) /\ Signal(m, left, capacity[m], queue, due)
          /\ in_use' = [in_use EXCEPT ![m] = left]
          /\ UNCHANGED <<procs, awaits, capacity, tasks>>
      BY <1>1 DEF Release
    <3>2. \E all : tags' = [tags EXCEPT ![p] = IF all THEN @ \ {m} ELSE @]
      BY <1>1 DEF Release
    <3>3. tags' = [tags EXCEPT ![p] = @ \ {m}] \/ tags' = tags
      BY <3>2 DEF IInv, TypeOK
    <3> QED
      BY <2>0, <3>1, <3>3 DEF Acts
  <2>2. left \in Int /\ capacity[m] \in Int /\ capacity' = [capacity EXCEPT ![m] = capacity[m]]
    BY <2>1 DEF IInv, TypeOK
  <2>3. /\ \A x \in Procs : tags[x] \ {m} \subseteq tags'[x]
        /\ \A x \in Procs : pc[x] \in {"wait", "woken"} => tags'[x] = tags[x]
    BY <2>1 DEF IInv, TypeOK
  <2>4. \A s \in Resources \ {m} : /\ shrinking = s => shrinking' = s
                                   /\ Dropping(s) => Dropping(s)'
    BY <2>1 DEF Idle, Dropping
  <2> QED
    BY <2>1, <2>2, <2>3, <2>4, SignalStep
<1>2. CASE \/ \E m \in Resources, rq \in Requests[p] : Acquire(p, m, rq)
           \/ (\E s \in TimerSignals : TimerSet(p, s)) \/ TimersClear(p) \/ Hold(p)
  <2>1. /\ Idle /\ UNCHANGED <<in_use, capacity, tags, queue, tasks, sig>> /\ pc[p] = "ready"
        /\ pc' = pc \/ \E w : pc' = [pc EXCEPT ![p] = w]
        /\ call' = call \/ \E c : call' = [call EXCEPT ![p] = c]
    BY <1>2 DEF Acquire, TimerSet, TimersClear, Hold, Acts
  <2>2. \A x \in Procs \ {p} : Steady(x, r)
    BY <2>1 DEF Steady, IInv, TypeOK
  <2>3. ~Opportunity(p, r) /\ NoNewcomers(r)
    BY <2>1 DEF Opportunity, NoNewcomers
  <2> QED
    BY <2>1, <2>2, <2>3, CallerLeaves
<1>3. CASE Exit(p)
  BY <1>3, EndsAnswered, NamesAssumption DEF Exit, Acts
<1> QED
  BY <1>1, <1>2, <1>3 DEF Calls

LEMMA ControlsAnswered ==
  ASSUME IInv, QInv, SInv, LoudEnds, NEW a \in Controllers, Controls(a), NEW r \in Resources
  PROVE  Answered(r)'
<1>1. ASSUME NEW m \in Resources, NEW n \in Capacities, NEW mode, SetCapacity(a, m, n, mode)
      PROVE  Answered(r)'
  <2>1. /\ Idle /\ capacity' = [capacity EXCEPT ![m] = n] /\ n \in Int
        /\ UNCHANGED <<procs, in_use, awaits, tags, dying>>
    BY <1>1, CapacityAssumption DEF SetCapacity, Acts
  <2>2. CASE shrinking' = m /\ queue' = queue
    <3>1. CASE r = m
      BY <2>2, <3>1 DEF Answered, Handled
    <3>2. CASE r # m
      <4>1. capacity'[r] = capacity[r] /\ NoNewcomers(r) /\ \A x \in Procs : Steady(x, r)
        BY <2>1, <2>2, <3>2 DEF IInv, TypeOK, NoNewcomers, Steady
      <4>2. shrinking # r /\ ~Dropping(r)
        BY <2>1, NamesAssumption DEF Idle, Dropping
      <4> QED
        BY <2>1, <4>1, <4>2, NobodyLooks
    <3> QED
      BY <3>1, <3>2
  <2>3. CASE Signal(m, in_use[m], n, queue, due) /\ shrinking' = shrinking
    <3>1. in_use[m] \in Int /\ in_use' = [in_use EXCEPT ![m] = in_use[m]]
      BY <2>1 DEF IInv, TypeOK
    <3>2. \A s \in Resources \ {m} : /\ shrinking = s => shrinking' = s
                                     /\ Dropping(s) => Dropping(s)'
      BY <2>1, <2>3 DEF Dropping
    <3>3. /\ \A x \in Procs : tags[x] \ {m} \subseteq tags'[x]
          /\ \A x \in Procs : pc[x] \in {"wait", "woken"} => tags'[x] = tags[x]
      BY <2>1
    <3> QED
      BY <2>1, <2>3, <3>1, <3>2, <3>3, SignalStep
  <2> QED
    BY <1>1, <2>2, <2>3 DEF SetCapacity
<1>2. ASSUME NEW x \in Procs, x \in MayStop, Stop(a, x) PROVE Answered(r)'
  BY <1>2, EndsAnswered DEF Stop, Acts
<1>3. CASE \/ CallFails(a)
           \/ \E x \in Procs : \/ \E n \in Priorities : PrioritySet(a, x, n)
                               \/ \E s \in IntrSignals : Interrupt(a, x, s)
                               \/ \E s \in ResumeSignals : Resume(a, x, s)
  <2>1. UNCHANGED <<in_use, capacity, tags, tasks, pc, call, sig>>
    BY <1>3 DEF CallFails, PrioritySet, Interrupt, Resume
  <2>2. NoNewcomers(r)
    <3>1. ASSUME NEW x \in Procs, NEW n, PrioritySet(a, x, n) PROVE NoNewcomers(r)
      <4> SUFFICES ASSUME NEW e \in queue'[r] PROVE \E f \in queue[r] : f.proc = e.proc
        BY DEF NoNewcomers
      <4>1. e \in queue[r] \/ \E f \in queue[r] : \E k : e = [f EXCEPT !.rank = k]
        BY <3>1 DEF PrioritySet
      <4>2. \A f \in queue[r] : f \in Entry
        BY DEF IInv, TypeOK
      <4> QED
        BY <4>1, <4>2 DEF Entry
    <3>2. queue' = queue => NoNewcomers(r)
      BY DEF NoNewcomers
    <3> QED
      BY <1>3, <3>1, <3>2 DEF CallFails, Interrupt, Resume
  <2>3. \A x \in Procs : Steady(x, r)
    BY <2>1 DEF Steady
  <2>4. (shrinking = r => shrinking' = r) /\ (Dropping(r) => Dropping(r)')
    BY <2>1 DEF Dropping
  <2> QED
    BY <2>1, <2>2, <2>3, <2>4, NobodyLooks
<1> QED
  BY <1>1, <1>2, <1>3 DEF Controls

(* A wakeup takes its process to the look it is owed.                       *)
LEMMA EventLoopAnswered ==
  ASSUME IInv, QInv, SInv, EventLoop, NEW r \in Resources
  PROVE  Answered(r)'
<1>1. ASSUME NEW g \in due, Grant(g) \/ Interrupted(g) \/ Resumed(g), Resumes(g.proc, g.sig)
      PROVE  Answered(r)'
  <2> DEFINE p == g.proc
  <2>1. /\ Dispatch /\ Idle /\ UNCHANGED <<call, in_use, capacity, tags, tasks>>
        /\ queue' = queue \/ queue' = WithoutEntries(p)
    BY <1>1 DEF Grant, Interrupted, Resumed, Dispatch
  <2>2. /\ p \in Procs /\ pc[p] \in {"hold", "wait"}
        /\ pc[p] = "wait" => pc'[p] = "woken"
        /\ \A x \in Procs \ {p} : pc'[x] = pc[x] /\ sig'[x] = sig[x]
    BY <1>1, <2>1, RunsOn DEF QInv
  <2>3. NoNewcomers(r)
    BY <2>1 DEF NoNewcomers, WithoutEntries
  <2>4. \A x \in Procs \ {p} : Steady(x, r)
    BY <2>1, <2>2 DEF Steady
  <2>5. Opportunity(p, r) => Opportunity(p, r)'
    BY <2>1, <2>2, <2>3 DEF Opportunity, NoNewcomers
  <2>6. Opportunity(p, r) => Handled(r)'
    BY <2>2, <2>5 DEF Handled
  <2> QED
    BY <2>1, <2>2, <2>3, <2>4, <2>6, CallerLeaves
<1>2. CASE UNCHANGED <<procs, waits, units, caps, tasks>>
  <2>1. NoNewcomers(r) /\ \A x \in Procs : Steady(x, r)
    BY <1>2 DEF NoNewcomers, Steady
  <2>2. Dropping(r) => Dropping(r)'
    BY <1>2 DEF Dropping
  <2> QED
    BY <1>2, <2>1, <2>2, NobodyLooks
<1> QED
  BY <1>1, <1>2 DEF EventLoop, Grant, Interrupted, Resumed, Tick, HookRuns, HookEnds

(* What the engine and set_capacity take back, they signal when done.       *)
LEMMA TasksAnswered ==
  ASSUME IInv, QInv, SInv, Tasks, NEW r \in Resources
  PROVE  Answered(r)'
<1>1. ASSUME NEW v \in Procs, ShrinkEvict(v) PROVE Answered(r)'
  <2> DEFINE m == shrinking
  <2>1. /\ m \in Resources
        /\ in_use'  = [in_use EXCEPT ![m] = in_use[m] - holding[m][v].amount]
        /\ tags'    = [tags EXCEPT ![v] = @ \ {m}]
        /\ queue'   = WithoutEntries(v)
        /\ UNCHANGED <<procs, caps, tasks>>
    BY <1>1 DEF ShrinkEvict, IInv, TypeOK
  <2>2. CASE r = m
    BY <2>1, <2>2 DEF Answered, Handled
  <2>3. CASE r # m
    <3>1. in_use'[r] = in_use[r] /\ capacity'[r] = capacity[r]
      BY <2>1, <2>3 DEF IInv, TypeOK
    <3>2. NoNewcomers(r)
      BY <2>1 DEF NoNewcomers, WithoutEntries
    <3>3. \A x \in Procs : r \in tags[x] => r \in tags'[x]
      BY <2>1, <2>3 DEF IInv, TypeOK
    <3>4. \A x \in Procs : Steady(x, r)
      BY <2>1, <3>3 DEF Steady
    <3>5. Dropping(r) => Dropping(r)'
      BY <2>1, <3>3 DEF Dropping, IInv, TypeOK
    <3>6. shrinking = r => shrinking' = r
      BY <2>3
    <3> QED
      BY <3>1, <3>2, <3>4, <3>5, <3>6, NobodyLooks
  <2> QED
    BY <2>2, <2>3
<1>2. CASE ShrinkDone
  <2> DEFINE m == shrinking
  <2>1. /\ m \in Resources
        /\ Signal(m, in_use[m], capacity[m], queue, due)
        /\ UNCHANGED <<procs, awaits, in_use, tags, caps, dying>>
    BY <1>2 DEF ShrinkDone, IInv, TypeOK
  <2>2. /\ in_use[m] \in Int /\ in_use' = [in_use EXCEPT ![m] = in_use[m]]
        /\ capacity[m] \in Int /\ capacity' = [capacity EXCEPT ![m] = capacity[m]]
    BY <2>1 DEF IInv, TypeOK
  <2>3. \A s \in Resources \ {m} : /\ shrinking = s => shrinking' = s
                                   /\ Dropping(s) => Dropping(s)'
    BY <2>1 DEF Dropping
  <2>4. /\ \A x \in Procs : tags[x] \ {m} \subseteq tags'[x]
        /\ \A x \in Procs : pc[x] \in {"wait", "woken"} => tags'[x] = tags[x]
    BY <2>1
  <2> HIDE DEF m
  <2> QED
    BY <2>1, <2>2, <2>3, <2>4, SignalStep
<1>3. ASSUME NEW m \in Resources, Drop(m) PROVE Answered(r)'
  <2> DEFINE q == dying
             left == in_use[m] - holding[m][q].amount
  <2>1. /\ q \in Procs /\ pc[q] = "done" /\ m \in tags[q]
        /\ tags' = [tags EXCEPT ![q] = @ \ {m}]
        /\ in_use' = [in_use EXCEPT ![m] = left]
        /\ dying' = IF tags[q] = {m} THEN NoProc ELSE q
        /\ UNCHANGED <<procs, awaits, caps, shrinking>>
    BY <1>3 DEF Drop, IInv, TypeOK, QInv, DyingEnds
  <2>2. /\ left \in Int /\ capacity[m] \in Int
        /\ capacity' = [capacity EXCEPT ![m] = capacity[m]]
    BY <2>1 DEF IInv, TypeOK, Holding
  <2>3. /\ \A x \in Procs : tags[x] \ {m} \subseteq tags'[x]
        /\ \A x \in Procs : pc[x] \in {"wait", "woken"} => tags'[x] = tags[x]
    BY <2>1 DEF IInv, TypeOK
  <2>4. \A s \in Resources \ {m} : Dropping(s) => Dropping(s)'
    BY <2>1, <2>3, NamesAssumption DEF Dropping
  <2>5. CASE Signal(m, left, capacity[m], queue, due)
    <3>1. \A s \in Resources \ {m} : /\ shrinking = s => shrinking' = s
                                     /\ Dropping(s) => Dropping(s)'
      BY <2>1, <2>4
    <3> HIDE DEF left, q
    <3> QED
      BY <2>1, <2>2, <2>3, <2>5, <3>1, SignalStep
  <2>6. CASE holding[m][q].amount = 0 /\ ~StopPassesOn /\ queue' = queue
    <3>1. in_use'[r] = in_use[r] /\ capacity'[r] = capacity[r]
      BY <2>1, <2>6 DEF IInv, TypeOK
    <3>2. NoNewcomers(r) /\ ~Dropping(r)
      BY <2>6 DEF NoNewcomers, Dropping
    <3> PICK D : D = {q}
      OBVIOUS
    <3>3. \A x \in Procs \ D : Steady(x, r)
      BY <2>1 DEF Steady, IInv, TypeOK
    <3>4. \A x \in D : ~Opportunity(x, r)
      BY <2>1 DEF Opportunity
    <3>5. Answered(r) /\ (shrinking = r => shrinking' = r)
      BY <2>1 DEF SInv
    <3> QED
      BY <3>1, <3>2, <3>3, <3>4, <3>5, StaysAnswered
  <2> QED
    BY <1>3, <2>1, <2>5, <2>6 DEF Drop, IInv, TypeOK, Holding
<1> QED
  BY <1>1, <1>2, <1>3 DEF Tasks

-----------------------------------------------------------------------------
(* The invariant, and what it says at the end of an instant *)

LEMMA AnsweredKept ==
  ASSUME IInv, QInv, SInv, LoudEnds, [Next]_vars, NEW r \in Resources
  PROVE  Answered(r)'
<1>1. ASSUME NEW p \in Procs, InCall(p) PROVE Answered(r)'
  BY <1>1, ClaimsAnswered, EvictAnswered, WaitsAnswered, CallEndsAnswered DEF InCall
<1>2. CASE UNCHANGED vars
  <2>1. Answered(r)
    BY DEF SInv
  <2> QED
    BY <1>2, <2>1 DEF vars, Answered, Handled, Dropping, Opportunity
<1> QED
  BY <1>1, <1>2, CallsAnswered, ControlsAnswered, EventLoopAnswered, TasksAnswered DEF Next

LEMMA HeardKept ==
  ASSUME IInv, QInv, Heard, [Next]_vars
  PROVE  Heard'
<1>1. SignalsFrom(Plain \cup Signals)
  BY NoNewSignals DEF QInv
<1>2. CMB_PROCESS_SUCCESS \in Plain
  BY DEF Plain
<1> QED
  BY <1>1, <1>2 DEF Heard, SignalsFrom

LEMMA StrandBegins == Init => SInv
<1> SUFFICES ASSUME Init PROVE SInv
  OBVIOUS
<1>1. /\ \A p \in Procs : pc[p] = "hold" /\ sig[p] = CMB_PROCESS_SUCCESS
      /\ \A r \in Resources : queue[r] = {}
      /\ later = {} /\ dying = NoProc /\ shrinking = NoRes
      /\ due = {Wakeup("hold", p, CMB_PROCESS_SUCCESS) : p \in Procs}
  BY DEF Init
<1>2. Heard
  BY <1>1 DEF Heard, Wakeup, Plain
<1>3. Paused
  BY <1>1 DEF Paused, Idle
<1>4. \A p \in Procs : Full(p) /\ Untaken(p)
  BY <1>1 DEF Full, Untaken
<1>5. \A r \in Resources : Answered(r)
  BY <1>1 DEF Answered
<1> QED
  BY <1>2, <1>3, <1>4, <1>5 DEF SInv

LEMMA StrandInvariant == LoudEnds => (Spec => [](IInv /\ QInv /\ SInv))
<1> SUFFICES ASSUME LoudEnds PROVE Spec => [](IInv /\ QInv /\ SInv)
  OBVIOUS
<1>1. IInv /\ QInv /\ SInv /\ [Next]_vars => (IInv /\ QInv /\ SInv)'
  <2> SUFFICES ASSUME IInv, QInv, SInv, [Next]_vars PROVE (IInv /\ QInv /\ SInv)'
    OBVIOUS
  <2>1. IInv' /\ QInv'
    BY Keeps, QueueKeeps
  <2>2. Heard' /\ Paused'
    BY <2>1, HeardKept, PausedKept DEF SInv
  <2>3. \A p \in Procs : Full(p)'
    BY FullKept
  <2>4. OneUnit => \A p \in Procs : Untaken(p)'
    BY UntakenKept DEF SInv
  <2>5. \A r \in Resources : Answered(r)'
    BY AnsweredKept
  <2> QED
    BY <2>1, <2>2, <2>3, <2>4, <2>5 DEF SInv, OneUnit
<1> QED
  BY Begins, QueueBegins, StrandBegins, <1>1, PTL DEF Spec

(* "Any room goes to the waiting requests": when an instant is over, nobody *)
(* waits at a resource with free units.  It takes a model whose calls give  *)
(* up no part of what they have, no wakeup with the signal that wait_placed *)
(* does not pass on, and an engine that passes on the wait of one it stops. *)
THEOREM NobodyStranded == LoudEnds => (Spec => []NoStranded)
<1> SUFFICES ASSUME LoudEnds PROVE Spec => []NoStranded
  OBVIOUS
<1>1. IInv /\ QInv /\ SInv => NoStranded
  <2> SUFFICES ASSUME IInv, QInv, SInv, InstantOver,
                      NEW r \in Resources, Room(r, in_use[r]) > 0
               PROVE  queue[r] = {}
    BY DEF NoStranded
  <2>1. current = NoProc /\ due = {} /\ dying = NoProc /\ shrinking = NoRes
    BY DEF InstantOver, SInv, Paused
  <2>2. in_use[r] < capacity[r] /\ in_use[r] \in Nat /\ capacity[r] \in Nat
    BY DEF Room, IInv, TypeOK
  <2>3. ASSUME NEW p \in Procs, Opportunity(p, r) PROVE FALSE
    <3>1. pc[p] = "wait" /\ call[p].res = r /\ \A e \in queue[r] : e.proc # p
      BY <2>1, <2>3, NamesAssumption DEF Opportunity, IInv, OneRuns
    <3>2. MayGrant(p) \/ IsThrown(p)
      BY <3>1 DEF QInv, Reached
    <3> QED
      BY <2>1, <3>1, <3>2 DEF MayGrant, IsQueued, IsGranted, IsThrown
  <2>4. ~Handled(r)
    BY <2>1, <2>3, NamesAssumption DEF Handled, Dropping
  <2>5. Answered(r)
    BY DEF SInv
  <2> QED
    BY <2>2, <2>4, <2>5 DEF Answered
<1> QED
  BY <1>1, StrandInvariant, PTL
=============================================================================
