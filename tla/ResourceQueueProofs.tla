------------------------ MODULE ResourceQueueProofs ------------------------
(***************************************************************************)
(* Proofs about the waiting rooms, the wakeups and the calls of cb.Resource,*)
(* for any processes, resources, capacities, requests, priorities and      *)
(* signals, on top of the invariant of ResourceProofs.                     *)
(***************************************************************************)
EXTENDS ResourceProofs

USE DEF CMB_PROCESS_SUCCESS, CMB_PROCESS_PREEMPTED, CallSteps, Inside,
        procs, events, waits, units, caps, tasks

-----------------------------------------------------------------------------
(* The inductive invariant *)

(* Whoever waits carries the tag of the resource, and has made a request.   *)
EntriesTagged ==
  \A r \in Resources : \A e \in queue[r] : r \in tags[e.proc] /\ e.key # NoKey

(* A request's sequence number was given out, and to one process.           *)
KeysOwn ==
  /\ \A p \in Procs : call[p].key # NoKey => call[p].key[1] \in 1 .. request_seq
  /\ \A p, q \in Procs :
       call[p].key # NoKey /\ call[p].key[1] = call[q].key[1] => p = q

(* A grant on its way is for a request given out before: for this wait of   *)
(* its call or an earlier one, and for no wait still in the room unless the *)
(* episodes ran out.                                                        *)
GrantsOld ==
  \A g \in due : g.kind = "grant" =>
    /\ g.key[1] \in 1 .. request_seq
    /\ \A p \in Procs : call[p].key[1] = g.key[1] => g.key[2] <= call[p].key[2]
    /\ \A r \in Resources : \A e \in queue[r] : g.key = e.key => g.key[2] >= EPISODE_MAX

Requesting == QueueFaithful /\ EntriesTagged /\ KeysOwn /\ GrantsOld

(* Only the tags of a process that ended are left to drop, and while they   *)
(* are, no capacity shrinks.                                                *)
DyingEnds ==
  /\ dying # NoProc => pc[dying] = "done" /\ shrinking = NoRes
  /\ \A p \in Procs : pc[p] = "done" /\ dying # p => tags[p] = {}

(* No event is for a process that ended; those to come later are timers.    *)
EventsLive ==
  /\ \A g \in later \cup due : pc[g.proc] # "done"
  /\ \A g \in later : g.kind \in {"timer", "hold"}

(* A suspended caller is still reached by what can end its wait.            *)
Reached(p) == pc[p] = "wait" => MayGrant(p) \/ IsThrown(p)

(* What a call has and what it wants add up to what it was asked for.       *)
AddsUp(p) ==
  LET c == call[p]
  IN  \/ c.res = NoRes
      \/ holding[c.res][p].amount + c.rem = c.held0 + c.amount
      \/ IsThrown(p)
      \/ pc[p] \in {"woken", "settle"} /\ sig[p] = CMB_PROCESS_PREEMPTED

Sampled == \A r \in Resources : in_use[r] <= sampled[r]

QInv == /\ Requesting /\ DyingEnds /\ EventsLive /\ Sampled
        /\ \A p \in Procs : Reached(p) /\ AddsUp(p)

-----------------------------------------------------------------------------
(* What a step does to the rooms and to the processes *)

(* Of the rooms q and the events ev, the step moves some entries of q into  *)
(* grants, and does nothing else.                                           *)
Serves(q, ev) ==
  /\ \A s \in Resources : queue'[s] \subseteq q[s]
  /\ ev \subseteq due'
  /\ \A g \in due' \ ev : \E s \in Resources : \E e \in q[s] :
       g = GrantOf(s, e) /\ \A t \in Resources : \A f \in queue'[t] : f.key # e.key
  /\ \A s \in Resources : \A e \in q[s] \ queue'[s] : GrantOf(s, e) \in due'

(* The step leaves p as it is, and in q and ev what p waits for.            *)
Undisturbed(p, q, ev) ==
  /\ pc'[p] = pc[p] /\ call'[p] = call[p] /\ sig'[p] = sig[p]
  /\ awaits'[p] = awaits[p] /\ prio'[p] = prio[p] /\ tags'[p] = tags[p]
  /\ \A r \in Resources : holding'[r][p].amount = holding[r][p].amount
  /\ \A r \in Resources : \A e \in queue[r] : e.proc = p => e \in q[r]
  /\ \A g \in due : g.proc = p /\ g.kind \in {"grant", "interrupt"} => g \in ev

(* A wait of p outlasts the step.                                           *)
WaitsOn(p) ==
  /\ call'[p] = call[p] /\ awaits'[p] = awaits[p] /\ prio'[p] = prio[p]
  /\ tags[p] \subseteq tags'[p]
  /\ pc[p] \in {"wait", "woken"} => pc'[p] \in {"wait", "woken"}

(* The step disturbs the processes D only, whose waits it ends or keeps.    *)
Disturbs(D, q, ev) ==
  /\ Serves(q, ev)
  /\ \A s \in Resources : q[s] \subseteq queue[s]
  /\ \A p \in Procs \ D : Undisturbed(p, q, ev)
  /\ \A p \in D : /\ call'[p].key \in {call[p].key, NoKey}
                  /\ WaitsOn(p) \/ \A s \in Resources : \A e \in q[s] : e.proc # p
                  /\ Reached(p)' /\ AddsUp(p)'
  /\ request_seq' = request_seq

(* The events ev of this instant and those of later are for live processes. *)
Lives(ev) ==
  /\ \A g \in ev \cup later' : pc'[g.proc] # "done"
  /\ \A g \in ev : g \in due \/ g.kind # "grant"
  /\ \A g \in later' : g.kind \in {"timer", "hold"}

LEMMA SignalServes ==
  ASSUME IInv, Requesting, NEW r \in Resources, NEW n, NEW cap,
         NEW q \in [Resources -> SUBSET Entry], NEW ev \in SUBSET Event,
         \A s \in Resources : q[s] \subseteq queue[s],
         Signal(r, n, cap, q, ev)
  PROVE  Serves(q, ev)
<1> DEFINE granted == Granted(q[r], n, cap)
<1>1. granted \subseteq q[r]
  BY DEF Granted, Front
<1>2. /\ \A s \in Resources : queue'[s] = {e \in q[s] : \A g \in granted : e.key # g.key}
      /\ due' = ev \cup {GrantOf(r, e) : e \in granted}
  BY DEF Signal
<1> HIDE DEF granted
<1>3. ASSUME NEW s \in Resources, NEW e \in q[s] \ queue'[s]
      PROVE  GrantOf(s, e) \in due'
  <2>1. PICK g \in granted : e.key = g.key
    BY <1>2, <1>3
  <2>2. g \in queue[r] /\ e \in queue[s] /\ g \in Entry /\ e \in Entry
    BY <1>1, <2>1 DEF IInv, TypeOK
  <2>3. e.proc \in Procs /\ g.proc \in Procs
    BY <2>2 DEF Entry
  <2>4. /\ e.key = call[e.proc].key /\ g.key = call[g.proc].key /\ e.key # NoKey
        /\ call[e.proc].res = s /\ call[g.proc].res = r
    BY <2>2 DEF Requesting, QueueFaithful, EntriesTagged
  <2>5. e.proc = g.proc
    BY <2>1, <2>3, <2>4 DEF Requesting, KeysOwn
  <2>6. GrantOf(s, e) = GrantOf(r, g)
    BY <2>1, <2>4, <2>5 DEF GrantOf
  <2> QED
    BY <1>2, <2>6
<1>4. \A g \in due' \ ev : \E s \in Resources : \E e \in q[s] :
        g = GrantOf(s, e) /\ \A t \in Resources : \A f \in queue'[t] : f.key # e.key
  BY <1>1, <1>2
<1>5. ev \subseteq due' /\ \A s \in Resources : queue'[s] \subseteq q[s]
  BY <1>2
<1> QED
  BY <1>3, <1>4, <1>5 DEF Serves

(* The entries left in the rooms are of waits that go on.                   *)
LEMMA EntriesWaitOn ==
  ASSUME IInv, NEW D, NEW q, NEW ev, Disturbs(D, q, ev),
         NEW s \in Resources, NEW e \in q[s]
  PROVE  e \in queue[s] /\ e \in Entry /\ e.proc \in Procs /\ WaitsOn(e.proc)
<1>1. e \in queue[s] /\ e \in Entry /\ e.proc \in Procs
  BY DEF Disturbs, IInv, TypeOK, Entry
<1>2. CASE e.proc \in D
  BY <1>1, <1>2 DEF Disturbs
<1>3. CASE e.proc \notin D
  BY <1>1, <1>3 DEF Disturbs, Undisturbed, WaitsOn
<1> QED
  BY <1>1, <1>2, <1>3

LEMMA RequestingKept ==
  ASSUME IInv, TypeOK', Requesting, EventsLive, NEW D, NEW q, NEW ev,
         Disturbs(D, q, ev), Lives(ev)
  PROVE  Requesting'
<1>1. \A s \in Resources : \A e \in queue'[s] :
        e \in q[s] /\ e \in queue[s] /\ e \in Entry /\ e.proc \in Procs /\ WaitsOn(e.proc)
  BY EntriesWaitOn DEF Disturbs, Serves
<1>2. QueueFaithful'
  <2> SUFFICES ASSUME NEW s \in Resources, NEW e \in queue'[s]
               PROVE  LET c == call'[e.proc]
                      IN  /\ c.res = s /\ e.key = c.key /\ s \in awaits'[e.proc]
                          /\ pc'[e.proc] \in {"wait", "woken"}
                          /\ e.rank = request_rank(e.proc, call[e.proc])'
    BY DEF QueueFaithful
  <2> QED
    BY <1>1 DEF Requesting, QueueFaithful, WaitsOn, request_rank
<1>3. EntriesTagged'
  BY <1>1 DEF Requesting, EntriesTagged, WaitsOn
<1>4. \A p \in Procs : call'[p].key \in {call[p].key, NoKey}
  BY DEF Disturbs, Undisturbed
<1>5. KeysOwn'
  <2>1. NoKey[1] = 0 /\ request_seq' = request_seq
    BY DEF NoKey, Disturbs
  <2> QED
    BY <1>4, <2>1 DEF Requesting, KeysOwn
<1>6. GrantsOld'
  <2> SUFFICES ASSUME NEW g \in due', g.kind = "grant"
               PROVE  /\ g.key[1] \in 1 .. request_seq'
                      /\ \A p \in Procs : call'[p].key[1] = g.key[1]
                                            => g.key[2] <= call'[p].key[2]
                      /\ \A r \in Resources : \A e \in queue'[r] :
                           g.key = e.key => g.key[2] >= EPISODE_MAX
    BY DEF GrantsOld
  <2>1. NoKey[1] = 0 /\ request_seq' = request_seq /\ request_seq \in Nat
    BY DEF NoKey, Disturbs, IInv, TypeOK
  <2>2. CASE g \in ev
    <3>1. g \in due
      BY <2>2 DEF Lives
    <3>2. \A p \in Procs : call'[p].key[1] = g.key[1] => call'[p].key = call[p].key
      BY <1>4, <2>1, <3>1 DEF Requesting, GrantsOld
    <3> QED
      BY <1>1, <2>1, <3>1, <3>2 DEF Requesting, GrantsOld
  <2>3. CASE g \notin ev
    <3> PICK s \in Resources : \E e \in q[s] :
          g = GrantOf(s, e) /\ \A t \in Resources : \A f \in queue'[t] : f.key # e.key
      BY <2>3 DEF Disturbs, Serves
    <3>1. PICK e \in q[s] :
            g = GrantOf(s, e) /\ \A t \in Resources : \A f \in queue'[t] : f.key # e.key
      OBVIOUS
    <3>2. e \in queue[s] /\ e \in Entry /\ e.proc \in Procs
      BY EntriesWaitOn
    <3>3. g.key = e.key
      BY <3>1 DEF GrantOf
    <3>4. e.key = call[e.proc].key /\ e.key # NoKey
      BY <3>2 DEF Requesting, QueueFaithful, EntriesTagged
    <3>5. g.key[1] \in 1 .. request_seq
      BY <3>2, <3>3, <3>4 DEF Requesting, KeysOwn
    <3>6. ASSUME NEW p \in Procs, call'[p].key[1] = g.key[1]
          PROVE  g.key[2] <= call'[p].key[2]
      <4>1. call'[p].key = call[p].key
        BY <1>4, <2>1, <3>5, <3>6
      <4>2. p = e.proc
        BY <3>2, <3>3, <3>4, <3>6, <4>1 DEF Requesting, KeysOwn
      <4>3. call[p].key \in Nat \X Nat
        BY DEF IInv, TypeOK, Call, Key
      <4> QED
        BY <3>3, <3>4, <4>1, <4>2, <4>3
    <3> QED
      BY <2>1, <3>1, <3>3, <3>5, <3>6
  <2> QED
    BY <2>2, <2>3
<1> QED
  BY <1>2, <1>3, <1>5, <1>6 DEF Requesting

LEMMA EventsLiveKept ==
  ASSUME IInv, Requesting, EventsLive, NEW D, NEW q, NEW ev, Disturbs(D, q, ev), Lives(ev)
  PROVE  EventsLive'
<1>1. ASSUME NEW g \in due' \ ev
      PROVE  pc'[g.proc] # "done"
  <2> PICK s \in Resources : \E e \in q[s] : g = GrantOf(s, e)
    BY <1>1 DEF Disturbs, Serves
  <2>1. PICK e \in q[s] : g = GrantOf(s, e)
    OBVIOUS
  <2>2. e \in queue[s] /\ WaitsOn(e.proc)
    BY EntriesWaitOn
  <2>3. pc[e.proc] \in {"wait", "woken"}
    BY <2>2 DEF Requesting, QueueFaithful
  <2> QED
    BY <2>1, <2>2, <2>3 DEF WaitsOn, GrantOf
<1> QED
  BY <1>1 DEF Lives, EventsLive

(* What reaches a process the step leaves alone goes on to reach it, and its*)
(* call still adds up.                                                      *)
LEMMA Bystander ==
  ASSUME IInv, IInv', QInv, NEW q, NEW ev, Serves(q, ev),
         NEW p \in Procs, Undisturbed(p, q, ev)
  PROVE  Reached(p)' /\ AddsUp(p)'
<1> DEFINE r == call[p].res
<1>1. /\ pc'[p] = pc[p] /\ call'[p] = call[p] /\ sig'[p] = sig[p]
      /\ awaits'[p] = awaits[p]
      /\ \A s \in Resources : holding'[s][p].amount = holding[s][p].amount
      /\ \A s \in Resources : \A e \in queue[s] : e.proc = p => e \in q[s]
      /\ \A g \in due : g.proc = p /\ g.kind \in {"grant", "interrupt"} => g \in due'
  BY DEF Undisturbed, Serves
<1>2. IsThrown(p) => IsThrown(p)'
  BY <1>1 DEF IsThrown, Wakeup
<1>3. Reached(p)'
  <2>0. pc'[p] = "wait" => MayGrant(p) \/ IsThrown(p)
    BY <1>1 DEF Reached, QInv
  <2> SUFFICES ASSUME pc'[p] = "wait", MayGrant(p)
               PROVE  MayGrant(p)'
    BY <1>2, <2>0 DEF Reached
  <2>1. r \in Resources
    BY <1>1 DEF IInv, CallKnown
  <2>2. r \in awaits'[p] /\ call'[p].res = r
    BY <1>1 DEF MayGrant
  <2>3. CASE IsGranted(p)
    <3>1. PICK g \in due : /\ g.kind = "grant" /\ g.proc = p
                           /\ g.res = r /\ g.key = call[p].key
      BY <2>3 DEF IsGranted
    <3>2. g \in due'
      BY <1>1, <3>1
    <3>3. IsGranted(p)'
      BY <1>1, <3>1, <3>2 DEF IsGranted
    <3> QED
      BY <2>2, <3>3 DEF MayGrant
  <2>4. CASE IsQueued(p)
    <3>1. PICK e \in queue[r] : e.proc = p /\ e.key = call[p].key
      BY <2>4 DEF IsQueued
    <3>2. e \in q[r]
      BY <1>1, <2>1, <3>1
    <3>3. CASE e \in queue'[r]
      <4>1. IsQueued(p)'
        BY <1>1, <3>1, <3>3 DEF IsQueued
      <4> QED
        BY <2>2, <4>1 DEF MayGrant
    <3>4. CASE e \notin queue'[r]
      <4>1. GrantOf(r, e) \in due'
        BY <2>1, <3>2, <3>4 DEF Serves
      <4>2. /\ GrantOf(r, e).kind = "grant" /\ GrantOf(r, e).proc = p
            /\ GrantOf(r, e).res = r /\ GrantOf(r, e).key = call[p].key
        BY <3>1 DEF GrantOf
      <4>3. IsGranted(p)'
        BY <1>1, <4>1, <4>2 DEF IsGranted
      <4> QED
        BY <2>2, <4>3 DEF MayGrant
    <3> QED
      BY <3>3, <3>4
  <2> QED
    BY <2>3, <2>4 DEF MayGrant
<1>4. AddsUp(p)'
  <2>1. r \in Resources \cup {NoRes}
    BY DEF IInv, TypeOK, Call
  <2>2. r # NoRes => holding'[r][p].amount = holding[r][p].amount
    BY <1>1, <2>1
  <2> QED
    BY <1>1, <1>2, <2>2 DEF QInv, AddsUp
<1> QED
  BY <1>3, <1>4

LEMMA StepKeeps ==
  ASSUME IInv, IInv', QInv, NEW D, NEW q, NEW ev,
         Disturbs(D, q, ev), Lives(ev), DyingEnds', Sampled'
  PROVE  QInv'
<1>1. TypeOK'
  BY DEF IInv
<1>2. Requesting'
  BY <1>1, RequestingKept DEF QInv
<1>3. EventsLive'
  BY EventsLiveKept DEF QInv
<1>4. \A p \in Procs : Reached(p)' /\ AddsUp(p)'
  BY Bystander DEF Disturbs
<1> QED
  BY <1>2, <1>3, <1>4 DEF QInv

(* Nobody ends in the step, and no tag is dropped.                          *)
LEMMA NobodyEnds ==
  ASSUME IInv, DyingEnds, dying' = dying, shrinking' = shrinking \/ dying = NoProc,
         \A p \in Procs : pc'[p] = "done" => pc[p] = "done",
         \A p \in Procs : pc[p] = "done" => pc'[p] = "done",
         \A p \in Procs : pc[p] = "done" => tags'[p] \subseteq tags[p]
  PROVE  DyingEnds'
BY DEF DyingEnds, IInv, TypeOK

(* Nothing new is to happen, and nobody ends.                               *)
LEMMA NothingNew ==
  ASSUME IInv, EventsLive, NEW ev, ev \subseteq due, later' \subseteq later,
         \A p \in Procs : pc'[p] = "done" => pc[p] = "done"
  PROVE  Lives(ev)
BY DEF EventsLive, Lives, IInv, TypeOK, Event

(* Nobody is granted anything.                                              *)
LEMMA NoService == Serves(queue', due')
BY DEF Serves

(* A process that is not waiting has no entry.                              *)
LEMMA NotWaiting ==
  ASSUME Requesting, NEW p \in Procs, pc[p] \notin {"wait", "woken"}
  PROVE  \A s \in Resources : \A e \in queue[s] : e.proc # p
BY DEF Requesting, QueueFaithful

(* A call that returned waits for nothing and wants nothing.                *)
LEMMA Returned ==
  ASSUME IInv, NEW p \in Procs, Returns(p)
  PROVE  /\ call'[p].key = NoKey /\ Reached(p)' /\ AddsUp(p)'
         /\ pc'[p] = "ready"
         /\ \A x \in Procs \ {p} : /\ pc'[x] = pc[x] /\ call'[x] = call[x]
                                   /\ sig'[x] = sig[x]
<1>1. /\ pc'[p] = "ready" /\ call'[p] = NoCall
      /\ \A x \in Procs \ {p} : pc'[x] = pc[x] /\ call'[x] = call[x] /\ sig'[x] = sig[x]
  BY DEF Returns, IInv, TypeOK
<1> QED
  BY <1>1 DEF Reached, AddsUp, NoCall

-----------------------------------------------------------------------------
(* The steps of a call *)

LEMMA ClaimAllServes ==
  ASSUME IInv, IInv', QInv, NEW p \in Procs, ClaimAll(p)
  PROVE  QInv'
<1> DEFINE r == call[p].res
           n == in_use[r] + call[p].rem
<1>1. r \in Resources /\ pc[p] = "claim" /\ Returns(p)
  BY DEF ClaimAll, IInv, CallKnown
<1>2. Signal(r, n, capacity[r], queue, due)
  BY DEF ClaimAll
<1>3. Serves(queue, due)
  BY <1>1, <1>2, SignalServes DEF QInv, IInv, TypeOK
<1>4. \A x \in Procs \ {p} : Undisturbed(x, queue, due)
  <2>1. /\ holding' = [holding EXCEPT ![r][p] = Credited(p, r, call[p].rem, call[p])]
        /\ tags' = [tags EXCEPT ![p] = TagsAfter(p, r, call[p].rem)]
        /\ UNCHANGED <<prio, awaits>>
    BY DEF ClaimAll
  <2> QED
    BY <1>1, <2>1, Returned DEF Undisturbed, IInv, TypeOK
<1>5. Disturbs({p}, queue, due)
  BY <1>1, <1>3, <1>4, Returned, NotWaiting DEF Disturbs, ClaimAll, QInv
<1>6. DyingEnds'
  <2>1. \A x \in Procs : pc'[x] = "done" <=> pc[x] = "done"
    BY <1>1, Returned
  <2>2. \A x \in Procs : pc[x] = "done" => tags'[x] = tags[x]
    BY <1>1, <1>4 DEF Undisturbed
  <2> QED
    BY <2>1, <2>2, NobodyEnds DEF ClaimAll, QInv
<1>7. Lives(due)
  BY <1>1, Returned, NothingNew DEF ClaimAll, QInv
<1>8. Sampled'
  BY DEF ClaimAll, QInv, IInv, TypeOK, Sampled, record_sample
<1> QED
  BY <1>5, <1>6, <1>7, <1>8, StepKeeps

LEMMA ClaimSomeServes ==
  ASSUME IInv, IInv', QInv, NEW p \in Procs, ClaimSome(p)
  PROVE  QInv'
<1> DEFINE c == call[p]
           r == c.res
           avail == Room(r, in_use[r])
<1>1. /\ r \in Resources /\ c \in Call /\ pc[p] = "claim" /\ pc'[p] = "evict"
      /\ avail \in Nat /\ avail < c.rem /\ in_use[r] \in Nat
  BY RoomTyped DEF ClaimSome, IInv, CallKnown, TypeOK
<1>2. /\ in_use' = [in_use EXCEPT ![r] = in_use[r] + avail]
      /\ sampled' = IF avail > 0 THEN record_sample(r, in_use[r] + avail) ELSE sampled
      /\ holding' = [holding EXCEPT ![r][p] = Credited(p, r, avail, c)]
      /\ tags' = [tags EXCEPT ![p] = TagsAfter(p, r, avail)]
      /\ call' = [call EXCEPT ![p].rem = @ - avail]
      /\ pc' = [pc EXCEPT ![p] = "evict"]
      /\ UNCHANGED <<prio, sig, events, waits, tasks, request_seq>>
  BY DEF ClaimSome
<1>3. /\ call'[p].res = r /\ call'[p].rem = c.rem - avail /\ call'[p].key = c.key
      /\ call'[p].held0 = c.held0 /\ call'[p].amount = c.amount
  BY <1>1, <1>2 DEF IInv, TypeOK, Call
<1>4. holding'[r][p].amount = holding[r][p].amount + avail
  <2>1. holding'[r][p] = Credited(p, r, avail, c)
    BY <1>1, <1>2 DEF IInv, TypeOK
  <2> QED
    BY <1>1, <2>1, CreditedTyped DEF IInv
<1> HIDE DEF avail
<1>5. Reached(p)' /\ AddsUp(p)'
  <2>1. AddsUp(p)
    BY DEF QInv
  <2>2. /\ holding[r][p].amount \in Nat /\ c.rem \in Nat
        /\ c.held0 \in Nat /\ c.amount \in Nat
    BY <1>1 DEF IInv, TypeOK, Holding, Call
  <2>3. \/ holding[r][p].amount + c.rem = c.held0 + c.amount
        \/ IsThrown(p)
    BY <1>1, <2>1, NamesAssumption DEF AddsUp
  <2>4. IsThrown(p) <=> IsThrown(p)'
    BY <1>2 DEF IsThrown, Wakeup
  <2> HIDE DEF c
  <2>5. holding[r][p].amount + c.rem = c.held0 + c.amount =>
          holding'[r][p].amount + call'[p].rem = call'[p].held0 + call'[p].amount
    BY <1>1, <1>3, <1>4, <2>2
  <2> QED
    BY <1>1, <1>3, <2>3, <2>4, <2>5 DEF AddsUp, Reached
<1>6. \A x \in Procs \ {p} : Undisturbed(x, queue, due)
  BY <1>2 DEF Undisturbed, IInv, TypeOK
<1>7. Disturbs({p}, queue, due)
  BY <1>1, <1>2, <1>3, <1>5, <1>6, NoService, NotWaiting DEF Disturbs, QInv
<1>8. \A x \in Procs : pc'[x] = "done" <=> pc[x] = "done"
  BY <1>1, <1>6 DEF Undisturbed
<1>9. DyingEnds'
  <2>1. \A x \in Procs : pc[x] = "done" => tags'[x] = tags[x]
    BY <1>1, <1>6 DEF Undisturbed
  <2> QED
    BY <1>2, <1>8, <2>1, NobodyEnds DEF QInv
<1>10. Lives(due)
  BY <1>2, <1>8, NothingNew DEF QInv
<1>11. Sampled'
  BY <1>1, <1>2 DEF QInv, IInv, TypeOK, Sampled, record_sample
<1> QED
  BY <1>7, <1>9, <1>10, <1>11, StepKeeps

(* The victim of a preemption is alive, and no caller is its own victim.    *)
LEMMA Victim ==
  ASSUME IInv, QInv, NEW p \in Procs, NEW v \in Procs, Evict(p, v)
  PROVE  v # p /\ pc[v] # "done" /\ pc[p] = "evict" /\ call[p].res \in Resources
<1> DEFINE r == call[p].res
<1>1. /\ r \in Resources /\ pc[p] = "evict" /\ dying = NoProc
      /\ holding[r][v].amount > 0 /\ holding[r][v].rank < request_rank(p, call[p])
  BY DEF Evict, Idle, Outranked, IsFirstVictim, Holders, IInv, CallKnown
<1>2. v # p
  <2>1. holding[r][v].rank \in Int
    BY <1>1 DEF IInv, TypeOK, Holding
  <2> QED
    BY <1>1, <2>1 DEF IInv, CallerRanked
<1>3. pc[v] # "done"
  BY <1>1, NamesAssumption DEF IInv, TagsFaithful, QInv, DyingEnds
<1> QED
  BY <1>1, <1>2, <1>3

(* A process told of its preemption is reached, whatever else it loses.     *)
LEMMA Told ==
  ASSUME NEW v \in Procs, EventsAfterPreempt(v) \subseteq due'
  PROVE  Reached(v)' /\ AddsUp(v)'
<1>1. IsThrown(v)'
  BY DEF EventsAfterPreempt, IsThrown, Wakeup
<1> QED
  BY <1>1 DEF Reached, AddsUp

LEMMA EvictServes ==
  ASSUME IInv, IInv', QInv, NEW p \in Procs, NEW v \in Procs, Evict(p, v)
  PROVE  QInv'
<1> DEFINE c == call[p]
           r == c.res
           left == in_use[r] - holding[r][v].amount
           take == IF Room(r, left) < c.rem THEN Room(r, left) ELSE c.rem
           n == left + take
           done == take = c.rem
           q == WithoutEntries(v)
           ev == EventsAfterPreempt(v)
<1>1. /\ v # p /\ pc[v] # "done" /\ pc[p] = "evict" /\ r \in Resources /\ c \in Call
      /\ holding[r][v].amount \in Nat /\ in_use[r] \in Nat
  BY Victim DEF IInv, TypeOK, Holding
<1>2. left \in Nat /\ take \in Nat
  <2>1. left \in Nat
    BY <1>1, HeldIsInUse DEF IInv
  <2>2. c.rem \in Nat
    BY <1>1 DEF Call
  <2> QED
    BY <1>1, <2>1, <2>2, RoomTyped DEF IInv
<1>3. /\ in_use' = [in_use EXCEPT ![r] = n]
      /\ sampled' = IF n # in_use[r] \/ done THEN record_sample(r, n) ELSE sampled
      /\ holding' = [holding EXCEPT ![r][v] = NoHolding,
                                    ![r][p] = Credited(p, r, take, c)]
      /\ tags' = [tags EXCEPT ![v] = @ \ {r}, ![p] = TagsAfter(p, r, take)]
      /\ awaits' = [awaits EXCEPT ![v] = {}]
      /\ later' = WithoutTimers(v, later)
      /\ UNCHANGED <<current, prio, now, caps, tasks, request_seq, trial>>
      /\ dying = NoProc
  BY DEF Evict, Idle
<1>4. /\ done => Signal(r, n, capacity[r], q, ev) /\ Returns(p)
      /\ ~done => /\ queue' = q /\ due' = ev
                  /\ call' = [call EXCEPT ![p].rem = @ - take]
                  /\ UNCHANGED <<pc, sig>>
  BY DEF Evict
<1> HIDE DEF left, take, q, ev
<1>5. holding'[r][p].amount = holding[r][p].amount + take
  <2>1. holding'[r][p] = Credited(p, r, take, c)
    BY <1>1, <1>3 DEF IInv, TypeOK
  <2> QED
    BY <1>1, <1>2, <2>1, CreditedTyped DEF IInv
<1>6. /\ q \in [Resources -> SUBSET Entry] /\ ev \in SUBSET Event
      /\ \A s \in Resources : q[s] = {e \in queue[s] : e.proc # v}
  BY RemovalsTyped DEF IInv, WithoutEntries, q, ev
<1>7. Serves(q, ev)
  <2>1. CASE done
    BY <1>1, <1>4, <1>6, <2>1, SignalServes DEF QInv
  <2>2. CASE ~done
    BY <1>4, <2>2, NoService
  <2> QED
    BY <2>1, <2>2
<1>8. \A x \in Procs \ {p, v} : Undisturbed(x, q, ev)
  <2> SUFFICES ASSUME NEW x \in Procs \ {p, v} PROVE Undisturbed(x, q, ev)
    OBVIOUS
  <2>1. pc'[x] = pc[x] /\ call'[x] = call[x] /\ sig'[x] = sig[x]
    BY <1>4, Returned DEF IInv, TypeOK
  <2>2. /\ awaits'[x] = awaits[x] /\ prio'[x] = prio[x] /\ tags'[x] = tags[x]
        /\ \A s \in Resources : holding'[s][x].amount = holding[s][x].amount
    BY <1>3 DEF IInv, TypeOK
  <2>3. \A g \in due : g.proc = x => g \in ev
    BY DEF ev, EventsAfterPreempt, WithoutTimers
  <2> QED
    BY <1>6, <2>1, <2>2, <2>3 DEF Undisturbed
<1>9. Reached(v)' /\ AddsUp(v)' /\ call'[v] = call[v] /\ pc'[v] = pc[v]
  <2>1. ev \subseteq due'
    BY <1>7 DEF Serves
  <2>2. call'[v] = call[v] /\ pc'[v] = pc[v]
    BY <1>1, <1>4, Returned DEF IInv, TypeOK
  <2> QED
    BY <2>1, <2>2, Told DEF ev
<1>10. /\ Reached(p)' /\ AddsUp(p)' /\ call'[p].key \in {call[p].key, NoKey}
       /\ pc'[p] \in {"ready", "evict"}
  <2>1. CASE done
    BY <1>4, <2>1, Returned
  <2>2. CASE ~done
    <3>1. /\ call'[p].res = r /\ call'[p].rem = c.rem - take /\ call'[p].key = c.key
          /\ call'[p].held0 = c.held0 /\ call'[p].amount = c.amount /\ pc'[p] = "evict"
      BY <1>1, <1>4, <2>2 DEF IInv, TypeOK, Call
    <3>2. AddsUp(p)
      BY DEF QInv
    <3>3. /\ holding[r][p].amount \in Nat /\ c.rem \in Nat
          /\ c.held0 \in Nat /\ c.amount \in Nat
      BY <1>1 DEF IInv, TypeOK, Holding, Call
    <3>4. holding[r][p].amount + c.rem = c.held0 + c.amount \/ IsThrown(p)
      BY <1>1, <3>2, NamesAssumption DEF AddsUp
    <3>5. IsThrown(p) => IsThrown(p)'
      BY <1>1, <1>4, <2>2 DEF IsThrown, Wakeup, ev, EventsAfterPreempt, WithoutTimers
    <3> HIDE DEF c, done
    <3>6. holding[r][p].amount + c.rem = c.held0 + c.amount =>
            holding'[r][p].amount + call'[p].rem = call'[p].held0 + call'[p].amount
      BY <1>2, <1>5, <3>1, <3>3
    <3> QED
      BY <3>1, <3>4, <3>5, <3>6 DEF AddsUp, Reached, c
  <2> QED
    BY <2>1, <2>2
<1>11. Disturbs({p, v}, q, ev)
  <2>1. \A s \in Resources : \A e \in q[s] : e.proc # v /\ e.proc # p
    BY <1>1, <1>6, NotWaiting DEF QInv
  <2> QED
    BY <1>3, <1>6, <1>7, <1>8, <1>9, <1>10, <2>1 DEF Disturbs
<1>12. \A x \in Procs : pc'[x] = "done" <=> pc[x] = "done"
  BY <1>1, <1>8, <1>9, <1>10 DEF Undisturbed
<1>13. DyingEnds'
  <2>1. \A x \in Procs : pc[x] = "done" => tags'[x] = tags[x]
    BY <1>1, <1>8 DEF Undisturbed
  <2> QED
    BY <1>3, <1>12, <2>1, NobodyEnds DEF QInv
<1>14. Lives(ev)
  <2>1. \A g \in ev : g \in due \/ (g.proc = v /\ g.kind = "interrupt")
    BY DEF ev, EventsAfterPreempt, WithoutTimers, Wakeup
  <2>2. later' \subseteq later
    BY <1>3 DEF WithoutTimers
  <2> QED
    BY <1>1, <1>12, <2>1, <2>2 DEF Lives, QInv, EventsLive, IInv, TypeOK, Event
<1>15. Sampled'
  <2>1. n \in Int
    BY <1>2
  <2> QED
    BY <1>1, <1>3, <2>1 DEF QInv, IInv, TypeOK, Sampled, record_sample
<1> QED
  BY <1>11, <1>13, <1>14, <1>15, StepKeeps

LEMMA WaitOverServes ==
  ASSUME IInv, IInv', QInv, NEW p \in Procs, WaitOver(p)
  PROVE  QInv'
<1> DEFINE r == call[p].res
           queued == \E e \in queue[r] : e.proc = p
           q == IF PassesOn(p, queued) THEN queue ELSE WithoutEntries(p)
<1>1. /\ r \in Resources /\ pc[p] = "woken"
      /\ pc' = [pc EXCEPT ![p] = "settle"] /\ awaits' = [awaits EXCEPT ![p] = {}]
      /\ UNCHANGED <<current, prio, sig, call, now, later, units, caps, tasks, request_seq,
                     trial>>
  BY DEF WaitOver, IInv, CallKnown
<1>2. \A s \in Resources : q[s] = {e \in queue[s] : e.proc # p}
  <2>1. CASE PassesOn(p, queued)
    <3>1. ~queued
      BY <2>1 DEF PassesOn
    <3>2. \A s \in Resources : \A e \in queue[s] : e.proc # p
      BY <3>1 DEF QInv, Requesting, QueueFaithful
    <3> QED
      BY <2>1, <3>2
  <2>2. CASE ~PassesOn(p, queued)
    BY <2>2 DEF WithoutEntries
  <2> QED
    BY <2>1, <2>2
<1>3. Serves(q, due)
  <2>1. CASE PassesOn(p, queued)
    <3>1. Signal(r, in_use[r], capacity[r], queue, due)
      BY <2>1 DEF WaitOver
    <3> QED
      BY <1>1, <2>1, <3>1, SignalServes DEF QInv, IInv, TypeOK
  <2>2. CASE ~PassesOn(p, queued)
    BY <2>2, NoService DEF WaitOver
  <2> QED
    BY <2>1, <2>2
<1> HIDE DEF q
<1>4. \A x \in Procs \ {p} : Undisturbed(x, q, due)
  BY <1>1, <1>2 DEF Undisturbed, IInv, TypeOK
<1>5. Reached(p)' /\ AddsUp(p)'
  <2>1. AddsUp(p)
    BY DEF QInv
  <2>2. IsThrown(p) => IsThrown(p)'
    BY <1>3 DEF IsThrown, Wakeup, Serves
  <2>3. pc'[p] = "settle"
    BY <1>1 DEF IInv, TypeOK
  <2> QED
    BY <1>1, <2>1, <2>2, <2>3 DEF AddsUp, Reached
<1>6. Disturbs({p}, q, due)
  BY <1>1, <1>2, <1>3, <1>4, <1>5 DEF Disturbs
<1>7. DyingEnds'
  BY <1>1, NobodyEnds DEF QInv, IInv, TypeOK
<1>8. Lives(due)
  BY <1>1, NothingNew DEF QInv, IInv, TypeOK
<1>9. Sampled'
  BY <1>1 DEF QInv, Sampled
<1> QED
  BY <1>6, <1>7, <1>8, <1>9, StepKeeps

LEMMA RetryServes ==
  ASSUME IInv, IInv', QInv, NEW p \in Procs, Retry(p) \/ ResetMissing(p)
  PROVE  QInv'
<1>1. /\ pc[p] = "settle" /\ pc' \in {[pc EXCEPT ![p] = "claim"], pc}
      /\ UNCHANGED <<prio, sig, call, events, waits, units, tasks, request_seq>>
      /\ pc' = pc \/ sig[p] = CMB_PROCESS_SUCCESS
  BY DEF Retry, ResetMissing, Fails
<1>2. \A x \in Procs \ {p} : Undisturbed(x, queue, due)
  BY <1>1 DEF Undisturbed, IInv, TypeOK
<1>3. Reached(p)' /\ AddsUp(p)'
  <2>1. AddsUp(p) /\ pc'[p] \in {"claim", "settle"}
    BY <1>1 DEF QInv, IInv, TypeOK
  <2>2. IsThrown(p) <=> IsThrown(p)'
    BY <1>1 DEF IsThrown, Wakeup
  <2> QED
    BY <1>1, <2>1, <2>2 DEF AddsUp, Reached
<1>4. Disturbs({p}, queue, due)
  BY <1>1, <1>2, <1>3, NoService, NotWaiting DEF Disturbs, QInv
<1>5. DyingEnds'
  BY <1>1, NobodyEnds DEF QInv, IInv, TypeOK
<1>6. Lives(due)
  BY <1>1, NothingNew DEF QInv, IInv, TypeOK
<1>7. Sampled'
  BY <1>1 DEF QInv, Sampled
<1> QED
  BY <1>4, <1>5, <1>6, <1>7, StepKeeps

LEMMA CallEndsServes ==
  ASSUME IInv, IInv', QInv, NEW p \in Procs, Thrown(p) \/ RollBack(p) \/ GiveUp(p)
  PROVE  QInv'
<1> DEFINE c == call[p]
           r == c.res
           h == holding[r][p].amount
           left == in_use[r] - (h - c.held0)
<1>1. /\ r \in Resources /\ pc[p] = "settle" /\ Returns(p) /\ dying = NoProc
      /\ in_use[r] \in Nat /\ h \in Nat /\ c.held0 \in Nat
      /\ UNCHANGED <<current, prio, now, later, awaits, caps, tasks, request_seq, trial>>
  BY DEF Thrown, RollBack, GiveUp, Fails, Idle, IInv, CallKnown, TypeOK, Holding, Call
<1>2. /\ \A x \in Procs \ {p}, s \in Resources :
           holding'[s][x] = holding[s][x] /\ tags'[x] = tags[x]
      /\ \/ UNCHANGED <<queue, due>>
         \/ Signal(r, left, capacity[r], queue, due)
      /\ \/ UNCHANGED <<in_use, sampled>>
         \/ /\ in_use' = [in_use EXCEPT ![r] = left]
            /\ sampled' = [sampled EXCEPT ![r] = left]
         \/ /\ in_use' = [in_use EXCEPT ![r] = in_use[r] - h]
            /\ sampled' = [sampled EXCEPT ![r] = in_use[r] - h]
  <2>1. CASE Thrown(p)
    BY <1>1, <2>1 DEF Thrown, IInv, TypeOK
  <2>2. CASE RollBack(p)
    <3>1. \A x \in Procs \ {p}, s \in Resources :
            holding'[s][x] = holding[s][x] /\ tags'[x] = tags[x]
      BY <1>1, <2>2, SMTT(40) DEF RollBack, IInv, TypeOK
    <3> QED
      BY <2>2, <3>1 DEF RollBack, record_sample
  <2>3. CASE GiveUp(p)
    <3>1. \A x \in Procs \ {p}, s \in Resources :
            holding'[s][x] = holding[s][x] /\ tags'[x] = tags[x]
      BY <1>1, <2>3 DEF GiveUp, IInv, TypeOK
    <3> QED
      BY <2>3, <3>1, SMTT(40) DEF GiveUp, record_sample
  <2> QED
    BY <2>1, <2>2, <2>3
<1>3. Serves(queue, due)
  BY <1>1, <1>2, NoService, SignalServes DEF QInv, IInv, TypeOK
<1> HIDE DEF left, h, r, c
<1>4. \A x \in Procs \ {p} : Undisturbed(x, queue, due)
  BY <1>1, <1>2, Returned DEF Undisturbed
<1>5. Disturbs({p}, queue, due)
  BY <1>1, <1>3, <1>4, Returned, NotWaiting DEF Disturbs, QInv
<1>6. \A x \in Procs : pc'[x] = "done" <=> pc[x] = "done"
  BY <1>1, Returned
<1>7. DyingEnds'
  <2>1. \A x \in Procs : pc[x] = "done" => tags'[x] = tags[x]
    BY <1>1, <1>4 DEF Undisturbed
  <2> QED
    BY <1>1, <1>6, <2>1, NobodyEnds DEF QInv
<1>8. Lives(due)
  BY <1>1, <1>6, NothingNew DEF QInv
<1>9. Sampled'
  <2>1. left \in Int /\ in_use[r] - h \in Int
    BY <1>1 DEF left
  <2>2. \A s \in Resources : \/ in_use'[s] = in_use[s] /\ sampled'[s] = sampled[s]
                             \/ in_use'[s] \in Int /\ in_use'[s] = sampled'[s]
    BY <1>1, <1>2, <2>1 DEF IInv, TypeOK
  <2> QED
    BY <2>2 DEF QInv, Sampled
<1> QED
  BY <1>5, <1>7, <1>8, <1>9, StepKeeps

LEMMA EnterQueueServes ==
  ASSUME IInv, IInv', QInv, NEW p \in Procs, EnterQueue(p)
  PROVE  QInv'
<1> DEFINE c == call[p]
           r == c.res
           key == next_wait_key(c.key)
           e == [proc |-> p, key |-> key, rank |-> request_rank(p, c)]
<1>1. /\ r \in Resources /\ c \in Call /\ pc[p] = "evict" /\ c.key \in Nat \X Nat
      /\ request_seq \in Nat /\ EPISODE_MAX \in Nat /\ dying = NoProc
  BY BoundsAssumption DEF EnterQueue, Idle, IInv, CallKnown, TypeOK, Call, Key
<1>2. /\ call' = [call EXCEPT ![p].key = key]
      /\ queue' = [queue EXCEPT ![r] = @ \cup {e}]
      /\ awaits' = [awaits EXCEPT ![p] = @ \cup {r}]
      /\ tags' = [tags EXCEPT ![p] = @ \cup {r}]
      /\ request_seq' = IF c.key = NoKey THEN request_seq + 1 ELSE request_seq
      /\ pc' = [pc EXCEPT ![p] = "wait"]
      /\ UNCHANGED <<prio, sig, events, in_use, holding, sampled, caps, tasks, trial>>
  BY DEF EnterQueue
<1>3. /\ key[1] = IF c.key = NoKey THEN request_seq + 1 ELSE c.key[1]
      /\ key[2] = IF c.key = NoKey THEN 0
                  ELSE IF c.key[2] < EPISODE_MAX THEN c.key[2] + 1 ELSE c.key[2]
  BY DEF next_wait_key
<1>4. e.proc = p /\ e.key = key /\ e.rank = request_rank(p, c)
  OBVIOUS
<1> HIDE DEF key, e
<1>5. /\ call'[p].res = r /\ call'[p].rem = c.rem /\ call'[p].key = key
      /\ call'[p].held0 = c.held0 /\ call'[p].amount = c.amount
      /\ call'[p].fixed = c.fixed /\ call'[p].rank = c.rank
      /\ pc'[p] = "wait" /\ r \in awaits'[p] /\ r \in tags'[p]
      /\ \A x \in Procs \ {p} : /\ call'[x] = call[x] /\ pc'[x] = pc[x]
                                /\ awaits'[x] = awaits[x] /\ tags'[x] = tags[x]
  BY <1>1, <1>2 DEF IInv, TypeOK, Call
<1>6. /\ e \in queue'[r]
      /\ \A s \in Resources : \A f \in queue[s] : f \in queue'[s]
      /\ \A s \in Resources : \A f \in queue'[s] :
           \/ f \in queue[s] /\ f.proc \in Procs \ {p}
           \/ f = e /\ s = r
  <2>1. \A s \in Resources : \A f \in queue[s] : f.proc \in Procs \ {p}
    <3>1. \A s \in Resources : \A f \in queue[s] : f.proc \in Procs
      BY DEF IInv, TypeOK, Entry
    <3>2. \A s \in Resources : \A f \in queue[s] : f.proc # p
      BY <1>1, NotWaiting DEF QInv
    <3> QED
      BY <3>1, <3>2
  <2> QED
    BY <1>1, <1>2, <2>1 DEF IInv, TypeOK
<1>7. key # NoKey /\ key[1] \in 1 .. request_seq'
      /\ (c.key = NoKey => \A x \in Procs : call[x].key[1] # key[1])
  <2>1. NoKey[1] = 0
    BY DEF NoKey
  <2>2. \A x \in Procs : call[x].key = NoKey \/ call[x].key[1] \in 1 .. request_seq
    BY DEF QInv, Requesting, KeysOwn
  <2> QED
    BY <1>1, <1>2, <1>3, <2>1, <2>2
<1>8. QueueFaithful'
  <2> SUFFICES ASSUME NEW s \in Resources, NEW f \in queue'[s]
               PROVE  /\ call'[f.proc].res = s /\ f.key = call'[f.proc].key
                      /\ s \in awaits'[f.proc]
                      /\ pc'[f.proc] \in {"wait", "woken"}
                      /\ f.rank = request_rank(f.proc, call[f.proc])'
    BY DEF QueueFaithful
  <2>1. CASE f = e /\ s = r
    BY <1>2, <1>4, <1>5, <2>1 DEF request_rank
  <2>2. CASE f \in queue[s] /\ f.proc \in Procs \ {p}
    BY <1>2, <1>5, <2>2 DEF QInv, Requesting, QueueFaithful, request_rank
  <2> QED
    BY <1>6, <2>1, <2>2
<1>9. EntriesTagged'
  BY <1>4, <1>5, <1>6, <1>7 DEF QInv, Requesting, EntriesTagged
<1>10. KeysOwn'
  <2>1. request_seq' >= request_seq /\ request_seq' \in Nat
    BY <1>1, <1>2
  <2>2. \A x \in Procs \ {p} : call[x].key # NoKey => call[x].key[1] # key[1]
    BY <1>3, <1>7 DEF QInv, Requesting, KeysOwn
  <2>3. NoKey[1] = 0
    BY DEF NoKey
  <2> QED
    BY <1>1, <1>5, <1>7, <2>1, <2>2, <2>3 DEF QInv, Requesting, KeysOwn
<1>11. GrantsOld'
  <2> SUFFICES ASSUME NEW g \in due, g.kind = "grant"
               PROVE  /\ g.key[1] \in 1 .. request_seq'
                      /\ \A x \in Procs : call'[x].key[1] = g.key[1]
                                            => g.key[2] <= call'[x].key[2]
                      /\ \A s \in Resources : \A f \in queue'[s] :
                           g.key = f.key => g.key[2] >= EPISODE_MAX
    BY <1>2 DEF GrantsOld
  <2>1. /\ g.key[1] \in 1 .. request_seq
        /\ \A x \in Procs : call[x].key[1] = g.key[1] => g.key[2] <= call[x].key[2]
        /\ \A s \in Resources : \A f \in queue[s] : g.key = f.key => g.key[2] >= EPISODE_MAX
    BY DEF QInv, Requesting, GrantsOld
  <2>2. g.key \in Nat \X Nat
    BY DEF IInv, TypeOK, Event, Key
  <2>3. key[1] = g.key[1] => c.key # NoKey /\ g.key[2] <= c.key[2]
    BY <1>1, <1>3, <2>1
  <2>4. key[1] = g.key[1] => g.key[2] <= key[2]
    BY <1>1, <1>3, <2>2, <2>3
  <2>5. key = g.key => g.key[2] >= EPISODE_MAX
    BY <1>1, <1>3, <2>2, <2>3
  <2> QED
    BY <1>1, <1>2, <1>4, <1>5, <1>6, <2>1, <2>4, <2>5
<1>12. \A x \in Procs \ {p} : Reached(x)' /\ AddsUp(x)'
  <2>1. \A x \in Procs \ {p} : Undisturbed(x, queue', due')
    BY <1>2, <1>5, <1>6 DEF Undisturbed
  <2> QED
    BY <2>1, NoService, Bystander
<1>13. Reached(p)' /\ AddsUp(p)'
  <2>1. IsQueued(p)'
    BY <1>4, <1>5, <1>6 DEF IsQueued
  <2>2. AddsUp(p)
    BY DEF QInv
  <2>3. IsThrown(p) <=> IsThrown(p)'
    BY <1>2 DEF IsThrown, Wakeup
  <2> QED
    BY <1>1, <1>2, <1>5, <2>1, <2>2, <2>3 DEF Reached, MayGrant, AddsUp
<1>14. DyingEnds' /\ Sampled'
  <2>1. DyingEnds'
    BY <1>1, <1>2, <1>5, NobodyEnds DEF QInv
  <2> QED
    BY <1>2, <2>1 DEF QInv, Sampled
<1>15. EventsLive'
  BY <1>1, <1>2, <1>5 DEF QInv, EventsLive, IInv, TypeOK, Event
<1> QED
  BY <1>8, <1>9, <1>10, <1>11, <1>12, <1>13, <1>14, <1>15 DEF QInv, Requesting

-----------------------------------------------------------------------------
(* The calls of processes and hooks *)

(* Nothing changes but what is to happen, and no wakeup is lost.            *)
LEMMA OnlyEvents ==
  ASSUME IInv, IInv', QInv,
         UNCHANGED <<pc, call, sig, awaits, prio, tags, holding, queue, in_use, sampled,
                     tasks, request_seq>>,
         \A g \in due : g.kind \in {"grant", "interrupt"} => g \in due',
         \A g \in due' : g \in due \/ (g.kind # "grant" /\ pc[g.proc] # "done"),
         \A g \in later' : g \in later
                            \/ (g.kind \in {"timer", "hold"} /\ pc[g.proc] # "done")
  PROVE  QInv'
<1>1. \A x \in Procs : Undisturbed(x, queue', due')
  BY DEF Undisturbed
<1>2. Disturbs({}, queue', due')
  BY <1>1, NoService DEF Disturbs
<1>3. Lives(due')
  BY DEF Lives, QInv, EventsLive
<1>4. DyingEnds' /\ Sampled'
  BY DEF QInv, DyingEnds, Sampled
<1> QED
  BY <1>2, <1>3, <1>4, StepKeeps

(* Nothing changes but what a signal serves.                                *)
LEMMA OnlyService ==
  ASSUME IInv, IInv', QInv, DyingEnds', Sampled',
         UNCHANGED <<pc, call, sig, awaits, prio, tags, holding, later, request_seq>>,
         Serves(queue, due)
  PROVE  QInv'
<1>1. \A x \in Procs : Undisturbed(x, queue, due)
  BY DEF Undisturbed
<1>2. Disturbs({}, queue, due)
  BY <1>1 DEF Disturbs
<1>3. Lives(due)
  BY DEF Lives, QInv, EventsLive
<1> QED
  BY <1>2, <1>3, StepKeeps

LEMMA AcquireServes ==
  ASSUME IInv, IInv', QInv, NEW p \in Procs, NEW r \in Resources, NEW rq \in Requests[p],
         Acquire(p, r, rq)
  PROVE  QInv'
<1> DEFINE h == holding[r][p]
           c == [res |-> r, preempt |-> rq.preempt, fixed |-> rq.fixed,
                 rank |-> rq.rank, amount |-> rq.amount, rem |-> rq.amount,
                 key |-> NoKey,
                 held0 |-> h.amount, rank0 |-> h.rank, fixed0 |-> h.fixed]
<1>1. /\ pc[p] = "ready" /\ h \in Holding /\ h.amount \in Nat /\ rq.amount \in Nat
  <2>1. h \in Holding
    BY DEF IInv, TypeOK
  <2>2. rq \in Request
    BY RequestsAssumption
  <2> QED
    BY <2>1, <2>2 DEF Acquire, Acts, Holding, Request
<1>2. /\ pc' = [pc EXCEPT ![p] = "claim"] /\ call' = [call EXCEPT ![p] = c]
      /\ UNCHANGED <<current, prio, sig, events, waits, in_use, tags, sampled, caps,
                     tasks, request_seq, trial>>
  BY DEF Acquire
<1>3. \A x \in Procs, s \in Resources : holding'[s][x].amount = holding[s][x].amount
  BY <1>1 DEF Acquire, IInv, TypeOK, Holding
<1>4. \A x \in Procs \ {p} : Undisturbed(x, queue, due)
  BY <1>2, <1>3 DEF Undisturbed, IInv, TypeOK
<1>5. call'[p] = c /\ pc'[p] = "claim"
  BY <1>2 DEF IInv, TypeOK
<1>6. Reached(p)' /\ AddsUp(p)' /\ call'[p].key = NoKey
  <2>1. /\ call'[p].res = r /\ call'[p].rem = rq.amount /\ call'[p].held0 = h.amount
        /\ call'[p].amount = rq.amount /\ call'[p].key = NoKey
    BY <1>5
  <2>2. holding'[r][p].amount = h.amount
    BY <1>3
  <2> HIDE DEF h
  <2> QED
    BY <1>1, <1>5, <2>1, <2>2 DEF Reached, AddsUp
<1>7. Disturbs({p}, queue, due)
  BY <1>1, <1>2, <1>4, <1>6, NoService, NotWaiting DEF Disturbs, QInv
<1>8. DyingEnds'
  BY <1>2, <1>1, NobodyEnds DEF QInv, IInv, TypeOK
<1>9. Lives(due)
  BY <1>2, NothingNew DEF QInv, IInv, TypeOK
<1>10. Sampled'
  BY <1>2 DEF QInv, Sampled
<1> QED
  BY <1>7, <1>8, <1>9, <1>10, StepKeeps

LEMMA ReleaseServes ==
  ASSUME IInv, IInv', QInv, NEW p \in Procs, NEW r \in Resources, NEW n, Release(p, r, n)
  PROVE  QInv'
<1> DEFINE left == in_use[r] - n
<1>1. /\ pc[p] = "ready" /\ call[p].res = NoRes /\ dying = NoProc /\ left \in Int
      /\ UNCHANGED <<current, procs, now, later, awaits, caps, tasks, request_seq, trial>>
      /\ in_use' = [in_use EXCEPT ![r] = left] /\ sampled' = [sampled EXCEPT ![r] = left]
      /\ Signal(r, left, capacity[r], queue, due)
  <2>1. holding[r][p] \in Holding /\ in_use[r] \in Nat
    BY DEF IInv, TypeOK
  <2>2. left \in Int
    BY <2>1 DEF Release, Holding
  <2>3. pc[p] = "ready" /\ call[p].res = NoRes
    BY DEF Release, Acts, IInv, CallKnown
  <2> QED
    BY <2>2, <2>3 DEF Release, Acts, Idle, record_sample
<1>2. \A x \in Procs \ {p}, s \in Resources :
        holding'[s][x] = holding[s][x] /\ tags'[x] = tags[x]
  BY DEF Release, IInv, TypeOK
<1> HIDE DEF left
<1>3. Serves(queue, due)
  BY <1>1, SignalServes DEF QInv, IInv, TypeOK
<1>4. \A x \in Procs \ {p} : Undisturbed(x, queue, due)
  BY <1>1, <1>2 DEF Undisturbed
<1>5. Reached(p)' /\ AddsUp(p)'
  BY <1>1 DEF Reached, AddsUp
<1>6. Disturbs({p}, queue, due)
  BY <1>1, <1>3, <1>4, <1>5, NotWaiting DEF Disturbs, QInv
<1>7. DyingEnds'
  <2>1. \A x \in Procs : pc[x] = "done" => tags'[x] = tags[x]
    BY <1>1, <1>4 DEF Undisturbed
  <2> QED
    BY <1>1, <2>1, NobodyEnds DEF QInv
<1>8. Lives(due)
  BY <1>1, NothingNew DEF QInv
<1>9. Sampled'
  <2>1. \A s \in Resources : \/ in_use'[s] = in_use[s] /\ sampled'[s] = sampled[s]
                             \/ in_use'[s] \in Int /\ in_use'[s] = sampled'[s]
    BY <1>1 DEF IInv, TypeOK
  <2> QED
    BY <2>1 DEF QInv, Sampled
<1> QED
  BY <1>6, <1>7, <1>8, <1>9, StepKeeps

LEMMA HoldServes ==
  ASSUME IInv, IInv', QInv, NEW p \in Procs, Hold(p)
  PROVE  QInv'
<1>1. /\ pc[p] = "ready" /\ call[p].res = NoRes /\ pc' = [pc EXCEPT ![p] = "hold"]
      /\ later' = later \cup {Wakeup("hold", p, CMB_PROCESS_SUCCESS)}
      /\ UNCHANGED <<prio, sig, call, now, due, waits, units, caps, tasks, request_seq,
                     trial>>
  BY DEF Hold, Acts, IInv, CallKnown
<1>2. \A x \in Procs \ {p} : Undisturbed(x, queue, due)
  BY <1>1 DEF Undisturbed, IInv, TypeOK
<1>3. pc'[p] = "hold"
  BY <1>1 DEF IInv, TypeOK
<1>4. Reached(p)' /\ AddsUp(p)'
  BY <1>1, <1>3 DEF Reached, AddsUp
<1>5. Disturbs({p}, queue, due)
  BY <1>1, <1>2, <1>4, NoService, NotWaiting DEF Disturbs, QInv
<1>6. Lives(due)
  <2> DEFINE w == Wakeup("hold", p, CMB_PROCESS_SUCCESS)
  <2>0. w.proc = p /\ w.kind = "hold" /\ later' = later \cup {w}
    BY <1>1 DEF Wakeup
  <2> HIDE DEF w
  <2>1. \A g \in later' : g \in later \/ (g.proc = p /\ g.kind = "hold")
    BY <2>0
  <2>2. \A x \in Procs : pc'[x] = "done" <=> pc[x] = "done"
    BY <1>1, <1>3 DEF IInv, TypeOK
  <2> QED
    BY <1>1, <1>3, <2>1, <2>2 DEF Lives, QInv, EventsLive, IInv, TypeOK, Event
<1>7. DyingEnds' /\ Sampled'
  <2>1. DyingEnds'
    BY <1>1, NobodyEnds DEF QInv, IInv, TypeOK
  <2> QED
    BY <1>1, <2>1 DEF QInv, Sampled
<1> QED
  BY <1>5, <1>6, <1>7, StepKeeps

LEMMA EndsServes ==
  ASSUME IInv, IInv', QInv, NEW a, NEW x \in Procs, Acts(a), Ends(x)
  PROVE  QInv'
<1> DEFINE ev == WithoutEvents(x, due)
<1>1. /\ dying = NoProc /\ shrinking = NoRes
      /\ pc' = [pc EXCEPT ![x] = "done"] /\ call' = [call EXCEPT ![x] = NoCall]
      /\ sig' = [sig EXCEPT ![x] = CMB_PROCESS_SUCCESS]
      /\ awaits' = [awaits EXCEPT ![x] = {}]
      /\ queue' = WithoutEntries(x) /\ due' = ev
      /\ later' = WithoutEvents(x, later)
      /\ dying' = IF tags[x] = {} THEN NoProc ELSE x
      /\ UNCHANGED <<prio, now, units, caps, shrinking, request_seq, trial>>
  BY DEF Ends, Acts, Idle
<1>2. pc'[x] = "done" /\ call'[x] = NoCall
      /\ \A y \in Procs \ {x} : pc'[y] = pc[y] /\ call'[y] = call[y]
  BY <1>1 DEF IInv, TypeOK
<1>3. \A s \in Resources : queue'[s] = {e \in queue[s] : e.proc # x}
  BY <1>1 DEF WithoutEntries
<1>4. \A y \in Procs \ {x} : Undisturbed(y, queue', due')
  BY <1>1, <1>3 DEF Undisturbed, IInv, TypeOK, WithoutEvents
<1>5. Reached(x)' /\ AddsUp(x)' /\ call'[x].key = NoKey
  BY <1>2 DEF Reached, AddsUp, NoCall
<1>6. Disturbs({x}, queue', due')
  BY <1>1, <1>3, <1>4, <1>5, NoService DEF Disturbs
<1>7. Lives(due')
  <2>1. \A g \in due' \cup later' : g.proc \in Procs \ {x} /\ g \in due \cup later
    BY <1>1 DEF WithoutEvents, IInv, TypeOK, Event
  <2>2. due' \subseteq due /\ later' \subseteq later
    BY <1>1 DEF WithoutEvents
  <2> QED
    BY <1>2, <2>1, <2>2 DEF Lives, QInv, EventsLive
<1>8. DyingEnds'
  BY <1>1, <1>2, NamesAssumption DEF QInv, DyingEnds
<1>9. Sampled'
  BY <1>1 DEF QInv, Sampled
<1> QED
  BY <1>6, <1>7, <1>8, <1>9, StepKeeps

LEMMA SetCapacityServes ==
  ASSUME IInv, IInv', QInv, NEW a, NEW r \in Resources, NEW n \in Nat, NEW mode,
         SetCapacity(a, r, n, mode)
  PROVE  QInv'
<1>1. /\ dying = NoProc /\ dying' = dying
      /\ UNCHANGED <<current, procs, now, later, awaits, in_use, holding, tags, request_seq>>
      /\ \/ UNCHANGED <<queue, due, sampled>>
         \/ /\ sampled' = [sampled EXCEPT ![r] = in_use[r]]
            /\ Signal(r, in_use[r], n, queue, due)
  BY DEF SetCapacity, Acts, Idle, record_sample
<1>2. Serves(queue, due)
  BY <1>1, NoService, SignalServes DEF QInv, IInv, TypeOK
<1>3. DyingEnds'
  BY <1>1, NobodyEnds DEF QInv
<1>4. Sampled'
  BY <1>1 DEF QInv, IInv, TypeOK, Sampled
<1> QED
  BY <1>1, <1>2, <1>3, <1>4, OnlyService

LEMMA PrioritySetServes ==
  ASSUME IInv, IInv', QInv, NEW a, NEW x \in Procs, NEW n \in Int, PrioritySet(a, x, n)
  PROVE  QInv'
<1>1. /\ prio' = [prio EXCEPT ![x] = n]
      /\ UNCHANGED <<current, pc, sig, call, events, awaits, in_use, tags, sampled, caps,
                     tasks, request_seq, trial>>
  BY DEF PrioritySet
<1>2. \A s \in Resources, y \in Procs : holding'[s][y].amount = holding[s][y].amount
  <2> SUFFICES ASSUME NEW s \in Resources, NEW y \in Procs
               PROVE  holding'[s][y].amount = holding[s][y].amount
    OBVIOUS
  <2>1. holding[s] \in [Procs -> Holding]
    BY DEF IInv, TypeOK
  <2>2. holding'[s] \in {holding[s], [holding[s] EXCEPT ![x].rank = n]}
    BY DEF PrioritySet
  <2>3. [holding[s] EXCEPT ![x].rank = n][y].amount = holding[s][y].amount
    BY <2>1 DEF Holding
  <2> QED
    BY <2>2, <2>3
<1>3. /\ \A s \in Resources : \A e \in queue'[s] :
           \/ e \in queue[s] /\ e.proc # x
           \/ \E f \in queue[s] : f.proc = x /\ e.proc = x /\ e.key = f.key
                                   /\ e.rank = EntryRank(x, s, n)
      /\ \A s \in Resources : \A f \in queue[s] :
           \/ f \in queue'[s] /\ f.proc # x
           \/ f.proc = x /\ \E e \in queue'[s] : e.proc = x /\ e.key = f.key
  <2> SUFFICES ASSUME NEW s \in Resources
               PROVE  /\ \A e \in queue'[s] :
                           \/ e \in queue[s] /\ e.proc # x
                           \/ \E f \in queue[s] : f.proc = x /\ e.proc = x /\ e.key = f.key
                                                   /\ e.rank = EntryRank(x, s, n)
                      /\ \A f \in queue[s] :
                           \/ f \in queue'[s] /\ f.proc # x
                           \/ f.proc = x /\ \E e \in queue'[s] : e.proc = x /\ e.key = f.key
    OBVIOUS
  <2>1. queue'[s] = {e \in queue[s] : e.proc # x} \cup
                    {[e EXCEPT !.rank = EntryRank(x, s, n)] :
                       e \in {f \in queue[s] : f.proc = x}}
    BY DEF PrioritySet
  <2>2. \A f \in queue[s] : /\ [f EXCEPT !.rank = EntryRank(x, s, n)].proc = f.proc
                            /\ [f EXCEPT !.rank = EntryRank(x, s, n)].key = f.key
                            /\ [f EXCEPT !.rank = EntryRank(x, s, n)].rank
                                 = EntryRank(x, s, n)
    BY DEF IInv, TypeOK, Entry
  <2> QED
    BY <2>1, <2>2
<1>4. QueueFaithful'
  <2> SUFFICES ASSUME NEW s \in Resources, NEW e \in queue'[s]
               PROVE  /\ call[e.proc].res = s /\ e.key = call[e.proc].key
                      /\ s \in awaits[e.proc] /\ pc[e.proc] \in {"wait", "woken"}
                      /\ e.rank = request_rank(e.proc, call[e.proc])'
    BY <1>1 DEF QueueFaithful
  <2>1. CASE e \in queue[s] /\ e.proc # x
    <3>1. e.proc \in Procs
      BY <2>1 DEF IInv, TypeOK, Entry
    <3> QED
      BY <1>1, <2>1, <3>1 DEF QInv, Requesting, QueueFaithful, request_rank, IInv, TypeOK
  <2>2. ASSUME NEW f \in queue[s], f.proc = x, e.proc = x, e.key = f.key,
               e.rank = EntryRank(x, s, n)
        PROVE  /\ call[e.proc].res = s /\ e.key = call[e.proc].key
               /\ s \in awaits[e.proc] /\ pc[e.proc] \in {"wait", "woken"}
               /\ e.rank = request_rank(e.proc, call[e.proc])'
    <3>1. s \in tags[x]
      BY <2>2 DEF QInv, Requesting, EntriesTagged
    <3>2. prio'[x] = n
      BY <1>1 DEF IInv, TypeOK
    <3>3. e.rank = request_rank(x, call[x])'
      BY <1>1, <2>2, <3>1, <3>2 DEF EntryRank, request_rank
    <3> QED
      BY <2>2, <3>3 DEF QInv, Requesting, QueueFaithful
  <2> QED
    BY <1>3, <2>1, <2>2
<1>5. EntriesTagged' /\ KeysOwn' /\ GrantsOld'
  BY <1>1, <1>3 DEF QInv, Requesting, EntriesTagged, KeysOwn, GrantsOld
<1>6. \A y \in Procs \ {x} : Reached(y)' /\ AddsUp(y)'
  <2>1. \A y \in Procs \ {x} : Undisturbed(y, queue', due')
    BY <1>1, <1>2, <1>3 DEF Undisturbed, IInv, TypeOK
  <2> QED
    BY <2>1, NoService, Bystander
<1>7. Reached(x)' /\ AddsUp(x)'
  <2>1. IsThrown(x) = IsThrown(x)' /\ IsGranted(x) = IsGranted(x)'
    BY <1>1 DEF IsThrown, IsGranted, Wakeup
  <2>2. ASSUME pc[x] = "wait", IsQueued(x)
        PROVE  IsQueued(x)'
    <3>1. call[x].res \in Resources
      BY <2>2 DEF IInv, CallKnown
    <3> QED
      BY <1>1, <1>3, <2>2, <3>1 DEF IsQueued
  <2>3. Reached(x)'
    BY <1>1, <2>1, <2>2 DEF QInv, Reached, MayGrant
  <2>4. call[x].res \in Resources \cup {NoRes}
    BY DEF IInv, TypeOK, Call
  <2>5. AddsUp(x)'
    BY <1>1, <1>2, <2>1, <2>4 DEF QInv, AddsUp
  <2> QED
    BY <2>3, <2>5
<1>8. DyingEnds' /\ EventsLive' /\ Sampled'
  BY <1>1 DEF QInv, DyingEnds, EventsLive, Sampled
<1> QED
  BY <1>4, <1>5, <1>6, <1>7, <1>8 DEF QInv, Requesting

LEMMA CallsServe ==
  ASSUME IInv, IInv', QInv, NEW p \in Procs, Calls(p)
  PROVE  QInv'
<1>1. CASE \E r \in Resources, rq \in Requests[p] : Acquire(p, r, rq)
  BY <1>1, AcquireServes
<1>2. CASE \E r \in Resources, n \in {rq.amount : rq \in Requests[p]} : Release(p, r, n)
  BY <1>2, ReleaseServes
<1>3. ASSUME NEW s, TimerSet(p, s) \/ TimersClear(p)
      PROVE  QInv'
  <2>1. /\ pc[p] = "ready" /\ due' = WithoutTimers(p, due)
        /\ \A g \in later' : g \in later \/ g = Wakeup("timer", p, s)
    BY <1>3 DEF TimerSet, TimersClear, Acts, WithoutTimers
  <2>2. \A g \in due : g.kind \in {"grant", "interrupt"} => g \in due'
    BY <2>1 DEF WithoutTimers
  <2>3. \A g \in due' : g \in due
    BY <2>1 DEF WithoutTimers
  <2>4. \A g \in later' : g \in later
                          \/ (g.kind \in {"timer", "hold"} /\ pc[g.proc] # "done")
    BY <2>1 DEF Wakeup
  <2> QED
    BY <1>3, <2>2, <2>3, <2>4, OnlyEvents DEF TimerSet, TimersClear
<1>4. CASE Hold(p)
  BY <1>4, HoldServes
<1>5. CASE Exit(p)
  BY <1>5, EndsServes DEF Exit
<1> QED
  BY <1>1, <1>2, <1>3, <1>4, <1>5 DEF Calls

LEMMA ControlsServe ==
  ASSUME IInv, IInv', QInv, NEW a \in Controllers, Controls(a)
  PROVE  QInv'
<1>1. CASE CallFails(a)
  BY <1>1, OnlyEvents DEF CallFails
<1>2. CASE \E r \in Resources, n \in Capacities, mode \in {"finish", "preempt"} :
             SetCapacity(a, r, n, mode)
  BY <1>2, CapacityAssumption, SetCapacityServes
<1>3. ASSUME NEW x \in Procs, NEW n \in Priorities, PrioritySet(a, x, n)
      PROVE  QInv'
  BY <1>3, PriorityAssumption, PrioritySetServes
<1>4. ASSUME NEW x \in Procs, NEW s, Interrupt(a, x, s) \/ Resume(a, x, s)
      PROVE  QInv'
  <2> PICK kind \in {"interrupt", "resume"} : due' = due \cup {Wakeup(kind, x, s)}
    BY <1>4 DEF Interrupt, Resume
  <2> DEFINE w == Wakeup(kind, x, s)
  <2>1. w.kind # "grant" /\ w.proc = x /\ pc[x] # "done"
    BY <1>4 DEF Interrupt, Resume, Suspended, Wakeup
  <2> HIDE DEF w
  <2>2. \A g \in due' : g \in due \/ (g.kind # "grant" /\ pc[g.proc] # "done")
    BY <2>1 DEF w
  <2> QED
    BY <1>4, <2>2, OnlyEvents DEF Interrupt, Resume
<1>5. ASSUME NEW x \in Procs, Stop(a, x)
      PROVE  QInv'
  BY <1>5, EndsServes DEF Stop
<1> QED
  BY <1>1, <1>2, <1>3, <1>4, <1>5 DEF Controls

-----------------------------------------------------------------------------
(* The event loop *)

(* The process an event is for was suspended, and only it runs on.          *)
LEMMA RunsOn ==
  ASSUME IInv, EventsLive, NEW g \in due, Dispatch, Resumes(g.proc, g.sig)
  PROVE  /\ g \in Event /\ g.proc \in Procs /\ pc[g.proc] \in {"hold", "wait"}
         /\ pc'[g.proc] = IF pc[g.proc] = "wait" THEN "woken" ELSE "ready"
         /\ pc[g.proc] = "wait" => sig'[g.proc] = g.sig
         /\ \A x \in Procs \ {g.proc} : pc'[x] = pc[x] /\ sig'[x] = sig[x]
         /\ current' = g.proc
<1>1. g \in Event /\ g.proc \in Procs
  BY DEF IInv, TypeOK, Event
<1>2. pc[g.proc] \in {"hold", "wait"}
  BY <1>1, NamesAssumption DEF Dispatch, IInv, TypeOK, OneRuns, EventsLive
<1> QED
  BY <1>1, <1>2 DEF Resumes, IInv, TypeOK

LEMMA GrantServes ==
  ASSUME IInv, IInv', QInv, NEW g \in due, Grant(g)
  PROVE  QInv'
<1> DEFINE x == g.proc
<1>1. /\ g.kind = "grant" /\ Dispatch /\ due' = due \ {g} /\ x \in Procs
      /\ UNCHANGED <<prio, call, now, later, waits, units, caps, tasks, request_seq, trial>>
  BY DEF Grant, IInv, TypeOK, Event
<1>2. /\ \A y \in Procs \ {x} : pc'[y] = pc[y] /\ sig'[y] = sig[y]
      /\ \/ pc' = pc /\ sig' = sig /\ ~Awaited(g)
         \/ /\ pc[x] \in {"hold", "wait"}
            /\ pc'[x] = IF pc[x] = "wait" THEN "woken" ELSE "ready"
  BY RunsOn DEF Grant, QInv
<1>3. \A y \in Procs \ {x} : Undisturbed(y, queue', due')
  BY <1>1, <1>2 DEF Undisturbed
<1>4. Reached(x)'
  <2> SUFFICES ASSUME pc'[x] = "wait"
               PROVE  MayGrant(x)' \/ IsThrown(x)'
    BY DEF Reached
  <2>1. ~Awaited(g) /\ pc[x] = "wait"
    BY <1>2
  <2>2. IsThrown(x) => IsThrown(x)'
    BY <1>1 DEF IsThrown, Wakeup
  <2>3. IsQueued(x) <=> IsQueued(x)'
    BY <1>1 DEF IsQueued
  <2>4. ASSUME call[x].res \in awaits[x], IsGranted(x)
        PROVE  IsGranted(x)'
    <3>1. PICK f \in due : /\ f.kind = "grant" /\ f.proc = x
                           /\ f.res = call[x].res /\ f.key = call[x].key
      BY <2>4 DEF IsGranted
    <3>2. f # g
      BY <2>1, <2>4, <3>1 DEF Awaited
    <3> QED
      BY <1>1, <3>1, <3>2 DEF IsGranted
  <2>5. MayGrant(x) \/ IsThrown(x)
    BY <1>1, <2>1 DEF QInv, Reached
  <2> QED
    BY <1>1, <2>2, <2>3, <2>4, <2>5 DEF MayGrant
<1>5. AddsUp(x)'
  <2>1. AddsUp(x)
    BY <1>1 DEF QInv
  <2>2. IsThrown(x) => IsThrown(x)'
    BY <1>1 DEF IsThrown, Wakeup
  <2> QED
    BY <1>1, <1>2, <2>1, <2>2 DEF AddsUp
<1>6. WaitsOn(x)
  BY <1>1, <1>2 DEF WaitsOn
<1>7. Disturbs({x}, queue', due')
  BY <1>1, <1>3, <1>4, <1>5, <1>6, NoService DEF Disturbs
<1>8. \A y \in Procs : pc'[y] = "done" <=> pc[y] = "done"
  BY <1>2
<1>9. DyingEnds'
  BY <1>1, <1>8, NobodyEnds DEF QInv
<1>10. Lives(due')
  BY <1>1, <1>8, NothingNew DEF QInv
<1>11. Sampled'
  BY <1>1 DEF QInv, Sampled
<1> QED
  BY <1>7, <1>9, <1>10, <1>11, StepKeeps

LEMMA InterruptedServes ==
  ASSUME IInv, IInv', QInv, NEW g \in due, Interrupted(g)
  PROVE  QInv'
<1> DEFINE x == g.proc
<1>1. /\ g.kind = "interrupt" /\ Dispatch /\ Resumes(x, g.sig)
      /\ due' = WithoutTimers(x, due \ {g}) /\ later' = WithoutTimers(x, later)
      /\ queue' = WithoutEntries(x) /\ awaits' = [awaits EXCEPT ![x] = {}]
      /\ UNCHANGED <<prio, call, now, units, caps, tasks, request_seq, trial>>
  BY DEF Interrupted
<1>2. /\ g \in Event /\ x \in Procs /\ pc[x] \in {"hold", "wait"}
      /\ pc'[x] = IF pc[x] = "wait" THEN "woken" ELSE "ready"
      /\ pc[x] = "wait" => sig'[x] = g.sig
      /\ \A y \in Procs \ {x} : pc'[y] = pc[y] /\ sig'[y] = sig[y]
  BY <1>1, RunsOn DEF QInv
<1>3. \A s \in Resources : queue'[s] = {e \in queue[s] : e.proc # x}
  BY <1>1 DEF WithoutEntries
<1>4. \A f \in due : f \in due' \/ f = g \/ (f.proc = x /\ f.kind \in {"timer", "hold"})
  BY <1>1 DEF WithoutTimers
<1>5. \A y \in Procs \ {x} : Undisturbed(y, queue', due')
  <2> SUFFICES ASSUME NEW y \in Procs \ {x} PROVE Undisturbed(y, queue', due')
    OBVIOUS
  <2>1. awaits'[y] = awaits[y]
    BY <1>1, <1>2 DEF IInv, TypeOK
  <2>2. \A f \in due : f.proc = y => f \in due'
    BY <1>4
  <2> QED
    BY <1>1, <1>2, <1>3, <2>1, <2>2 DEF Undisturbed
<1>6. Reached(x)'
  BY <1>2 DEF Reached
<1>7. AddsUp(x)'
  <2>1. AddsUp(x)
    BY <1>2 DEF QInv
  <2>2. ASSUME IsThrown(x), ~IsThrown(x)'
        PROVE  g.sig = CMB_PROCESS_PREEMPTED
    BY <1>1, <1>4, <2>2 DEF IsThrown, Wakeup
  <2>3. pc[x] = "hold" => call[x].res = NoRes
    BY <1>2 DEF IInv, CallKnown
  <2> QED
    BY <1>1, <1>2, <2>1, <2>2, <2>3 DEF AddsUp
<1>8. Disturbs({x}, queue', due')
  BY <1>1, <1>3, <1>5, <1>6, <1>7, NoService DEF Disturbs
<1>9. \A y \in Procs : pc'[y] = "done" <=> pc[y] = "done"
  BY <1>2
<1>10. DyingEnds'
  BY <1>1, <1>9, NobodyEnds DEF QInv
<1>11. Lives(due')
  <2>1. due' \subseteq due /\ later' \subseteq later
    BY <1>1 DEF WithoutTimers
  <2> QED
    BY <1>9, <2>1, NothingNew DEF QInv
<1>12. Sampled'
  BY <1>1 DEF QInv, Sampled
<1> QED
  BY <1>8, <1>10, <1>11, <1>12, StepKeeps

LEMMA ResumedServes ==
  ASSUME IInv, IInv', QInv, NEW g \in due, Resumed(g)
  PROVE  QInv'
<1> DEFINE x == g.proc
<1>1. /\ g.kind \in {"timer", "hold", "resume"} /\ Dispatch /\ Resumes(x, g.sig)
      /\ due' \in {WithoutHold(x, due \ {g}), due \ {g}}
      /\ later' \in {WithoutHold(x, later), later}
      /\ UNCHANGED <<prio, call, now, waits, units, caps, tasks, request_seq, trial>>
  BY DEF Resumed
<1>2. /\ g \in Event /\ x \in Procs /\ pc[x] \in {"hold", "wait"}
      /\ pc'[x] = IF pc[x] = "wait" THEN "woken" ELSE "ready"
      /\ \A y \in Procs \ {x} : pc'[y] = pc[y] /\ sig'[y] = sig[y]
  BY <1>1, RunsOn DEF QInv
<1>3. \A f \in due : f.kind \in {"grant", "interrupt"} => f \in due'
  BY <1>1 DEF WithoutHold
<1>4. \A y \in Procs \ {x} : Undisturbed(y, queue', due')
  BY <1>1, <1>2, <1>3 DEF Undisturbed
<1>5. Reached(x)'
  BY <1>2 DEF Reached
<1>6. AddsUp(x)'
  <2>1. AddsUp(x)
    BY <1>2 DEF QInv
  <2>2. IsThrown(x) => IsThrown(x)'
    BY <1>3 DEF IsThrown, Wakeup
  <2> QED
    BY <1>1, <1>2, <2>1, <2>2 DEF AddsUp
<1>7. WaitsOn(x)
  BY <1>1, <1>2 DEF WaitsOn
<1>8. Disturbs({x}, queue', due')
  BY <1>1, <1>4, <1>5, <1>6, <1>7, NoService DEF Disturbs
<1>9. \A y \in Procs : pc'[y] = "done" <=> pc[y] = "done"
  BY <1>2
<1>10. DyingEnds'
  BY <1>1, <1>9, NobodyEnds DEF QInv
<1>11. Lives(due')
  <2>1. due' \subseteq due /\ later' \subseteq later
    BY <1>1 DEF WithoutHold
  <2> QED
    BY <1>9, <2>1, NothingNew DEF QInv
<1>12. Sampled'
  BY <1>1 DEF QInv, Sampled
<1> QED
  BY <1>8, <1>10, <1>11, <1>12, StepKeeps

LEMMA EventLoopServes ==
  ASSUME IInv, IInv', QInv, EventLoop
  PROVE  QInv'
<1>1. ASSUME NEW S \in SUBSET later, Tick(S)
      PROVE  QInv'
  <2>1. \A g \in due' : g \in due \/ (g.kind # "grant" /\ pc[g.proc] # "done")
    BY <1>1 DEF Tick, QInv, EventsLive
  <2>2. due = {} /\ \A g \in later' : g \in later
    BY <1>1 DEF Tick
  <2> QED
    BY <1>1, <2>1, <2>2, OnlyEvents DEF Tick
<1>2. CASE HookRuns \/ HookEnds
  BY <1>2, OnlyEvents DEF HookRuns, HookEnds
<1> QED
  BY <1>1, <1>2, GrantServes, InterruptedServes, ResumedServes DEF EventLoop

-----------------------------------------------------------------------------
(* The preemptions of a lower capacity, and the tags of a process that ends *)

LEMMA ShrinkEvictServes ==
  ASSUME IInv, IInv', QInv, NEW v \in Procs, ShrinkEvict(v)
  PROVE  QInv'
<1> DEFINE r == shrinking
<1>1. /\ r \in Resources /\ holding[r][v].amount > 0 /\ holding[r][v].amount \in Nat
      /\ in_use[r] \in Nat
  BY DEF ShrinkEvict, IsFirstVictim, Holders, IInv, TypeOK, Holding
<1>2. /\ in_use' = [in_use EXCEPT ![r] = in_use[r] - holding[r][v].amount]
      /\ holding' = [holding EXCEPT ![r][v] = NoHolding]
      /\ tags' = [tags EXCEPT ![v] = @ \ {r}]
      /\ queue' = WithoutEntries(v) /\ due' = EventsAfterPreempt(v)
      /\ later' = WithoutTimers(v, later) /\ awaits' = [awaits EXCEPT ![v] = {}]
      /\ UNCHANGED <<current, procs, now, sampled, caps, tasks, request_seq, trial>>
  BY DEF ShrinkEvict
<1>3. dying = NoProc
  BY <1>1, NamesAssumption DEF QInv, DyingEnds
<1>4. pc[v] # "done"
  BY <1>1, <1>3, NamesAssumption DEF IInv, TagsFaithful, QInv, DyingEnds
<1>5. \A s \in Resources : queue'[s] = {e \in queue[s] : e.proc # v}
  BY <1>2 DEF WithoutEntries
<1>6. \A x \in Procs \ {v} : Undisturbed(x, queue', due')
  <2>1. \A x \in Procs \ {v} : \A g \in due : g.proc = x => g \in due'
    BY <1>2 DEF EventsAfterPreempt, WithoutTimers
  <2>2. \A x \in Procs \ {v}, s \in Resources :
          holding'[s][x] = holding[s][x] /\ tags'[x] = tags[x] /\ awaits'[x] = awaits[x]
    BY <1>2 DEF IInv, TypeOK
  <2> QED
    BY <1>1, <1>2, <1>5, <2>1, <2>2 DEF Undisturbed
<1>7. Reached(v)' /\ AddsUp(v)'
  BY <1>2, Told
<1>8. Disturbs({v}, queue', due')
  BY <1>2, <1>5, <1>6, <1>7, NoService DEF Disturbs
<1>9. DyingEnds'
  <2>1. \A x \in Procs : pc[x] = "done" => tags'[x] = tags[x]
    BY <1>4, <1>6 DEF Undisturbed
  <2> QED
    BY <1>2, <2>1, NobodyEnds DEF QInv
<1>10. Lives(due')
  <2>1. \A g \in due' : g \in due \/ (g.proc = v /\ g.kind = "interrupt")
    BY <1>2 DEF EventsAfterPreempt, WithoutTimers, Wakeup
  <2>2. later' \subseteq later
    BY <1>2 DEF WithoutTimers
  <2> QED
    BY <1>2, <1>4, <2>1, <2>2 DEF Lives, QInv, EventsLive
<1>11. Sampled'
  <2>1. \A s \in Resources : in_use'[s] <= in_use[s] /\ in_use'[s] \in Int
    BY <1>1, <1>2 DEF IInv, TypeOK
  <2> QED
    BY <1>2, <2>1 DEF QInv, Sampled, IInv, TypeOK
<1> QED
  BY <1>8, <1>9, <1>10, <1>11, StepKeeps

LEMMA ShrinkDoneServes ==
  ASSUME IInv, IInv', QInv, ShrinkDone
  PROVE  QInv'
<1> DEFINE r == shrinking
<1>1. /\ r \in Resources /\ sampled' = [sampled EXCEPT ![r] = in_use[r]]
      /\ Signal(r, in_use[r], capacity[r], queue, due) /\ shrinking' = NoRes
      /\ UNCHANGED <<current, procs, now, later, awaits, in_use, holding, tags, caps,
                     dying, request_seq, trial>>
  BY DEF ShrinkDone, record_sample, IInv, TypeOK
<1>2. Serves(queue, due)
  BY <1>1, SignalServes DEF QInv, IInv, TypeOK
<1>3. DyingEnds'
  BY <1>1 DEF QInv, DyingEnds
<1>4. Sampled'
  BY <1>1 DEF QInv, IInv, TypeOK, Sampled
<1> QED
  BY <1>1, <1>2, <1>3, <1>4, OnlyService

LEMMA DropServes ==
  ASSUME IInv, IInv', QInv, NEW r \in Resources, Drop(r)
  PROVE  QInv'
<1> PICK x \in Procs : x = dying
  BY DEF Drop, IInv, TypeOK
<1> DEFINE left == in_use[r] - holding[r][x].amount
<1>1. /\ pc[x] = "done" /\ call[x].res = NoRes /\ shrinking = NoRes
      /\ in_use[r] \in Nat /\ holding[r][x].amount \in Nat
  <2>1. pc[x] = "done" /\ shrinking = NoRes
    BY DEF Drop, QInv, DyingEnds
  <2>2. call[x].res = NoRes
    BY <2>1 DEF IInv, CallKnown
  <2>3. holding[r][x] \in Holding /\ in_use[r] \in Nat
    BY DEF IInv, TypeOK
  <2> QED
    BY <2>1, <2>2, <2>3 DEF Holding
<1>2. /\ tags' = [tags EXCEPT ![x] = @ \ {r}]
      /\ in_use' = [in_use EXCEPT ![r] = left]
      /\ holding' = [holding EXCEPT ![r][x] = NoHolding]
      /\ dying' = IF tags[x] = {r} THEN NoProc ELSE x
      /\ Signal(r, left, capacity[r], queue, due) \/ UNCHANGED <<queue, due>>
      /\ UNCHANGED <<current, procs, now, later, awaits, sampled, caps, shrinking,
                     request_seq, trial>>
  BY DEF Drop
<1>3. left \in Int /\ left <= in_use[r]
  BY <1>1
<1> HIDE DEF left
<1>4. Serves(queue, due)
  BY <1>2, NoService, SignalServes DEF QInv, IInv, TypeOK
<1>5. \A y \in Procs \ {x}, s \in Resources :
        holding'[s][y] = holding[s][y] /\ tags'[y] = tags[y]
  BY <1>1, <1>2 DEF IInv, TypeOK
<1>6. \A y \in Procs \ {x} : Undisturbed(y, queue, due)
  BY <1>2, <1>5 DEF Undisturbed
<1>7. Reached(x)' /\ AddsUp(x)'
  BY <1>1, <1>2 DEF Reached, AddsUp
<1>8. Disturbs({x}, queue, due)
  BY <1>1, <1>2, <1>4, <1>6, <1>7, NotWaiting DEF Disturbs, QInv
<1>9. DyingEnds'
  <2>1. tags'[x] = tags[x] \ {r}
    BY <1>1, <1>2 DEF IInv, TypeOK
  <2>2. dying' = NoProc => tags'[x] = {}
    BY <1>1, <1>2, <2>1, NamesAssumption
  <2> QED
    BY <1>1, <1>2, <1>5, <2>2 DEF QInv, DyingEnds
<1>10. Lives(due)
  BY <1>2, NothingNew DEF QInv
<1>11. Sampled'
  <2>1. \A s \in Resources : in_use'[s] <= in_use[s] /\ in_use'[s] \in Int
    BY <1>2, <1>3 DEF IInv, TypeOK
  <2> QED
    BY <1>2, <2>1 DEF QInv, Sampled, IInv, TypeOK
<1> QED
  BY <1>8, <1>9, <1>10, <1>11, StepKeeps

-----------------------------------------------------------------------------
(* The theorems *)

LEMMA QueueBegins == Init => QInv
<1> SUFFICES ASSUME Init PROVE QInv
  OBVIOUS
<1>1. /\ \A p \in Procs : pc[p] = "hold" /\ call[p] = NoCall /\ tags[p] = {}
      /\ \A r \in Resources : queue[r] = {} /\ in_use[r] = 0 /\ sampled[r] = 0
      /\ later = {} /\ dying = NoProc
      /\ due = {Wakeup("hold", p, CMB_PROCESS_SUCCESS) : p \in Procs}
  BY DEF Init
<1>2. \A g \in due : g.kind = "hold" /\ g.proc \in Procs
  BY <1>1 DEF Wakeup
<1>3. Requesting
  BY <1>1, <1>2 DEF Requesting, QueueFaithful, EntriesTagged, KeysOwn, GrantsOld, NoCall
<1>4. DyingEnds /\ EventsLive /\ Sampled
  BY <1>1, <1>2 DEF DyingEnds, EventsLive, Sampled
<1>5. \A p \in Procs : Reached(p) /\ AddsUp(p)
  BY <1>1 DEF Reached, AddsUp, NoCall
<1> QED
  BY <1>3, <1>4, <1>5 DEF QInv

LEMMA QueueKeeps == IInv /\ IInv' /\ QInv /\ [Next]_vars => QInv'
<1> SUFFICES ASSUME IInv, IInv', QInv, [Next]_vars PROVE QInv'
  OBVIOUS
<1>1. ASSUME NEW p \in Procs, InCall(p)
      PROVE  QInv'
  BY <1>1, ClaimAllServes, ClaimSomeServes, EvictServes, EnterQueueServes,
     WaitOverServes, RetryServes, CallEndsServes DEF InCall
<1>2. CASE Tasks
  BY <1>2, ShrinkEvictServes, ShrinkDoneServes, DropServes DEF Tasks
<1>3. CASE UNCHANGED vars
  BY <1>3, OnlyEvents DEF vars
<1> QED
  BY <1>1, <1>2, <1>3, CallsServe, ControlsServe, EventLoopServes DEF Next

LEMMA QueueInvariant == Spec => [](IInv /\ QInv)
<1>1. IInv /\ QInv /\ [Next]_vars => (IInv /\ QInv)'
  BY Keeps, QueueKeeps
<1> QED
  BY Begins, QueueBegins, <1>1, PTL DEF Spec

(* The rooms hold the requests made now, once each and rightly ranked: the  *)
(* engine serves the request first in line, and no caller who has left.     *)
THEOREM QueueIsFaithful == Spec => []QueueFaithful
<1>1. QInv => QueueFaithful
  BY DEF QInv, Requesting
<1> QED
  BY <1>1, QueueInvariant, PTL

(* No acquire or preempt sleeps on with nothing left to wake it, whatever   *)
(* preemption, interrupts, timers, priorities and capacities do meanwhile.  *)
THEOREM NobodyIsForgotten == Spec => []NeverForgotten
<1>1. QInv => NeverForgotten
  BY DEF QInv, NeverForgotten, Reached
<1> QED
  BY <1>1, QueueInvariant, PTL

(* acquire_inner's `rem' stays what the call still lacks, across every wait,*)
(* eviction and retry, until a preemption of the caller ends the call.      *)
THEOREM CallsAlwaysAddUp == Spec => []CallsAddUp
<1>1. QInv => CallsAddUp
  BY DEF QInv, CallsAddUp, AddsUp
<1> QED
  BY <1>1, QueueInvariant, PTL

(* The usage history is never below the usage, not even within a call.      *)
THEOREM HistoryNeverUnderstates == Spec => []UsageNeverUnderstated
<1>1. QInv => UsageNeverUnderstated
  BY DEF QInv, Sampled, UsageNeverUnderstated
<1> QED
  BY <1>1, QueueInvariant, PTL

(* Once its tags are dropped, nothing of an ended process is left: units,   *)
(* entries, grants, interrupts, timers.                                     *)
THEOREM EndedLeaveNothing == Spec => []NothingOutlives
<1>1. IInv /\ QInv => NothingOutlives
  <2> SUFFICES ASSUME IInv, QInv, NEW p \in Procs, pc[p] = "done", dying # p
               PROVE  /\ \A r \in Resources : /\ holding[r][p].amount = 0
                                              /\ \A e \in queue[r] : e.proc # p
                      /\ \A ev \in later \cup due : ev.proc # p
    BY DEF NothingOutlives
  <2>1. tags[p] = {}
    BY DEF QInv, DyingEnds
  <2>2. \A r \in Resources : holding[r][p].amount \in Nat
    BY DEF IInv, TypeOK, Holding
  <2>3. \A r \in Resources : holding[r][p].amount = 0
    BY <2>1, <2>2 DEF IInv, TagsFaithful
  <2> QED
    BY <2>3, NotWaiting DEF QInv, EventsLive
<1> QED
  BY <1>1, QueueInvariant, PTL

(* A grant event goes when it fires, or with the process it was for.        *)
LEMMA GrantLeaves ==
  ASSUME IInv, [Next]_vars, NEW g \in due, g \notin due', g.kind = "grant",
         current' = g.proc
  PROVE  Grant(g) /\ Awaited(g)
<1>1. \A r, n, cap, q, ev : Signal(r, n, cap, q, ev) => ev \subseteq due'
  BY DEF Signal
<1>2. \A p \in Procs : /\ g \in EventsAfterPreempt(p)
                       /\ g \in WithoutTimers(p, due)
  BY DEF EventsAfterPreempt, WithoutTimers
<1>3. g.proc \in Procs /\ g.proc # NoProc
  BY NamesAssumption DEF IInv, TypeOK, Event
<1>4. ASSUME NEW p \in Procs, InCall(p) PROVE FALSE
  <2>1. CASE ClaimAll(p)
    BY <1>1, <2>1 DEF ClaimAll
  <2>2. CASE ClaimSome(p) \/ EnterQueue(p) \/ Retry(p) \/ Thrown(p) \/ GiveUp(p)
             \/ ResetMissing(p)
    BY <2>2 DEF ClaimSome, EnterQueue, Retry, Thrown, GiveUp, ResetMissing
  <2>3. CASE WaitOver(p)
    BY <1>1, <2>3 DEF WaitOver
  <2>4. CASE RollBack(p)
    BY <1>1, <2>4 DEF RollBack
  <2>5. ASSUME NEW v \in Procs, Evict(p, v) PROVE FALSE
    BY <1>1, <1>2, <2>5 DEF Evict
  <2> QED
    BY <1>4, <2>1, <2>2, <2>3, <2>4, <2>5 DEF InCall
<1>5. ASSUME NEW x \in Procs, Ends(x) PROVE g.proc = x
  BY <1>5 DEF Ends, WithoutEvents
<1>6. ASSUME NEW p \in Procs, Calls(p) PROVE FALSE
  <2>1. CASE \E r \in Resources, rq \in Requests[p] : Acquire(p, r, rq)
    BY <2>1 DEF Acquire
  <2>2. CASE \E r \in Resources, n \in {rq.amount : rq \in Requests[p]} : Release(p, r, n)
    BY <1>1, <2>2 DEF Release
  <2>3. CASE (\E s \in TimerSignals : TimerSet(p, s)) \/ TimersClear(p) \/ Hold(p)
    BY <1>2, <2>3 DEF TimerSet, TimersClear, Hold
  <2>4. CASE Exit(p)
    BY <1>3, <2>4 DEF Exit
  <2> QED
    BY <1>6, <2>1, <2>2, <2>3, <2>4 DEF Calls
<1>7. ASSUME NEW a \in Controllers, Controls(a) PROVE FALSE
  <2>1. ASSUME NEW r \in Resources, NEW n, NEW mode, SetCapacity(a, r, n, mode) PROVE FALSE
    BY <1>1, <2>1 DEF SetCapacity
  <2>2. ASSUME NEW x \in Procs, NEW n, \/ PrioritySet(a, x, n) \/ Interrupt(a, x, n)
                                       \/ Resume(a, x, n) \/ CallFails(a)
        PROVE  FALSE
    BY <2>2 DEF PrioritySet, Interrupt, Resume, CallFails
  <2>3. ASSUME NEW x \in Procs, Stop(a, x) PROVE FALSE
    BY <1>5, <2>3 DEF Stop, Acts
  <2> QED
    BY <1>3, <1>7, <2>1, <2>2, <2>3 DEF Controls
<1>8. CASE EventLoop
  <2>1. ASSUME NEW h \in due, Grant(h) PROVE Grant(g) /\ Awaited(g)
    BY <1>3, <2>1 DEF Grant, Dispatch
  <2>2. ASSUME NEW h \in due, Interrupted(h) PROVE FALSE
    BY <2>2 DEF Interrupted, WithoutTimers
  <2>3. ASSUME NEW h \in due, Resumed(h) PROVE FALSE
    BY <2>3 DEF Resumed, WithoutHold
  <2>4. CASE (\E S \in SUBSET later : Tick(S)) \/ HookRuns \/ HookEnds
    BY <2>4 DEF Tick, HookRuns, HookEnds
  <2> QED
    BY <1>8, <2>1, <2>2, <2>3, <2>4 DEF EventLoop
<1>9. CASE Tasks
  <2>1. ASSUME NEW v \in Procs, ShrinkEvict(v) PROVE FALSE
    BY <1>2, <2>1 DEF ShrinkEvict
  <2>2. CASE ShrinkDone
    BY <1>1, <2>2 DEF ShrinkDone
  <2>3. ASSUME NEW r \in Resources, Drop(r) PROVE FALSE
    BY <1>1, <2>3 DEF Drop
  <2> QED
    BY <1>9, <2>1, <2>2, <2>3 DEF Tasks
<1>10. CASE UNCHANGED vars
  BY <1>10 DEF vars
<1> QED
  BY <1>4, <1>6, <1>7, <1>8, <1>9, <1>10 DEF Next

(* The key of a grant tells which wait it was made for: none of another call*)
(* or of an earlier wait of this call ever ends a wait, and the request it  *)
(* serves has left the room.                                                *)
THEOREM GrantsStayCurrent == Spec => GrantsAreCurrent
<1>1. IInv /\ QInv /\ [Next]_vars =>
        [\A ev \in due \ due' : ev.kind = "grant" /\ current' = ev.proc =>
           /\ ev.key = call[ev.proc].key
           /\ ev.key[2] < EPISODE_MAX =>
                \A r \in Resources : \A e \in queue[r] : e.proc # ev.proc]_vars
  <2> SUFFICES ASSUME IInv, QInv, [Next]_vars,
                      NEW g \in due \ due', g.kind = "grant", current' = g.proc
               PROVE  /\ g.key = call[g.proc].key
                      /\ g.key[2] < EPISODE_MAX =>
                           \A r \in Resources : \A e \in queue[r] : e.proc # g.proc
    OBVIOUS
  <2>1. g.key = call[g.proc].key
    BY GrantLeaves DEF Awaited
  <2>2. ASSUME g.key[2] < EPISODE_MAX, NEW r \in Resources, NEW e \in queue[r],
               e.proc = g.proc
        PROVE  FALSE
    <3>1. e.key = g.key
      BY <2>1, <2>2 DEF QInv, Requesting, QueueFaithful
    <3>2. g.key[2] >= EPISODE_MAX
      BY <3>1 DEF QInv, Requesting, GrantsOld
    <3>3. g.key[2] \in Nat /\ EPISODE_MAX \in Nat
      BY BoundsAssumption DEF IInv, TypeOK, Event, Key
    <3> QED
      BY <2>2, <3>2, <3>3
  <2> QED
    BY <2>1, <2>2
<1> QED
  BY <1>1, QueueInvariant, PTL DEF Spec, GrantsAreCurrent
=============================================================================
