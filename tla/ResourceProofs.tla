--------------------------- MODULE ResourceProofs ---------------------------
(***************************************************************************)
(* Proofs about cb.Resource, for any processes, resources, capacities,     *)
(* requests, priorities and signals.                                       *)
(***************************************************************************)
EXTENDS ResourceProps, FiniteSetTheorems, TLAPS

-----------------------------------------------------------------------------
(* Counting units *)

Column(p, n) == {p} \X (1 .. n)

(* A holding of n units is n units.                                         *)
LEMMA ColumnSize ==
  ASSUME NEW p, NEW n \in Nat
  PROVE  IsFiniteSet(Column(p, n)) /\ Cardinality(Column(p, n)) = n
<1> DEFINE f == [i \in 1 .. n |-> <<p, i>>]
<1>1. IsFiniteSet(1 .. n) /\ Cardinality(1 .. n) = n
  BY FS_Interval
<1>2. f \in Bijection(1 .. n, Column(p, n))
  <2>1. f \in [1 .. n -> Column(p, n)]
    BY DEF Column
  <2>2. \A i, j \in 1 .. n : f[i] = f[j] => i = j
    OBVIOUS
  <2>3. \A t \in Column(p, n) : \E i \in 1 .. n : f[i] = t
    BY DEF Column
  <2> QED
    BY <2>1, <2>2, <2>3 DEF Bijection, Injection, Surjection, IsInjective
<1>3. ExistsBijection(1 .. n, Column(p, n))
  BY <1>2 DEF ExistsBijection
<1> QED
  BY <1>1, <1>3, FS_Bijection

(* When only q's amount changes, the count changes by as much.              *)
LEMMA CountChange ==
  ASSUME NEW a \in [Procs -> Nat], NEW b \in [Procs -> Nat], NEW q \in Procs,
         \A p \in Procs \ {q} : b[p] = a[p],
         IsFiniteSet(Units(a))
  PROVE  /\ IsFiniteSet(Units(b))
         /\ Cardinality(Units(a)) \in Nat
         /\ Cardinality(Units(b)) = Cardinality(Units(a)) - a[q] + b[q]
         /\ a[q] <= Cardinality(Units(a))
<1> DEFINE rest == UNION {Column(p, a[p]) : p \in Procs \ {q}}
<1>1. Units(a) = rest \cup Column(q, a[q])
  BY DEF Units, Column
<1>2. Units(b) = rest \cup Column(q, b[q])
  BY DEF Units, Column
<1>3. rest \cap Column(q, a[q]) = {} /\ rest \cap Column(q, b[q]) = {}
  BY DEF Column
<1> HIDE DEF rest
<1>4. IsFiniteSet(rest)
  BY <1>1, FS_Subset
<1>5. /\ IsFiniteSet(Column(q, a[q])) /\ Cardinality(Column(q, a[q])) = a[q]
      /\ IsFiniteSet(Column(q, b[q])) /\ Cardinality(Column(q, b[q])) = b[q]
  BY ColumnSize
<1>6. Cardinality(rest) \in Nat
  BY <1>4, FS_CardinalityType
<1>7. Cardinality({}) = 0
  BY FS_EmptySet
<1>8. Cardinality(Units(a)) = Cardinality(rest) + a[q]
  <2>1. Cardinality(rest \cup Column(q, a[q])) =
          Cardinality(rest) + Cardinality(Column(q, a[q]))
          - Cardinality(rest \cap Column(q, a[q]))
    BY <1>4, <1>5, FS_Union
  <2>2. Cardinality(rest \cap Column(q, a[q])) = 0
    BY <1>3, <1>7
  <2>3. Cardinality(Column(q, a[q])) = a[q]
    BY <1>5
  <2>4. Cardinality(rest \cup Column(q, a[q])) = Cardinality(rest) + a[q]
    BY <1>6, <2>1, <2>2, <2>3
  <2> QED
    BY <1>1, <2>4
<1>9. Cardinality(Units(b)) = Cardinality(rest) + b[q] /\ IsFiniteSet(Units(b))
  <2>1. /\ IsFiniteSet(rest \cup Column(q, b[q]))
        /\ Cardinality(rest \cup Column(q, b[q])) =
             Cardinality(rest) + Cardinality(Column(q, b[q]))
             - Cardinality(rest \cap Column(q, b[q]))
    BY <1>4, <1>5, FS_Union
  <2>2. Cardinality(rest \cap Column(q, b[q])) = 0
    BY <1>3, <1>7
  <2>3. Cardinality(Column(q, b[q])) = b[q]
    BY <1>5
  <2>4. Cardinality(rest \cup Column(q, b[q])) = Cardinality(rest) + b[q]
    BY <1>6, <2>1, <2>2, <2>3
  <2> QED
    BY <1>2, <2>1, <2>4
<1> QED
  BY <1>6, <1>8, <1>9

-----------------------------------------------------------------------------
(* The inductive invariant *)

CallSteps == {"claim", "evict", "wait", "woken", "settle"}

(* Conservation, with the finiteness that counting needs.                   *)
Counted == \A r \in Resources : /\ IsFiniteSet(Units(Amounts(r)))
                                /\ in_use[r] = Cardinality(Units(Amounts(r)))

(* A process in a call wants more units of a resource; another has no call. *)
CallKnown == \A p \in Procs : IF pc[p] \in CallSteps
                              THEN call[p].res \in Resources /\ call[p].rem > 0
                              ELSE call[p].res = NoRes

(* Only the current process is not suspended.                               *)
OneRuns == \A p \in Procs :
             pc[p] \in {"ready", "claim", "evict", "woken", "settle"} => current = p

(* "This also keeps the caller from ranking strictly below itself as a      *)
(* preemption victim" (acquire_inner): its holding has the rank of its call.*)
CallerRanked ==
  \A p \in Procs :
    LET c == call[p]
        h == holding[c.res][p]
    IN  pc[p] \in CallSteps /\ h.amount > 0
        => h.rank = request_rank(p, c) /\ h.fixed = c.fixed

IInv == TypeOK /\ Counted /\ CallKnown /\ OneRuns /\ TagsFaithful /\ CallerRanked

LEMMA AmountsType ==
  ASSUME NEW r \in Resources, holding \in [Resources -> [Procs -> Holding]]
  PROVE  Amounts(r) \in [Procs -> Nat]
BY DEF Amounts, Holding

(* No process holds more than is in use.                                    *)
LEMMA HeldIsInUse ==
  ASSUME TypeOK, Counted, NEW r \in Resources, NEW p \in Procs
  PROVE  holding[r][p].amount <= in_use[r]
<1>1. Amounts(r) \in [Procs -> Nat]
  BY AmountsType DEF TypeOK
<1>2. Amounts(r)[p] <= Cardinality(Units(Amounts(r)))
  BY <1>1, CountChange DEF Counted
<1> QED
  BY <1>2 DEF Counted, Amounts

(* One holding changes, and in_use with it.                                 *)
LEMMA OneChanges ==
  ASSUME TypeOK, TypeOK', Counted, NEW r \in Resources, NEW q \in Procs,
         \A s \in Resources, p \in Procs :
           s # r \/ p # q => holding'[s][p].amount = holding[s][p].amount,
         \A s \in Resources \ {r} : in_use'[s] = in_use[s],
         in_use'[r] = in_use[r] - holding[r][q].amount + holding'[r][q].amount
  PROVE  Counted'
<1> SUFFICES ASSUME NEW s \in Resources
             PROVE  /\ IsFiniteSet(Units(Amounts(s)'))
                    /\ in_use'[s] = Cardinality(Units(Amounts(s)'))
  BY DEF Counted, Units
<1> DEFINE a == Amounts(s)
           b == Amounts(s)'
<1>1. a \in [Procs -> Nat] /\ b \in [Procs -> Nat]
  BY DEF TypeOK, Amounts, Holding
<1>2. IsFiniteSet(Units(a)) /\ in_use[s] = Cardinality(Units(a))
  BY DEF Counted
<1>3. \A p \in Procs : a[p] = holding[s][p].amount /\ b[p] = holding'[s][p].amount
  BY DEF Amounts
<1>4. CASE s = r
  <2>1. \A p \in Procs \ {q} : b[p] = a[p]
    BY <1>3, <1>4
  <2>2. IsFiniteSet(Units(b)) /\ Cardinality(Units(b)) = Cardinality(Units(a)) - a[q] + b[q]
    BY <1>1, <1>2, <2>1, CountChange
  <2> QED
    BY <1>2, <1>3, <1>4, <2>2
<1>5. CASE s # r
  <2>1. a = b
    BY <1>1, <1>3, <1>5
  <2> QED
    BY <1>2, <1>5, <2>1
<1> QED
  BY <1>4, <1>5

(* Two holdings of a resource change, and in_use with them.                 *)
LEMMA TwoChange ==
  ASSUME TypeOK, TypeOK', Counted, NEW r \in Resources, NEW q \in Procs,
         NEW v \in Procs \ {q},
         \A s \in Resources, p \in Procs :
           s # r \/ p \notin {q, v} => holding'[s][p].amount = holding[s][p].amount,
         \A s \in Resources \ {r} : in_use'[s] = in_use[s],
         in_use'[r] = in_use[r] - holding[r][v].amount + holding'[r][v].amount
                      - holding[r][q].amount + holding'[r][q].amount
  PROVE  Counted'
<1> SUFFICES ASSUME NEW s \in Resources
             PROVE  /\ IsFiniteSet(Units(Amounts(s)'))
                    /\ in_use'[s] = Cardinality(Units(Amounts(s)'))
  BY DEF Counted, Units
<1> DEFINE a == Amounts(s)
           b == Amounts(s)'
           m == [a EXCEPT ![v] = b[v]]
<1>1. a \in [Procs -> Nat] /\ b \in [Procs -> Nat] /\ m \in [Procs -> Nat]
  BY DEF TypeOK, Amounts, Holding
<1>2. IsFiniteSet(Units(a)) /\ in_use[s] = Cardinality(Units(a))
  BY DEF Counted
<1>3. \A p \in Procs : a[p] = holding[s][p].amount /\ b[p] = holding'[s][p].amount
  BY DEF Amounts
<1>4. /\ IsFiniteSet(Units(m))
      /\ Cardinality(Units(m)) = Cardinality(Units(a)) - a[v] + b[v]
  <2>1. \A p \in Procs \ {v} : m[p] = a[p]
    BY <1>1
  <2>2. m[v] = b[v]
    BY <1>1
  <2> HIDE DEF a, b, m
  <2> QED
    BY <1>1, <1>2, <2>1, <2>2, CountChange
<1>5. CASE s = r
  <2>1. \A p \in Procs \ {q} : b[p] = m[p]
    BY <1>1, <1>3, <1>5
  <2>2. m[q] = a[q]
    BY <1>1
  <2> HIDE DEF a, b, m
  <2>3. IsFiniteSet(Units(b)) /\ Cardinality(Units(b)) = Cardinality(Units(m)) - m[q] + b[q]
    BY <1>1, <1>4, <2>1, CountChange
  <2>4. in_use'[s] = in_use[s] - a[v] + b[v] - a[q] + b[q]
    BY <1>3, <1>5
  <2>5. a[v] \in Nat /\ b[v] \in Nat /\ a[q] \in Nat /\ b[q] \in Nat
    BY <1>1
  <2>6. Cardinality(Units(a)) \in Nat
    BY <1>2, FS_CardinalityType
  <2>7. Cardinality(Units(b)) = Cardinality(Units(a)) - a[v] + b[v] - a[q] + b[q]
    BY <1>4, <2>2, <2>3, <2>5, <2>6
  <2>8. in_use'[s] = Cardinality(Units(b))
    BY <1>2, <2>4, <2>7
  <2> QED
    BY <2>3, <2>8 DEF b
<1>6. CASE s # r
  <2>1. a = b
    BY <1>1, <1>3, <1>6
  <2>2. in_use'[s] = in_use[s]
    BY <1>6
  <2> QED
    BY <1>2, <2>2, <2>1
<1> QED
  BY <1>5, <1>6

(* No amount changes.                                                       *)
LEMMA NoneChanges ==
  ASSUME TypeOK, TypeOK', Counted, in_use' = in_use,
         \A s \in Resources, p \in Procs :
           holding'[s][p].amount = holding[s][p].amount
  PROVE  Counted'
<1> SUFFICES ASSUME NEW s \in Resources
             PROVE  Amounts(s)' = Amounts(s)
  BY DEF Counted, Units
<1> QED
  BY DEF Amounts

-----------------------------------------------------------------------------
(* Types of what the actions build *)

USE DEF CMB_PROCESS_SUCCESS, CMB_PROCESS_PREEMPTED

LEMMA WakeupTyped ==
  ASSUME NEW p \in Procs, NEW s \in Int,
         NEW kind \in {"interrupt", "timer", "hold", "resume"}
  PROVE  Wakeup(kind, p, s) \in Event
BY DEF Wakeup, Event, NoKey, Key

LEMMA SignalTyped ==
  ASSUME NEW r \in Resources, NEW n, NEW cap,
         NEW q \in [Resources -> SUBSET Entry], NEW ev \in SUBSET Event,
         Signal(r, n, cap, q, ev)
  PROVE  queue' \in [Resources -> SUBSET Entry] /\ due' \in SUBSET Event
<1>1. Granted(q[r], n, cap) \subseteq Entry
  BY DEF Granted, Front
<1>2. \A e \in Entry : GrantOf(r, e) \in Event
  BY DEF GrantOf, Event, Entry, Key
<1> QED
  BY <1>1, <1>2 DEF Signal

LEMMA RemovalsTyped ==
  ASSUME TypeOK, NEW p \in Procs
  PROVE  /\ WithoutEntries(p) \in [Resources -> SUBSET Entry]
         /\ EventsAfterPreempt(p) \in SUBSET Event
         /\ \A S \in SUBSET Event : /\ WithoutTimers(p, S) \in SUBSET Event
                                    /\ WithoutEvents(p, S) \in SUBSET Event
                                    /\ WithoutHold(p, S) \in SUBSET Event
<1>1. Wakeup("interrupt", p, CMB_PROCESS_PREEMPTED) \in Event
  BY WakeupTyped
<1> QED
  BY <1>1 DEF TypeOK, WithoutEntries, EventsAfterPreempt, WithoutTimers,
              WithoutEvents, WithoutHold

LEMMA CreditedTyped ==
  ASSUME TypeOK, NEW r \in Resources, NEW p \in Procs, NEW n \in Nat
  PROVE  /\ Credited(p, r, n, call[p]) \in Holding
         /\ Credited(p, r, n, call[p]).amount = holding[r][p].amount + n
<1> DEFINE h == holding[r][p]
           c == call[p]
<1>1. h \in Holding /\ c \in Call
  BY DEF TypeOK
<1>2. request_rank(p, c) \in Int /\ c.fixed \in BOOLEAN /\ now \in Nat
  BY <1>1 DEF TypeOK, request_rank, Call
<1> QED
  BY <1>1, <1>2 DEF Credited, Holding

LEMMA RoomTyped ==
  ASSUME TypeOK, NEW r \in Resources, NEW n \in Nat
  PROVE  Room(r, n) \in Nat
BY DEF TypeOK, Room

-----------------------------------------------------------------------------
(* The steps of a call keep the invariant *)

USE DEF CallSteps, Inside

LEMMA AcquireKeeps ==
  ASSUME IInv, NEW p \in Procs, NEW r \in Resources, NEW rq \in Requests[p],
         Acquire(p, r, rq)
  PROVE  IInv'
<1> USE DEF Acquire, Acts, procs, events, waits, units, caps, tasks
<1> DEFINE h == holding[r][p]
           c == [res |-> r, preempt |-> rq.preempt, fixed |-> rq.fixed,
                 rank |-> rq.rank, amount |-> rq.amount, rem |-> rq.amount,
                 key |-> NoKey,
                 held0 |-> h.amount, rank0 |-> h.rank, fixed0 |-> h.fixed]
<1>1. rq \in Request /\ h \in Holding /\ prio[p] \in Int
  BY RequestsAssumption DEF IInv, TypeOK
<1>2. c \in Call /\ request_rank(p, c) \in Int /\ c.fixed \in BOOLEAN
  BY <1>1 DEF Call, Holding, Request, Key, NoKey, request_rank
<1>3. call' = [call EXCEPT ![p] = c]
  OBVIOUS
<1>4. holding' = IF h.amount = 0 THEN holding
                 ELSE [holding EXCEPT ![r][p] =
                         [@ EXCEPT !.rank = request_rank(p, c), !.fixed = c.fixed]]
  OBVIOUS
<1> HIDE DEF c
<1>5. TypeOK'
  <2>1. call' \in [Procs -> Call]
    BY <1>2, <1>3 DEF IInv, TypeOK
  <2>2. holding' \in [Resources -> [Procs -> Holding]]
    <3>1. [h EXCEPT !.rank = request_rank(p, c), !.fixed = c.fixed] \in Holding
      BY <1>1, <1>2 DEF Holding
    <3> QED
      BY <1>4, <3>1 DEF IInv, TypeOK
  <2>3. pc' \in [Procs -> {"ready", "hold", "claim", "evict", "wait", "woken",
                           "settle", "done"}]
    BY DEF IInv, TypeOK
  <2> QED
    BY <2>1, <2>2, <2>3 DEF IInv, TypeOK
<1>6. \A s \in Resources, q \in Procs :
        holding'[s][q].amount = holding[s][q].amount
  BY <1>4 DEF IInv, TypeOK, Holding
<1>7. Counted'
  BY <1>5, <1>6, NoneChanges DEF IInv
<1>8. CallKnown' /\ OneRuns'
  BY <1>1, <1>3, NamesAssumption DEF IInv, TypeOK, CallKnown, OneRuns, Request, c
<1>9. TagsFaithful'
  <2>1. pc[p] = "ready" /\ call[p].res = NoRes
    BY DEF IInv, CallKnown
  <2>2. \A q \in Procs \ {p} : call'[q].res = call[q].res
    BY <1>3 DEF IInv, TypeOK
  <2>3. tags' = tags /\ dying' = dying
    OBVIOUS
  <2> HIDE DEF Acquire
  <2> QED
    BY <1>6, <2>1, <2>2, <2>3, NamesAssumption DEF IInv, TagsFaithful
<1>10. CallerRanked'
  BY <1>2, <1>3, <1>4, <1>6 DEF IInv, TypeOK, CallKnown, CallerRanked, Holding, c,
     request_rank
<1> QED
  BY <1>5, <1>7, <1>8, <1>9, <1>10 DEF IInv

LEMMA ReturnsTyped ==
  ASSUME TypeOK, NEW p \in Procs, Returns(p)
  PROVE  /\ pc' \in [Procs -> {"ready", "hold", "claim", "evict", "wait", "woken",
                               "settle", "done"}]
         /\ sig' \in [Procs -> Int]
         /\ call' \in [Procs -> Call]
         /\ pc'[p] = "ready" /\ call'[p].res = NoRes
         /\ \A q \in Procs \ {p} : pc'[q] = pc[q] /\ call'[q] = call[q]
<1>1. NoCall \in Call /\ NoCall.res = NoRes
  BY DEF NoCall, Call, Key, NoKey
<1> QED
  BY <1>1 DEF TypeOK, Returns

LEMMA ClaimAllKeeps ==
  ASSUME IInv, NEW p \in Procs, ClaimAll(p)
  PROVE  IInv'
<1> USE DEF procs, events, waits, units, caps, tasks
<1> DEFINE c == call[p]
           r == c.res
           n == in_use[r] + c.rem
<1>1. /\ c \in Call /\ r \in Resources /\ c.rem \in Nat /\ c.rem > 0
      /\ in_use[r] \in Nat /\ holding[r][p] \in Holding
  BY DEF IInv, TypeOK, CallKnown, ClaimAll, Call
<1>2. Returns(p)
  BY DEF ClaimAll
<1>3. /\ Credited(p, r, c.rem, c) \in Holding
      /\ Credited(p, r, c.rem, c).amount = holding[r][p].amount + c.rem
  BY <1>1, CreditedTyped DEF IInv
<1>4. /\ in_use' = [in_use EXCEPT ![r] = n]
      /\ holding' = [holding EXCEPT ![r][p] = Credited(p, r, c.rem, c)]
      /\ sampled' = [sampled EXCEPT ![r] = n]
      /\ tags' = [tags EXCEPT ![p] = tags[p] \cup {r}]
  BY <1>1 DEF ClaimAll, record_sample, TagsAfter
<1>5. queue' \in [Resources -> SUBSET Entry] /\ due' \in SUBSET Event
  BY <1>1, SignalTyped DEF ClaimAll, IInv, TypeOK
<1>6. UNCHANGED <<current, prio, now, later, awaits, caps, tasks, request_seq, trial>>
  BY DEF ClaimAll
<1>7. current = p
  BY DEF ClaimAll
<1> HIDE DEF c, r, n
<1>8. TypeOK'
  <2>1. n \in Nat
    BY <1>1 DEF n
  <2>2. in_use' \in [Resources -> Nat] /\ sampled' \in [Resources -> Nat]
    BY <1>4, <2>1 DEF IInv, TypeOK
  <2>3. holding' \in [Resources -> [Procs -> Holding]]
    BY <1>3, <1>4 DEF IInv, TypeOK
  <2>4. tags' \in [Procs -> SUBSET Resources]
    BY <1>1, <1>4 DEF IInv, TypeOK
  <2> QED
    BY <1>2, <1>5, <1>6, <2>2, <2>3, <2>4, ReturnsTyped DEF IInv, TypeOK
<1>9. holding'[r][p].amount = holding[r][p].amount + c.rem
  BY <1>1, <1>3, <1>4 DEF IInv, TypeOK
<1>10. \A s \in Resources, q \in Procs :
         s # r \/ q # p => holding'[s][q] = holding[s][q]
  BY <1>4 DEF IInv, TypeOK
<1>11. Counted'
  <2>1. in_use'[r] = in_use[r] - holding[r][p].amount + holding'[r][p].amount
    BY <1>1, <1>4, <1>9 DEF IInv, TypeOK, Holding, n
  <2>2. \A s \in Resources \ {r} : in_use'[s] = in_use[s]
    BY <1>4 DEF IInv, TypeOK
  <2> QED
    BY <1>1, <1>8, <1>10, <2>1, <2>2, OneChanges DEF IInv
<1>12. CallKnown' /\ OneRuns'
  BY <1>2, <1>6, <1>7, ReturnsTyped DEF IInv, CallKnown, OneRuns
<1>13. TagsFaithful'
  <2>1. holding'[r][p].amount > 0
    BY <1>1, <1>9 DEF Holding
  <2> QED
    BY <1>1, <1>2, <1>4, <1>6, <1>10, <2>1, ReturnsTyped
       DEF IInv, TypeOK, TagsFaithful, r, c
<1>14. CallerRanked'
  BY <1>2, <1>6, <1>10, ReturnsTyped DEF IInv, CallKnown, CallerRanked, request_rank
<1> QED
  BY <1>8, <1>11, <1>12, <1>13, <1>14 DEF IInv

LEMMA ClaimSomeKeeps ==
  ASSUME IInv, NEW p \in Procs, ClaimSome(p)
  PROVE  IInv'
<1> USE DEF procs, events, waits, units, caps, tasks
<1> DEFINE c == call[p]
           r == c.res
           avail == Room(r, in_use[r])
           n == in_use[r] + avail
<1>1. /\ c \in Call /\ r \in Resources /\ c.rem \in Nat /\ c.rem > 0
      /\ in_use[r] \in Nat /\ holding[r][p] \in Holding
  BY DEF IInv, TypeOK, CallKnown, ClaimSome, Call
<1>2. avail \in Nat /\ avail < c.rem
  BY <1>1, RoomTyped DEF IInv, ClaimSome
<1>3. /\ Credited(p, r, avail, c) \in Holding
      /\ Credited(p, r, avail, c).amount = holding[r][p].amount + avail
  BY <1>1, <1>2, CreditedTyped DEF IInv
<1>4. /\ in_use' = [in_use EXCEPT ![r] = n]
      /\ holding' = [holding EXCEPT ![r][p] = Credited(p, r, avail, c)]
      /\ tags' = [tags EXCEPT ![p] = TagsAfter(p, r, avail)]
      /\ call' = [call EXCEPT ![p].rem = c.rem - avail]
      /\ pc' = [pc EXCEPT ![p] = "evict"]
  BY DEF ClaimSome
<1>5. sampled' = sampled \/ sampled' = [sampled EXCEPT ![r] = n]
  BY DEF ClaimSome, record_sample
<1>6. /\ UNCHANGED <<current, prio, sig, events, waits, caps, tasks, request_seq, trial>>
      /\ current = p /\ pc[p] = "claim"
  BY DEF ClaimSome
<1>7. /\ call' \in [Procs -> Call] /\ call'[p].rem > 0
      /\ \A q \in Procs : /\ call'[q].res = call[q].res /\ call'[q].fixed = call[q].fixed
                          /\ call'[q].rank = call[q].rank
                          /\ q # p => call'[q] = call[q]
  <2>1. c.rem - avail \in Nat /\ c.rem - avail > 0
    BY <1>1, <1>2
  <2>2. call'[p] = [c EXCEPT !.rem = c.rem - avail] /\ \A q \in Procs \ {p} : call'[q] = call[q]
    BY <1>4 DEF IInv, TypeOK
  <2>3. [c EXCEPT !.rem = c.rem - avail] \in Call
    BY <1>1, <2>1 DEF Call
  <2> HIDE DEF avail
  <2>4. call' \in [Procs -> Call]
    BY <1>4, <2>3 DEF IInv, TypeOK
  <2> QED
    BY <1>1, <2>1, <2>2, <2>4 DEF Call
<1> HIDE DEF c, r, n, avail
<1>8. TypeOK'
  <2>1. n \in Nat
    BY <1>1, <1>2 DEF n
  <2>2. in_use' \in [Resources -> Nat] /\ sampled' \in [Resources -> Nat]
    BY <1>1, <1>4, <1>5, <2>1 DEF IInv, TypeOK
  <2>3. holding' \in [Resources -> [Procs -> Holding]]
    BY <1>3, <1>4 DEF IInv, TypeOK
  <2>4. tags' \in [Procs -> SUBSET Resources]
    BY <1>1, <1>4 DEF IInv, TypeOK, TagsAfter
  <2>5. pc' \in [Procs -> {"ready", "hold", "claim", "evict", "wait", "woken",
                           "settle", "done"}]
    BY <1>4 DEF IInv, TypeOK
  <2> QED
    BY <1>6, <1>7, <2>2, <2>3, <2>4, <2>5 DEF IInv, TypeOK
<1>9. holding'[r][p].amount = holding[r][p].amount + avail
  BY <1>1, <1>3, <1>4 DEF IInv, TypeOK
<1>10. \A s \in Resources, q \in Procs :
         s # r \/ q # p => holding'[s][q] = holding[s][q]
  BY <1>4 DEF IInv, TypeOK
<1>11. Counted'
  <2>1. in_use'[r] = in_use[r] - holding[r][p].amount + holding'[r][p].amount
    BY <1>1, <1>2, <1>4, <1>9 DEF IInv, TypeOK, Holding, n
  <2>2. \A s \in Resources \ {r} : in_use'[s] = in_use[s]
    BY <1>4 DEF IInv, TypeOK
  <2> QED
    BY <1>1, <1>8, <1>10, <2>1, <2>2, OneChanges DEF IInv
<1>12. CallKnown' /\ OneRuns'
  BY <1>4, <1>6, <1>7 DEF IInv, TypeOK, CallKnown, OneRuns
<1>13. TagsFaithful'
  <2>1. holding'[r][p].amount > 0 => r \in tags'[p]
    BY <1>1, <1>2, <1>4, <1>9 DEF IInv, TypeOK, TagsFaithful, TagsAfter, Holding
  <2>2. \A q \in Procs, s \in Resources \ {r} : s \in tags'[q] <=> s \in tags[q]
    BY <1>4 DEF IInv, TypeOK, TagsAfter
  <2>3. \A q \in Procs \ {p} : tags'[q] = tags[q]
    BY <1>4 DEF IInv, TypeOK
  <2>4. call'[p].res = r /\ dying' = dying
    BY <1>6, <1>7 DEF r, c
  <2> QED
    BY <1>7, <1>10, <2>1, <2>2, <2>3, <2>4 DEF IInv, TagsFaithful
<1>14. CallerRanked'
  <2>1. request_rank(p, c)' = request_rank(p, c)
    BY <1>6, <1>7 DEF request_rank, c
  <2>2. ASSUME holding'[r][p].amount > 0
        PROVE  holding'[r][p].rank = request_rank(p, c) /\ holding'[r][p].fixed = c.fixed
    <3>1. holding'[r][p] = Credited(p, r, avail, c)
      BY <1>1, <1>4 DEF IInv, TypeOK
    <3>2. holding[r][p].amount > 0 =>
            holding[r][p].rank = request_rank(p, c) /\ holding[r][p].fixed = c.fixed
      BY <1>6 DEF IInv, CallerRanked, r, c
    <3> QED
      BY <1>1, <1>2, <2>2, <3>1, <3>2 DEF Credited, Holding
  <2>3. \A q \in Procs \ {p} : request_rank(q, call[q])' = request_rank(q, call[q])
    BY <1>6, <1>7 DEF request_rank
  <2> QED
    BY <1>4, <1>7, <1>10, <2>1, <2>2, <2>3
       DEF IInv, TypeOK, CallKnown, CallerRanked, r, c
<1> QED
  BY <1>8, <1>11, <1>12, <1>13, <1>14 DEF IInv

LEMMA EvictKeeps ==
  ASSUME IInv, NEW p \in Procs, NEW v \in Procs, Evict(p, v)
  PROVE  IInv'
<1> USE DEF procs, events, waits, units, caps, tasks
<1> DEFINE c == call[p]
           r == c.res
           left == in_use[r] - holding[r][v].amount
           take == IF Room(r, left) < c.rem THEN Room(r, left) ELSE c.rem
           n == left + take
<1>1. /\ c \in Call /\ r \in Resources /\ c.rem \in Nat /\ c.rem > 0
      /\ in_use[r] \in Nat
      /\ \A q \in Procs : holding[r][q] \in Holding
      /\ \A q \in Procs : holding[r][q].amount \in Nat /\ holding[r][q].rank \in Int
  BY DEF IInv, TypeOK, CallKnown, Evict, Call, Holding
<1>2. /\ holding[r][v].amount > 0 /\ holding[r][v].rank < request_rank(p, c)
      /\ pc[p] = "evict" /\ current = p
  BY DEF Evict, Outranked, IsFirstVictim, Holders
<1>3. v # p
  BY <1>1, <1>2 DEF IInv, CallerRanked, request_rank
<1>4. left \in Nat
  BY <1>1, HeldIsInUse DEF IInv
<1>5. take \in Nat /\ take <= c.rem /\ (take # c.rem => take < c.rem)
  BY <1>1, <1>4, RoomTyped DEF IInv
<1>6. /\ Credited(p, r, take, c) \in Holding
      /\ Credited(p, r, take, c).amount = holding[r][p].amount + take
  BY <1>1, <1>5, CreditedTyped DEF IInv
<1>7. /\ in_use' = [in_use EXCEPT ![r] = n]
      /\ holding' = [holding EXCEPT ![r][v] = NoHolding, ![r][p] = Credited(p, r, take, c)]
      /\ tags' = [tags EXCEPT ![v] = @ \ {r}, ![p] = TagsAfter(p, r, take)]
      /\ awaits' = [awaits EXCEPT ![v] = {}]
      /\ later' = WithoutTimers(v, later)
  BY DEF Evict
<1>8. sampled' = sampled \/ sampled' = [sampled EXCEPT ![r] = n]
  BY DEF Evict, record_sample
<1>9. UNCHANGED <<current, prio, now, caps, tasks, request_seq, trial>>
  BY DEF Evict
<1>10. \/ take = c.rem /\ Returns(p)
       \/ take < c.rem /\ call' = [call EXCEPT ![p].rem = c.rem - take]
          /\ UNCHANGED <<pc, sig>>
  BY <1>5 DEF Evict
<1>11. queue' \in [Resources -> SUBSET Entry] /\ due' \in SUBSET Event
  <2>1. /\ WithoutEntries(v) \in [Resources -> SUBSET Entry]
        /\ EventsAfterPreempt(v) \in SUBSET Event
    BY RemovalsTyped DEF IInv
  <2>2. CASE take = c.rem
    <3>1. Signal(r, n, capacity[r], WithoutEntries(v), EventsAfterPreempt(v))
      BY <2>2 DEF Evict
    <3> QED
      BY <1>1, <2>1, <3>1, SignalTyped
  <2>3. CASE take # c.rem
    BY <2>1, <2>3 DEF Evict
  <2> QED
    BY <2>2, <2>3
<1> HIDE DEF c, r, left, take, n
<1>12. /\ call' \in [Procs -> Call] /\ sig' \in [Procs -> Int]
       /\ pc' \in [Procs -> {"ready", "hold", "claim", "evict", "wait", "woken",
                             "settle", "done"}]
       /\ \A q \in Procs \ {p} : call'[q] = call[q] /\ pc'[q] = pc[q]
       /\ \/ pc'[p] = "ready" /\ call'[p].res = NoRes /\ take = c.rem
          \/ /\ pc'[p] = "evict" /\ call'[p].res = r /\ call'[p].rem > 0
             /\ call'[p].rank = c.rank /\ call'[p].fixed = c.fixed
  <2>1. CASE take = c.rem /\ Returns(p)
    BY <2>1, ReturnsTyped DEF IInv
  <2>2. CASE /\ take < c.rem /\ call' = [call EXCEPT ![p].rem = c.rem - take]
             /\ UNCHANGED <<pc, sig>>
    <3>1. c.rem - take \in Nat /\ c.rem - take > 0
      BY <1>1, <1>5, <2>2
    <3> QED
      BY <1>1, <1>2, <2>2, <3>1 DEF IInv, TypeOK, Call, r, c
  <2> QED
    BY <1>10, <2>1, <2>2
<1>13. /\ holding'[r][v] = NoHolding /\ holding'[r][p] = Credited(p, r, take, c)
       /\ \A s \in Resources, q \in Procs :
            s # r \/ q \notin {p, v} => holding'[s][q] = holding[s][q]
  BY <1>1, <1>3, <1>7 DEF IInv, TypeOK
<1>14. TypeOK'
  <2>1. n \in Nat
    BY <1>4, <1>5 DEF n
  <2>2. in_use' \in [Resources -> Nat] /\ sampled' \in [Resources -> Nat]
    BY <1>7, <1>8, <2>1 DEF IInv, TypeOK
  <2>3. holding' \in [Resources -> [Procs -> Holding]]
    <3>1. NoHolding \in Holding
      BY DEF NoHolding, Holding
    <3> QED
      BY <1>6, <1>7, <3>1 DEF IInv, TypeOK
  <2>4. tags' \in [Procs -> SUBSET Resources] /\ awaits' \in [Procs -> SUBSET Resources]
    BY <1>1, <1>7 DEF IInv, TypeOK, TagsAfter
  <2>5. later' \in SUBSET Event
    BY <1>7, RemovalsTyped DEF IInv, TypeOK
  <2> QED
    BY <1>9, <1>11, <1>12, <2>2, <2>3, <2>4, <2>5 DEF IInv, TypeOK
<1>15. Counted'
  <2>1. holding'[r][v].amount = 0 /\ holding'[r][p].amount = holding[r][p].amount + take
    BY <1>6, <1>13 DEF NoHolding
  <2>2. in_use'[r] = n
    BY <1>1, <1>7 DEF IInv, TypeOK
  <2>3. in_use'[r] = in_use[r] - holding[r][v].amount + holding'[r][v].amount
                     - holding[r][p].amount + holding'[r][p].amount
    BY <1>1, <1>5, <2>1, <2>2 DEF n, left
  <2>4. \A s \in Resources \ {r} : in_use'[s] = in_use[s]
    BY <1>7 DEF IInv, TypeOK
  <2> QED
    BY <1>1, <1>3, <1>13, <1>14, <2>3, <2>4, TwoChange DEF IInv
<1>16. CallKnown' /\ OneRuns'
  BY <1>1, <1>2, <1>9, <1>12 DEF IInv, CallKnown, OneRuns
<1>17. TagsFaithful'
  <2>1. holding'[r][v].amount = 0 /\ holding'[r][p].amount = holding[r][p].amount + take
    BY <1>6, <1>13 DEF NoHolding
  <2>2. tags'[v] = tags[v] \ {r} /\ tags'[p] = TagsAfter(p, r, take)
        /\ \A q \in Procs \ {p, v} : tags'[q] = tags[q]
    BY <1>3, <1>7 DEF IInv, TypeOK
  <2>3. holding'[r][p].amount > 0 => r \in tags'[p]
    BY <1>1, <1>5, <2>1, <2>2 DEF IInv, TagsFaithful, TagsAfter
  <2>4. \A s \in Resources \ {r}, q \in Procs : s \in tags'[q] <=> s \in tags[q]
    BY <2>2 DEF TagsAfter
  <2>5. holding'[r][p].amount > 0 \/ call'[p].res = r
    BY <1>1, <1>5, <1>12, <2>1
  <2>6. dying' = dying /\ call[p].res = r
    BY <1>9 DEF r, c
  <2> QED
    BY <1>1, <1>12, <1>13, <2>1, <2>2, <2>3, <2>4, <2>5, <2>6, NamesAssumption
       DEF IInv, TagsFaithful
<1>18. CallerRanked'
  <2>1. ASSUME pc'[p] = "evict", holding'[r][p].amount > 0
        PROVE  /\ holding'[r][p].rank = request_rank(p, call[p])'
               /\ holding'[r][p].fixed = call'[p].fixed
    <3>1. request_rank(p, call[p])' = request_rank(p, c) /\ call'[p].fixed = c.fixed
      BY <1>9, <1>12, <2>1 DEF request_rank
    <3>2. holding[r][p].amount > 0 =>
            holding[r][p].rank = request_rank(p, c) /\ holding[r][p].fixed = c.fixed
      BY <1>2 DEF IInv, CallerRanked, r, c
    <3> QED
      BY <1>1, <1>5, <1>13, <2>1, <3>1, <3>2 DEF Credited, Holding
  <2>2. \A q \in Procs \ {p} : request_rank(q, call[q])' = request_rank(q, call[q])
    BY <1>9, <1>12 DEF request_rank
  <2>3. holding'[r][v].amount = 0
    BY <1>13 DEF NoHolding
  <2> QED
    BY <1>12, <1>13, <2>1, <2>2, <2>3 DEF IInv, CallKnown, CallerRanked
<1> QED
  BY <1>14, <1>15, <1>16, <1>17, <1>18 DEF IInv

(* A step that leaves units, tags, priorities and what calls ask for alone. *)
LEMMA OnlyWaits ==
  ASSUME IInv, TypeOK',
         UNCHANGED <<in_use, holding, tags, prio, dying>>,
         \A q \in Procs : /\ call'[q].res = call[q].res /\ call'[q].rem = call[q].rem
                          /\ call'[q].rank = call[q].rank
                          /\ call'[q].fixed = call[q].fixed,
         \A q \in Procs : pc'[q] \in CallSteps <=> pc[q] \in CallSteps,
         \A q \in Procs : pc'[q] \in {"ready", "claim", "evict", "woken", "settle"}
                            => current' = q
  PROVE  IInv'
<1>1. Counted'
  BY NoneChanges DEF IInv
<1>2. CallKnown' /\ OneRuns'
  BY DEF IInv, CallKnown, OneRuns
<1>3. TagsFaithful'
  BY DEF IInv, TagsFaithful
<1>4. CallerRanked'
  BY DEF IInv, CallerRanked, request_rank
<1> QED
  BY <1>1, <1>2, <1>3, <1>4 DEF IInv

LEMMA EnterQueueKeeps ==
  ASSUME IInv, NEW p \in Procs, EnterQueue(p)
  PROVE  IInv'
<1> USE DEF procs, events, waits, units, caps, tasks
<1> DEFINE c == call[p]
           r == c.res
           key == next_wait_key(c.key)
           e == [proc |-> p, key |-> key, rank |-> request_rank(p, c)]
<1>1. /\ c \in Call /\ r \in Resources /\ c.rem > 0 /\ r \in tags'[p]
      /\ prio[p] \in Int /\ request_seq \in Nat
  BY DEF IInv, TypeOK, CallKnown, EnterQueue
<1>2. key \in Key
  BY <1>1, BoundsAssumption DEF next_wait_key, Key, Call
<1>3. e \in Entry
  BY <1>1, <1>2 DEF Entry, Call, request_rank
<1>4. /\ call' = [call EXCEPT ![p].key = key]
      /\ queue' = [queue EXCEPT ![r] = @ \cup {e}]
      /\ awaits' = [awaits EXCEPT ![p] = @ \cup {r}]
      /\ tags' = [tags EXCEPT ![p] = @ \cup {r}]
      /\ request_seq' = IF c.key = NoKey THEN request_seq + 1 ELSE request_seq
      /\ pc' = [pc EXCEPT ![p] = "wait"]
      /\ current' = NoProc /\ pc[p] = "evict" /\ current = p
      /\ UNCHANGED <<prio, sig, events, in_use, holding, sampled, caps, tasks, trial>>
  BY DEF EnterQueue
<1> HIDE DEF c, key, e
<1>5. /\ call' \in [Procs -> Call]
      /\ \A q \in Procs : /\ call'[q].res = call[q].res /\ call'[q].rem = call[q].rem
                          /\ call'[q].rank = call[q].rank
                          /\ call'[q].fixed = call[q].fixed
  <2>1. [c EXCEPT !.key = key] \in Call
    BY <1>1, <1>2 DEF Call
  <2>2. call' = [call EXCEPT ![p] = [c EXCEPT !.key = key]]
    BY <1>4 DEF IInv, TypeOK, c
  <2> QED
    BY <1>1, <2>1, <2>2 DEF IInv, TypeOK, Call, c
<1>6. TypeOK'
  <2>1. queue' \in [Resources -> SUBSET Entry]
    BY <1>1, <1>3, <1>4 DEF IInv, TypeOK
  <2> QED
    BY <1>1, <1>4, <1>5, <2>1 DEF IInv, TypeOK
<1>7. Counted'
  BY <1>4, <1>6, NoneChanges DEF IInv
<1>8. CallKnown' /\ OneRuns'
  BY <1>4, <1>5 DEF IInv, TypeOK, CallKnown, OneRuns
<1>9. TagsFaithful'
  <2>1. \A q \in Procs, s \in Resources :
          (s \in tags'[q] <=> s \in tags[q]) \/ (q = p /\ s = r)
    BY <1>1, <1>4 DEF IInv, TypeOK
  <2>2. call'[p].res = r
    BY <1>5 DEF c
  <2> QED
    BY <1>1, <1>4, <1>5, <2>1, <2>2 DEF IInv, TagsFaithful
<1>10. CallerRanked'
  BY <1>4, <1>5 DEF IInv, TypeOK, CallerRanked, request_rank
<1> QED
  BY <1>6, <1>7, <1>8, <1>9, <1>10 DEF IInv

LEMMA WaitOverKeeps ==
  ASSUME IInv, NEW p \in Procs, WaitOver(p) \/ Retry(p) \/ ResetMissing(p)
  PROVE  IInv'
<1> USE DEF procs, events, waits, units, caps, tasks
<1>1. CASE WaitOver(p)
  <2>1. call[p].res \in Resources
    BY <1>1 DEF WaitOver, IInv, CallKnown
  <2>2. queue' \in [Resources -> SUBSET Entry] /\ due' \in SUBSET Event
    BY <1>1, <2>1, SignalTyped, RemovalsTyped DEF WaitOver, IInv, TypeOK
  <2>3. TypeOK'
    BY <1>1, <2>2 DEF WaitOver, IInv, TypeOK
  <2> QED
    BY <1>1, <2>3, OnlyWaits DEF WaitOver, IInv, TypeOK, OneRuns
<1>2. CASE Retry(p)
  <2>1. TypeOK'
    BY <1>2 DEF Retry, IInv, TypeOK
  <2> QED
    BY <1>2, <2>1, OnlyWaits DEF Retry, IInv, TypeOK, OneRuns
<1>3. CASE ResetMissing(p)
  <2>1. TypeOK'
    BY <1>3 DEF ResetMissing, IInv, TypeOK
  <2> QED
    BY <1>3, <2>1, OnlyWaits DEF ResetMissing, IInv, TypeOK, OneRuns
<1> QED
  BY <1>1, <1>2, <1>3

(* A call returns: the caller has the units it holds, or no tag.            *)
LEMMA CallOver ==
  ASSUME IInv, TypeOK', NEW p \in Procs, NEW r \in Resources, Returns(p),
         call[p].res = r, current = p, pc[p] = "settle",
         UNCHANGED <<current, prio, dying>>,
         tags' = [tags EXCEPT ![p] = settle_tag(p, r, holding'[r][p].amount)],
         \A s \in Resources, q \in Procs :
           s # r \/ q # p => holding'[s][q] = holding[s][q],
         holding'[r][p].amount > 0 => holding[r][p].amount > 0,
         \A s \in Resources \ {r} : in_use'[s] = in_use[s],
         in_use'[r] = in_use[r] - holding[r][p].amount + holding'[r][p].amount
  PROVE  IInv'
<1>1. Counted'
  BY OneChanges DEF IInv
<1>2. CallKnown' /\ OneRuns'
  BY ReturnsTyped DEF IInv, CallKnown, OneRuns
<1>3. TagsFaithful'
  <2>1. holding'[r][p].amount \in Nat
    BY DEF TypeOK, Holding
  <2>2. \A q \in Procs, s \in Resources :
          q # p \/ s # r => (s \in tags'[q] <=> s \in tags[q])
    BY DEF IInv, TypeOK, settle_tag
  <2>3. r \in tags'[p] <=> r \in tags[p] /\ holding'[r][p].amount # 0
    BY DEF IInv, TypeOK, settle_tag
  <2> QED
    BY <2>1, <2>2, <2>3, ReturnsTyped DEF IInv, TagsFaithful
<1>4. CallerRanked'
  BY ReturnsTyped DEF IInv, CallKnown, CallerRanked, request_rank
<1> QED
  BY <1>1, <1>2, <1>3, <1>4 DEF IInv

LEMMA CallEndsKeeps ==
  ASSUME IInv, NEW p \in Procs, Thrown(p) \/ RollBack(p) \/ GiveUp(p)
  PROVE  IInv'
<1> USE DEF procs, events, waits, units, caps, tasks
<1> DEFINE c == call[p]
           r == c.res
           h == holding[r][p]
           left == in_use[r] - (h.amount - c.held0)
           back == [h EXCEPT !.amount = c.held0, !.rank = c.rank0, !.fixed = c.fixed0]
<1>1. pc[p] = "settle" /\ Returns(p) /\ current = p
      /\ UNCHANGED <<current, prio, dying, shrinking, now, later, awaits, caps,
                     request_seq, trial>>
  BY DEF Thrown, RollBack, GiveUp, Fails
<1>2. /\ c \in Call /\ r \in Resources /\ h \in Holding /\ in_use[r] \in Nat
      /\ h.amount \in Nat /\ c.held0 \in Nat
      /\ h.amount <= in_use[r]
  BY <1>1, HeldIsInUse DEF IInv, TypeOK, CallKnown, Call, Holding
<1>3. back \in Holding /\ back.amount = c.held0
      /\ NoHolding \in Holding /\ NoHolding.amount = 0
  <2>1. c.rank0 \in Int /\ c.fixed0 \in BOOLEAN /\ c.held0 \in Nat
    BY <1>2 DEF Call
  <2>2. NoHolding \in Holding /\ NoHolding.amount = 0
    BY DEF Holding, NoHolding
  <2> HIDE DEF h, c
  <2>3. back \in Holding
    BY <1>2, <2>1 DEF Holding
  <2>4. back.amount = c.held0
    BY <1>2 DEF Holding
  <2> QED
    BY <2>2, <2>3, <2>4
<1>4. left \in Nat /\ in_use[r] - h.amount \in Nat
  BY <1>2
<1>5. CASE Thrown(p)
  <2>1. TypeOK'
    BY <1>1, <1>5, ReturnsTyped DEF IInv, TypeOK, Thrown, settle_tag
  <2>2. in_use'[r] = in_use[r] - h.amount + holding'[r][p].amount
    BY <1>2, <1>5 DEF Thrown
  <2> QED
    BY <1>1, <1>2, <1>5, <2>1, <2>2, CallOver DEF Thrown
<1>6. CASE RollBack(p)
  <2> HIDE DEF left, back
  <2>1. /\ c.held0 > 0 /\ h.amount > 0
        /\ holding' = [holding EXCEPT ![r][p] = back]
        /\ in_use' = [in_use EXCEPT ![r] = left]
        /\ sampled' = [sampled EXCEPT ![r] = left]
        /\ Signal(r, left, capacity[r], queue, due)
        /\ tags' = tags
    BY <1>6 DEF RollBack, record_sample, back, left
  <2>2. queue' \in [Resources -> SUBSET Entry] /\ due' \in SUBSET Event
    BY <1>2, <2>1, SignalTyped DEF IInv, TypeOK
  <2>3. TypeOK'
    BY <1>1, <1>2, <1>3, <1>4, <2>1, <2>2, ReturnsTyped DEF IInv, TypeOK
  <2>4. holding'[r][p] = back
    BY <1>2, <2>1 DEF IInv, TypeOK
  <2>5. in_use'[r] = in_use[r] - h.amount + holding'[r][p].amount
    BY <1>2, <1>3, <2>1, <2>4 DEF IInv, TypeOK, left
  <2>6. tags' = [tags EXCEPT ![p] = settle_tag(p, r, holding'[r][p].amount)]
    BY <1>3, <2>1, <2>4 DEF IInv, TypeOK, settle_tag
  <2>7. \A s \in Resources, q \in Procs :
          s # r \/ q # p => holding'[s][q] = holding[s][q]
    BY <2>1 DEF IInv, TypeOK
  <2>8. \A s \in Resources \ {r} : in_use'[s] = in_use[s]
    BY <2>1 DEF IInv, TypeOK
  <2> QED
    BY <1>1, <1>2, <2>1, <2>3, <2>5, <2>6, <2>7, <2>8, CallOver
<1>7. CASE GiveUp(p)
  <2>1. /\ holding' = [holding EXCEPT ![r][p] = NoHolding]
        /\ in_use' = [in_use EXCEPT ![r] = in_use[r] - h.amount]
        /\ sampled' = [sampled EXCEPT ![r] = in_use[r] - h.amount]
        /\ tags' = [tags EXCEPT ![p] = settle_tag(p, r, 0)]
        /\ UNCHANGED <<queue, due>>
    BY <1>7 DEF GiveUp, record_sample
  <2>2. TypeOK'
    BY <1>1, <1>2, <1>3, <1>4, <2>1, ReturnsTyped DEF IInv, TypeOK, settle_tag
  <2>3. holding'[r][p].amount = 0
    BY <1>2, <1>3, <2>1 DEF IInv, TypeOK
  <2>4. in_use'[r] = in_use[r] - h.amount + holding'[r][p].amount
    BY <1>2, <1>4, <2>1, <2>3 DEF IInv, TypeOK
  <2>5. \A s \in Resources, q \in Procs :
          s # r \/ q # p => holding'[s][q] = holding[s][q]
    BY <2>1 DEF IInv, TypeOK
  <2>6. \A s \in Resources \ {r} : in_use'[s] = in_use[s]
    BY <2>1 DEF IInv, TypeOK
  <2>7. tags' = [tags EXCEPT ![p] = settle_tag(p, r, holding'[r][p].amount)]
    BY <2>1, <2>3
  <2>8. holding'[r][p].amount > 0 => holding[r][p].amount > 0
    BY <2>3
  <2> HIDE DEF r
  <2> QED
    BY <1>1, <1>2, <2>2, <2>4, <2>5, <2>6, <2>7, <2>8, CallOver DEF r
<1> QED
  BY <1>5, <1>6, <1>7

-----------------------------------------------------------------------------
(* The calls of processes and hooks keep the invariant *)

LEMMA ReleaseKeeps ==
  ASSUME IInv, NEW p \in Procs, NEW r \in Resources, NEW n, Release(p, r, n)
  PROVE  IInv'
<1> USE DEF procs, events, waits, units, caps, tasks
<1> DEFINE h == holding[r][p]
           left == in_use[r] - n
           kept == h.amount - n
           rest == IF kept = 0 THEN NoHolding ELSE [h EXCEPT !.amount = kept]
<1>1. /\ h \in Holding /\ h.amount \in Nat /\ n \in Nat /\ n > 0 /\ n <= h.amount
      /\ in_use[r] \in Nat /\ h.amount <= in_use[r] /\ current = p /\ pc[p] = "ready"
  BY HeldIsInUse DEF IInv, TypeOK, Holding, Release, Acts
<1>2. /\ holding' = [holding EXCEPT ![r][p] = rest]
      /\ in_use' = [in_use EXCEPT ![r] = left]
      /\ sampled' = [sampled EXCEPT ![r] = left]
      /\ tags' = [tags EXCEPT ![p] = IF kept = 0 THEN @ \ {r} ELSE @]
      /\ UNCHANGED <<current, procs, now, later, awaits, caps, tasks, request_seq, trial>>
  <2>1. holding' = [holding EXCEPT ![r][p] = rest]
    BY DEF Release
  <2>2. sampled' = [sampled EXCEPT ![r] = left]
    BY DEF Release, record_sample
  <2> QED
    BY <2>1, <2>2 DEF Release
<1>3. queue' \in [Resources -> SUBSET Entry] /\ due' \in SUBSET Event
  BY SignalTyped DEF Release, IInv, TypeOK
<1>4. left \in Nat /\ kept \in Nat
  BY <1>1
<1>5. rest \in Holding /\ rest.amount = kept
      /\ (rest.amount > 0 => rest.rank = h.rank /\ rest.fixed = h.fixed)
  <2>1. NoHolding \in Holding /\ NoHolding.amount = 0
    BY DEF NoHolding, Holding
  <2> HIDE DEF h
  <2>2. [h EXCEPT !.amount = kept] \in Holding
    BY <1>1, <1>4 DEF Holding
  <2>3. /\ [h EXCEPT !.amount = kept].amount = kept
        /\ [h EXCEPT !.amount = kept].rank = h.rank
        /\ [h EXCEPT !.amount = kept].fixed = h.fixed
    BY <1>1 DEF Holding
  <2> QED
    BY <1>1, <2>1, <2>2, <2>3
<1> HIDE DEF left, rest
<1>6. TypeOK'
  BY <1>2, <1>3, <1>4, <1>5 DEF IInv, TypeOK
<1>7. /\ holding'[r][p] = rest
      /\ \A s \in Resources, q \in Procs :
           s # r \/ q # p => holding'[s][q] = holding[s][q]
  BY <1>2 DEF IInv, TypeOK
<1>8. Counted'
  <2>1. in_use'[r] = in_use[r] - h.amount + holding'[r][p].amount
    BY <1>1, <1>2, <1>5, <1>7 DEF IInv, TypeOK, left
  <2>2. \A s \in Resources \ {r} : in_use'[s] = in_use[s]
    BY <1>2 DEF IInv, TypeOK
  <2> QED
    BY <1>6, <1>7, <2>1, <2>2, OneChanges DEF IInv
<1>9. CallKnown' /\ OneRuns'
  BY <1>2 DEF IInv, CallKnown, OneRuns
<1>10. TagsFaithful'
  <2>1. \A q \in Procs, s \in Resources :
          q # p \/ s # r => (s \in tags'[q] <=> s \in tags[q])
    BY <1>2 DEF IInv, TypeOK
  <2>2. r \in tags'[p] <=> rest.amount > 0
    <3>1. r \in tags[p] /\ tags[p] \subseteq Resources
      BY <1>1 DEF IInv, TypeOK, TagsFaithful
    <3>2. tags'[p] = IF kept = 0 THEN tags[p] \ {r} ELSE tags[p]
      BY <1>2 DEF IInv, TypeOK
    <3> HIDE DEF h
    <3> QED
      BY <1>1, <1>5, <3>1, <3>2
  <2> QED
    BY <1>2, <1>7, <2>1, <2>2 DEF IInv, TagsFaithful
<1>11. CallerRanked'
  BY <1>1, <1>2, <1>7, NamesAssumption DEF IInv, CallKnown, CallerRanked, request_rank
<1> QED
  BY <1>6, <1>8, <1>9, <1>10, <1>11 DEF IInv

LEMMA PrioritySetKeeps ==
  ASSUME IInv, NEW a, NEW q \in Procs, NEW n \in Int, PrioritySet(a, q, n)
  PROVE  IInv'
<1> USE DEF procs, events, waits, units, caps, tasks
<1>1. /\ prio' = [prio EXCEPT ![q] = n]
      /\ UNCHANGED <<current, pc, sig, call, events, awaits, in_use, tags, sampled,
                     caps, tasks, request_seq, trial>>
  BY DEF PrioritySet
<1>2. \A r \in Resources : EntryRank(q, r, n) \in Int
  BY DEF EntryRank, IInv, TypeOK, Call
<1>3. queue' \in [Resources -> SUBSET Entry]
  <2>1. \A r \in Resources : \A e \in queue[r] :
          [e EXCEPT !.rank = EntryRank(q, r, n)] \in Entry
    BY <1>2 DEF IInv, TypeOK, Entry
  <2> QED
    BY <2>1 DEF PrioritySet, IInv, TypeOK
<1>4. \A r \in Resources :
        /\ \A p \in Procs \ {q} : holding'[r][p] = holding[r][p]
        /\ holding'[r][q] =
             IF r \in tags[q] /\ holding[r][q].amount > 0 /\ ~holding[r][q].fixed
             THEN [holding[r][q] EXCEPT !.rank = n] ELSE holding[r][q]
        /\ holding'[r] \in [Procs -> Holding]
  <2> SUFFICES ASSUME NEW r \in Resources
               PROVE  /\ \A p \in Procs \ {q} : holding'[r][p] = holding[r][p]
                      /\ holding'[r][q] =
                           IF r \in tags[q] /\ holding[r][q].amount > 0
                              /\ ~holding[r][q].fixed
                           THEN [holding[r][q] EXCEPT !.rank = n] ELSE holding[r][q]
                      /\ holding'[r] \in [Procs -> Holding]
    OBVIOUS
  <2>1. holding[r] \in [Procs -> Holding]
    BY DEF IInv, TypeOK
  <2>2. [holding[r][q] EXCEPT !.rank = n] \in Holding
    BY <2>1 DEF Holding
  <2>3. holding'[r] = IF r \in tags[q] /\ holding[r][q].amount > 0 /\ ~holding[r][q].fixed
                      THEN [holding[r] EXCEPT ![q].rank = n] ELSE holding[r]
    BY DEF PrioritySet
  <2>4. [holding[r] EXCEPT ![q].rank = n] = [holding[r] EXCEPT ![q] = [@ EXCEPT !.rank = n]]
    OBVIOUS
  <2> QED
    BY <2>1, <2>2, <2>3, <2>4
<1>5. \A r \in Resources, p \in Procs :
        /\ holding'[r][p].amount = holding[r][p].amount
        /\ holding'[r][p].fixed = holding[r][p].fixed
        /\ p # q \/ holding[r][p].fixed => holding'[r][p].rank = holding[r][p].rank
        /\ p = q /\ r \in tags[q] /\ holding[r][p].amount > 0 /\ ~holding[r][p].fixed
             => holding'[r][p].rank = n
  <2> SUFFICES ASSUME NEW r \in Resources, NEW p \in Procs
               PROVE  /\ holding'[r][p].amount = holding[r][p].amount
                      /\ holding'[r][p].fixed = holding[r][p].fixed
                      /\ p # q \/ holding[r][p].fixed
                           => holding'[r][p].rank = holding[r][p].rank
                      /\ p = q /\ r \in tags[q] /\ holding[r][p].amount > 0
                           /\ ~holding[r][p].fixed => holding'[r][p].rank = n
    OBVIOUS
  <2>1. holding[r][q] \in Holding
    BY DEF IInv, TypeOK
  <2>2. /\ [holding[r][q] EXCEPT !.rank = n].amount = holding[r][q].amount
        /\ [holding[r][q] EXCEPT !.rank = n].fixed = holding[r][q].fixed
        /\ [holding[r][q] EXCEPT !.rank = n].rank = n
    BY <2>1 DEF Holding
  <2> QED
    BY <1>4, <2>2
<1>6. TypeOK'
  <2>1. holding' \in [Resources -> [Procs -> Holding]]
    BY <1>4 DEF PrioritySet, IInv, TypeOK
  <2> QED
    BY <1>1, <1>3, <2>1 DEF IInv, TypeOK
<1>7. Counted'
  BY <1>1, <1>5, <1>6, NoneChanges DEF IInv
<1>8. CallKnown' /\ OneRuns' /\ TagsFaithful'
  BY <1>1, <1>5 DEF IInv, CallKnown, OneRuns, TagsFaithful
<1>9. CallerRanked'
  <2> SUFFICES ASSUME NEW p \in Procs, pc[p] \in CallSteps,
                      holding[call[p].res][p].amount > 0, call[p].res \in Resources
               PROVE  /\ holding'[call[p].res][p].rank = request_rank(p, call[p])'
                      /\ holding'[call[p].res][p].fixed = call[p].fixed
    BY <1>1, <1>5 DEF CallerRanked, IInv, CallKnown
  <2>1. /\ holding[call[p].res][p].rank = request_rank(p, call[p])
        /\ holding[call[p].res][p].fixed = call[p].fixed
        /\ call[p].res \in tags[p] /\ call[p].fixed \in BOOLEAN
    BY DEF IInv, CallerRanked, TagsFaithful, TypeOK, Call
  <2>2. CASE p = q
    BY <1>1, <1>5, <2>1, <2>2 DEF IInv, TypeOK, request_rank
  <2>3. CASE p # q
    BY <1>1, <1>5, <2>1, <2>3 DEF IInv, TypeOK, request_rank
  <2> QED
    BY <2>2, <2>3
<1> QED
  BY <1>6, <1>7, <1>8, <1>9 DEF IInv

LEMMA SetCapacityKeeps ==
  ASSUME IInv, NEW a, NEW r \in Resources, NEW n \in Nat, NEW mode,
         SetCapacity(a, r, n, mode)
  PROVE  IInv'
<1> USE DEF procs, events, waits, units, caps, tasks
<1>1. queue' \in [Resources -> SUBSET Entry] /\ due' \in SUBSET Event
  BY SignalTyped DEF SetCapacity, IInv, TypeOK
<1>2. capacity' \in [Resources -> Nat] /\ max_capacity' \in [Resources -> Nat]
      /\ sampled' \in [Resources -> Nat]
  BY DEF SetCapacity, IInv, TypeOK, record_sample
<1>3. TypeOK'
  BY <1>1, <1>2 DEF SetCapacity, IInv, TypeOK
<1> QED
  BY <1>3, OnlyWaits DEF SetCapacity, IInv, OneRuns

LEMMA ShrinkDoneKeeps ==
  ASSUME IInv, ShrinkDone
  PROVE  IInv'
<1> USE DEF procs, events, waits, units, caps, tasks
<1>1. shrinking \in Resources
  BY DEF ShrinkDone, IInv, TypeOK
<1>2. queue' \in [Resources -> SUBSET Entry] /\ due' \in SUBSET Event
  BY <1>1, SignalTyped DEF ShrinkDone, IInv, TypeOK
<1>3. sampled' \in [Resources -> Nat]
  BY <1>1 DEF ShrinkDone, IInv, TypeOK, record_sample
<1>4. TypeOK'
  BY <1>2, <1>3 DEF ShrinkDone, IInv, TypeOK
<1> QED
  BY <1>4, OnlyWaits DEF ShrinkDone, IInv, OneRuns

(* A process other than the caller loses what it holds of r.                *)
LEMMA LosesHolding ==
  ASSUME IInv, TypeOK', NEW r \in Resources, NEW v \in Procs,
         UNCHANGED <<current, prio, pc, call>>,
         holding' = [holding EXCEPT ![r][v] = NoHolding],
         in_use' = [in_use EXCEPT ![r] = in_use[r] - holding[r][v].amount],
         tags' = [tags EXCEPT ![v] = @ \ {r}],
         dying' = dying \/ (dying = v /\ tags'[v] = {})
  PROVE  IInv'
<1>1. /\ holding'[r][v].amount = 0
      /\ \A s \in Resources, q \in Procs :
           s # r \/ q # v => holding'[s][q] = holding[s][q]
  BY DEF IInv, TypeOK, NoHolding
<1>2. Counted'
  <2>1. in_use'[r] = in_use[r] - holding[r][v].amount + holding'[r][v].amount
    BY <1>1 DEF IInv, TypeOK, Holding
  <2>2. \A s \in Resources \ {r} : in_use'[s] = in_use[s]
    BY DEF IInv, TypeOK
  <2> QED
    BY <1>1, <2>1, <2>2, OneChanges DEF IInv
<1>3. CallKnown' /\ OneRuns'
  BY DEF IInv, CallKnown, OneRuns
<1>4. TagsFaithful'
  <2>1. \A q \in Procs, s \in Resources :
          q # v \/ s # r => (s \in tags'[q] <=> s \in tags[q])
    BY DEF IInv, TypeOK
  <2>2. r \notin tags'[v]
    BY DEF IInv, TypeOK
  <2> QED
    BY <1>1, <2>1, <2>2 DEF IInv, TagsFaithful
<1>5. CallerRanked'
  BY <1>1 DEF IInv, CallKnown, CallerRanked, request_rank
<1> QED
  BY <1>2, <1>3, <1>4, <1>5 DEF IInv

LEMMA NoHoldingTyped == NoHolding \in Holding /\ NoHolding.amount = 0
BY DEF NoHolding, Holding

LEMMA ShrinkEvictKeeps ==
  ASSUME IInv, NEW v \in Procs, ShrinkEvict(v)
  PROVE  IInv'
<1> USE DEF procs, events, waits, units, caps, tasks
<1> DEFINE r == shrinking
<1>1. r \in Resources
  BY DEF ShrinkEvict, IInv, TypeOK
<1>2. in_use[r] - holding[r][v].amount \in Nat
  BY <1>1, HeldIsInUse DEF IInv, TypeOK, Holding
<1>3. /\ in_use' = [in_use EXCEPT ![r] = in_use[r] - holding[r][v].amount]
      /\ holding' = [holding EXCEPT ![r][v] = NoHolding]
      /\ tags' = [tags EXCEPT ![v] = @ \ {r}]
      /\ awaits' = [awaits EXCEPT ![v] = {}]
      /\ queue' \in [Resources -> SUBSET Entry]
      /\ due' \in SUBSET Event /\ later' \in SUBSET Event
      /\ UNCHANGED <<current, procs, now, sampled, caps, tasks, request_seq, trial>>
  BY RemovalsTyped DEF ShrinkEvict, IInv, TypeOK
<1>4. TypeOK'
  BY <1>1, <1>2, <1>3, NoHoldingTyped DEF IInv, TypeOK
<1> QED
  BY <1>1, <1>3, <1>4, LosesHolding

LEMMA DropKeeps ==
  ASSUME IInv, NEW r \in Resources, Drop(r)
  PROVE  IInv'
<1> USE DEF procs, events, waits, units, caps, tasks
<1> DEFINE q == dying
<1>1. q \in Procs
  BY DEF Drop, IInv, TypeOK
<1>2. in_use[r] - holding[r][q].amount \in Nat
  BY <1>1, HeldIsInUse DEF IInv, TypeOK, Holding
<1>3. /\ in_use' = [in_use EXCEPT ![r] = in_use[r] - holding[r][q].amount]
      /\ holding' = [holding EXCEPT ![r][q] = NoHolding]
      /\ tags' = [tags EXCEPT ![q] = @ \ {r}]
      /\ dying' = IF tags[q] = {r} THEN NoProc ELSE q
      /\ UNCHANGED <<current, procs, now, later, awaits, sampled, caps, shrinking,
                     request_seq, trial>>
  BY DEF Drop
<1>4. queue' \in [Resources -> SUBSET Entry] /\ due' \in SUBSET Event
  BY SignalTyped DEF Drop, IInv, TypeOK
<1>5. TypeOK'
  BY <1>1, <1>2, <1>3, <1>4, NoHoldingTyped DEF IInv, TypeOK
<1>6. tags'[q] = {} \/ dying' = dying
  BY <1>1, <1>3 DEF IInv, TypeOK
<1> HIDE DEF q
<1> QED
  BY <1>1, <1>3, <1>5, <1>6, LosesHolding DEF q

(* A process that ends is in no call and holds only tags yet to be dropped. *)
LEMMA EndsKeeps ==
  ASSUME IInv, NEW a, NEW q \in Procs, Acts(a), Ends(q),
         current' = IF current = q THEN NoProc ELSE current
  PROVE  IInv'
<1> USE DEF procs, events, waits, units, caps, tasks
<1>1. /\ pc' = [pc EXCEPT ![q] = "done"] /\ call' = [call EXCEPT ![q] = NoCall]
      /\ UNCHANGED <<prio, now, in_use, holding, tags, sampled, caps, shrinking,
                     request_seq, trial>>
      /\ dying = NoProc /\ dying' = IF tags[q] = {} THEN NoProc ELSE q
      /\ awaits' = [awaits EXCEPT ![q] = {}] /\ sig' \in [Procs -> Int]
  BY DEF Ends, Acts, Idle, IInv, TypeOK
<1>2. /\ queue' \in [Resources -> SUBSET Entry]
      /\ later' \in SUBSET Event /\ due' \in SUBSET Event
  BY RemovalsTyped DEF Ends, IInv, TypeOK
<1>3. NoCall \in Call /\ NoCall.res = NoRes
  BY DEF NoCall, Call, Key, NoKey
<1>4. TypeOK'
  BY <1>1, <1>2, <1>3 DEF IInv, TypeOK
<1>5. Counted'
  BY <1>1, <1>4, NoneChanges DEF IInv
<1>6. /\ pc'[q] = "done" /\ call'[q].res = NoRes
      /\ \A p \in Procs \ {q} : pc'[p] = pc[p] /\ call'[p] = call[p]
  BY <1>1, <1>3 DEF IInv, TypeOK
<1>7. CallKnown'
  BY <1>6 DEF IInv, CallKnown
<1>8. OneRuns'
  <2> SUFFICES ASSUME NEW p \in Procs,
                      pc'[p] \in {"ready", "claim", "evict", "woken", "settle"}
               PROVE  current' = p
    BY DEF OneRuns
  <2>1. p # q /\ pc'[p] = pc[p]
    BY <1>6
  <2>2. current = p
    BY <2>1 DEF IInv, OneRuns
  <2> QED
    BY <2>1, <2>2
<1>9. TagsFaithful'
  BY <1>1, <1>6, NamesAssumption DEF IInv, TypeOK, TagsFaithful
<1>10. CallerRanked'
  BY <1>1, <1>6 DEF IInv, CallerRanked, request_rank
<1> QED
  BY <1>4, <1>5, <1>7, <1>8, <1>9, <1>10 DEF IInv

LEMMA CallsKeep ==
  ASSUME IInv, NEW p \in Procs, Calls(p)
  PROVE  IInv'
<1> USE DEF procs, events, waits, units, caps, tasks
<1>1. CASE \E r \in Resources, rq \in Requests[p] : Acquire(p, r, rq)
  BY <1>1, AcquireKeeps
<1>2. CASE \E r \in Resources, n \in {rq.amount : rq \in Requests[p]} : Release(p, r, n)
  BY <1>2, ReleaseKeeps
<1>3. CASE \E s \in TimerSignals : TimerSet(p, s)
  <2>1. PICK s \in TimerSignals : TimerSet(p, s)
    BY <1>3
  <2>2. Wakeup("timer", p, s) \in Event
    BY SignalsAssumption, WakeupTyped
  <2>3. later' \in SUBSET Event /\ due' \in SUBSET Event
    BY <2>1, <2>2, RemovalsTyped DEF TimerSet, IInv, TypeOK
  <2>4. TypeOK'
    BY <2>1, <2>3 DEF TimerSet, IInv, TypeOK
  <2> QED
    BY <2>1, <2>4, OnlyWaits DEF TimerSet, IInv, OneRuns
<1>4. CASE TimersClear(p)
  <2>1. later' \in SUBSET Event /\ due' \in SUBSET Event
    BY <1>4, RemovalsTyped DEF TimersClear, IInv, TypeOK
  <2>2. TypeOK'
    BY <1>4, <2>1 DEF TimersClear, IInv, TypeOK
  <2> QED
    BY <1>4, <2>2, OnlyWaits DEF TimersClear, IInv, OneRuns
<1>5. CASE Hold(p)
  <2>1. Wakeup("hold", p, CMB_PROCESS_SUCCESS) \in Event
    BY WakeupTyped
  <2>2. TypeOK'
    BY <1>5, <2>1 DEF Hold, IInv, TypeOK
  <2>3. pc[p] = "ready" /\ current = p
    BY <1>5 DEF Hold, Acts
  <2> QED
    BY <1>5, <2>2, <2>3, OnlyWaits DEF Hold, IInv, TypeOK, OneRuns
<1>6. CASE Exit(p)
  BY <1>6, EndsKeeps DEF Exit, Acts
<1> QED
  BY <1>1, <1>2, <1>3, <1>4, <1>5, <1>6 DEF Calls

LEMMA ControlsKeep ==
  ASSUME IInv, NEW a \in Controllers, Controls(a)
  PROVE  IInv'
<1> USE DEF procs, events, waits, units, caps, tasks
<1>1. CASE CallFails(a)
  <2>1. TypeOK'
    BY <1>1 DEF CallFails, IInv, TypeOK
  <2> QED
    BY <1>1, <2>1, OnlyWaits DEF CallFails, IInv, OneRuns
<1>2. CASE \E r \in Resources, n \in Capacities, mode \in {"finish", "preempt"} :
             SetCapacity(a, r, n, mode)
  BY <1>2, CapacityAssumption, SetCapacityKeeps
<1>3. ASSUME NEW q \in Procs, NEW n \in Priorities, PrioritySet(a, q, n)
      PROVE  IInv'
  BY <1>3, PriorityAssumption, PrioritySetKeeps
<1>4. ASSUME NEW q \in Procs, NEW s \in Int, Interrupt(a, q, s) \/ Resume(a, q, s)
      PROVE  IInv'
  <2>1. Wakeup("interrupt", q, s) \in Event /\ Wakeup("resume", q, s) \in Event
    BY WakeupTyped
  <2>2. TypeOK'
    BY <1>4, <2>1 DEF Interrupt, Resume, IInv, TypeOK
  <2> QED
    BY <1>4, <2>2, OnlyWaits DEF Interrupt, Resume, IInv, OneRuns
<1>5. ASSUME NEW q \in Procs, Stop(a, q)
      PROVE  IInv'
  BY <1>5, EndsKeeps DEF Stop, Acts
<1> QED
  BY <1>1, <1>2, <1>3, <1>4, <1>5, SignalsAssumption DEF Controls

-----------------------------------------------------------------------------
(* The event loop keeps the invariant *)

LEMMA EventLoopKeeps ==
  ASSUME IInv, EventLoop
  PROVE  IInv'
<1> USE DEF procs, events, waits, units, caps, tasks
<1>1. \A ev \in due : ev \in Event /\ ev.proc \in Procs /\ ev.sig \in Int
  BY DEF IInv, TypeOK, Event
<1>2. Dispatch => \A q \in Procs : pc[q] \notin {"ready", "claim", "evict", "woken", "settle"}
  BY NamesAssumption DEF Dispatch, IInv, OneRuns
<1>3. ASSUME NEW ev \in due, Dispatch, Resumes(ev.proc, ev.sig)
      PROVE  /\ current' \in Procs
             /\ pc' \in [Procs -> {"ready", "hold", "claim", "evict", "wait", "woken",
                                   "settle", "done"}]
             /\ sig' \in [Procs -> Int]
             /\ \A q \in Procs : pc'[q] \in CallSteps <=> pc[q] \in CallSteps
             /\ \A q \in Procs : pc'[q] \in {"ready", "claim", "evict", "woken", "settle"}
                                   => current' = q
  BY <1>1, <1>2, <1>3 DEF Resumes, IInv, TypeOK
<1>4. ASSUME NEW ev \in due, Grant(ev)
      PROVE  IInv'
  <2>1. CASE Awaited(ev)
    <3>1. Dispatch /\ Resumes(ev.proc, ev.sig)
      BY <1>4, <2>1 DEF Grant
    <3>2. TypeOK'
      BY <1>3, <1>4, <3>1 DEF Grant, IInv, TypeOK
    <3> QED
      BY <1>3, <1>4, <3>1, <3>2, OnlyWaits DEF Grant
  <2>2. CASE ~Awaited(ev)
    <3>1. TypeOK'
      BY <1>4, <2>2 DEF Grant, IInv, TypeOK
    <3> QED
      BY <1>4, <2>2, <3>1, OnlyWaits DEF Grant, IInv, OneRuns
  <2> QED
    BY <2>1, <2>2
<1>5. ASSUME NEW ev \in due, Interrupted(ev)
      PROVE  IInv'
  <2>1. Dispatch /\ Resumes(ev.proc, ev.sig)
    BY <1>5 DEF Interrupted
  <2>2. /\ later' \in SUBSET Event /\ due' \in SUBSET Event
        /\ queue' \in [Resources -> SUBSET Entry]
    BY <1>1, <1>5, RemovalsTyped DEF Interrupted, IInv, TypeOK
  <2>3. TypeOK'
    BY <1>3, <1>5, <2>1, <2>2 DEF Interrupted, IInv, TypeOK
  <2> QED
    BY <1>3, <1>5, <2>1, <2>3, OnlyWaits DEF Interrupted
<1>6. ASSUME NEW ev \in due, Resumed(ev)
      PROVE  IInv'
  <2>1. Dispatch /\ Resumes(ev.proc, ev.sig)
    BY <1>6 DEF Resumed
  <2>2. later' \in SUBSET Event /\ due' \in SUBSET Event
    BY <1>1, <1>6, RemovalsTyped DEF Resumed, IInv, TypeOK
  <2>3. TypeOK'
    BY <1>3, <1>6, <2>1, <2>2 DEF Resumed, IInv, TypeOK
  <2> QED
    BY <1>3, <1>6, <2>1, <2>3, OnlyWaits DEF Resumed
<1>7. ASSUME NEW S \in SUBSET later, Tick(S)
      PROVE  IInv'
  <2>1. TypeOK'
    BY <1>7 DEF Tick, IInv, TypeOK
  <2> QED
    BY <1>7, <2>1, OnlyWaits DEF Tick, IInv, OneRuns
<1>8. CASE HookRuns \/ HookEnds
  <2>1. TypeOK'
    BY <1>8 DEF HookRuns, HookEnds, IInv, TypeOK
  <2>2. \A q \in Procs : pc[q] \notin {"ready", "claim", "evict", "woken", "settle"}
    BY <1>8, NamesAssumption DEF HookRuns, HookEnds, Dispatch, Acts, IInv, OneRuns
  <2> QED
    BY <1>8, <2>1, <2>2, OnlyWaits DEF HookRuns, HookEnds
<1> QED
  BY <1>4, <1>5, <1>6, <1>7, <1>8 DEF EventLoop

-----------------------------------------------------------------------------
(* The theorems *)

LEMMA Begins == Init => IInv
<1> SUFFICES ASSUME Init PROVE IInv
  OBVIOUS
<1>1. \A r \in Resources, p \in Procs : holding[r][p] = NoHolding
  BY DEF Init
<1>2. TypeOK
  <2>1. NoCall \in Call
    BY DEF NoCall, Call, Key, NoKey
  <2>2. due \subseteq Event
    BY WakeupTyped DEF Init
  <2> QED
    BY <2>1, <2>2, NoHoldingTyped, CapacityAssumption, PriorityAssumption DEF Init, TypeOK
<1>3. Counted
  <2> SUFFICES ASSUME NEW r \in Resources
               PROVE  /\ IsFiniteSet(Units(Amounts(r)))
                      /\ in_use[r] = Cardinality(Units(Amounts(r)))
    BY DEF Counted
  <2>1. \A p \in Procs : Amounts(r)[p] = 0
    BY <1>1, NoHoldingTyped DEF Amounts
  <2>2. Units(Amounts(r)) = {}
    BY <2>1 DEF Units
  <2> QED
    BY <2>2, FS_EmptySet DEF Init
<1>4. CallKnown /\ OneRuns /\ TagsFaithful /\ CallerRanked
  BY <1>1, NoHoldingTyped DEF Init, CallKnown, OneRuns, TagsFaithful, CallerRanked, NoCall
<1> QED
  BY <1>2, <1>3, <1>4 DEF IInv

LEMMA Keeps == IInv /\ [Next]_vars => IInv'
<1> SUFFICES ASSUME IInv, [Next]_vars PROVE IInv'
  OBVIOUS
<1>1. ASSUME NEW p \in Procs, InCall(p)
      PROVE  IInv'
  BY <1>1, ClaimAllKeeps, ClaimSomeKeeps, EvictKeeps, EnterQueueKeeps, WaitOverKeeps,
     CallEndsKeeps DEF InCall
<1>2. CASE Tasks
  BY <1>2, ShrinkEvictKeeps, ShrinkDoneKeeps, DropKeeps DEF Tasks
<1>3. CASE UNCHANGED vars
  <2>1. TypeOK'
    BY <1>3 DEF IInv, TypeOK, vars, procs, events, waits, units, caps, tasks
  <2> QED
    BY <1>3, <2>1, OnlyWaits
       DEF IInv, OneRuns, vars, procs, events, waits, units, caps, tasks
<1> QED
  BY <1>1, <1>2, <1>3, CallsKeep, ControlsKeep, EventLoopKeeps DEF Next

LEMMA Invariant == Spec => []IInv
BY Begins, Keeps, PTL DEF Spec

(* Every variable has its type: no count goes below zero, whatever the      *)
(* order of evictions, drops, rollbacks and interrupts.                     *)
THEOREM TypesHold == Spec => []TypeOK
<1>1. IInv => TypeOK
  BY DEF IInv
<1> QED
  BY <1>1, Invariant, PTL

(* in_use is the sum of the holdings: no preemption, rollback, exit or stop *)
(* loses a unit of resource.c or counts it twice.                           *)
THEOREM UnitsAreConserved == Spec => []Conservation
<1>1. IInv => Conservation
  BY DEF IInv, Counted, Conservation
<1> QED
  BY <1>1, Invariant, PTL

(* The holdable tags of a process are those of its holdings and its call,   *)
(* so that its exit finds all units it holds and no stale tag.              *)
THEOREM TagsAreFaithful == Spec => []TagsFaithful
<1>1. IInv => TagsFaithful
  BY DEF IInv
<1> QED
  BY <1>1, Invariant, PTL
=============================================================================
