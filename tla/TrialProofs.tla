----------------------------- MODULE TrialProofs -----------------------------
(***************************************************************************)
(* Proofs about a trial, for any processes, models, window and model code. *)
(***************************************************************************)
EXTENDS TrialProps, FiniteSetTheorems, TLAPS

Over    == phase \in {"over", "abandoned"}
Signals == {"interrupt", "resume"}

-----------------------------------------------------------------------------
(* The inductive invariant *)

(* Events *)

(* All that is pending, but for timers and callbacks, is of this instant.   *)
InTime(e) ==
  /\ e.at >= now
  /\ e.kind \notin Timers \cup Callbacks => e.at = now
  /\ e.kind \in Signals => signalled_at >= now

(* Whom an event may find, and in which state.                              *)
Reaches(e) ==
  /\ e.kind \in Callbacks <=> e.proc \notin Procs
  /\ e.kind \in Starts => pstate[e.proc] = "initialized" /\ Owner[e.proc] \notin released
  /\ e.kind \in Timers => pstate[e.proc] = "running"
  /\ e.kind = "grant" => e.proc \in waiting
  /\ e.kind \in Signals => pstate[e.proc] \in {"running", "finished"}
  /\ e.kind \in Retirements => /\ e.proc \in Spawned /\ pstate[e.proc] # "none"
                               /\ pstate[e.proc] = "finished" \/ Owner[e.proc] \in released

(* When handles are not kept, no start or wakeup finds a struct that was    *)
(* freed, or that was retired at an earlier instant.                        *)
Harmless(e) ==
  ~LateHandles /\ e.kind \in Starts \cup Wakeups =>
    frees[e.proc] = 0 /\ ~(e.proc \in kept /\ kept_at[e.proc] < now)

(* The window's events are where the window is.                             *)
InWindow(e) == /\ e.kind = "record_start" => e.at = Warmup
               /\ e.kind = "record_stop" => e.at = Warmup + Duration

Pending == \A e \in events : InTime(e) /\ Reaches(e) /\ Harmless(e) /\ InWindow(e)

StartsOnce ==
  \A e, f \in events : e.kind \in Starts /\ f.kind \in Starts /\ e.proc = f.proc => e = f

(* Processes *)

Types == TypeOK /\ (unit = {} \/ \E p \in Procs : unit = {p})

Runs ==
  /\ current \in Procs => phase = "running" /\ current \in Running \ waiting
  /\ phase \in {"setup", "ending"} => current = Hook
  /\ unit \cup waiting \subseteq Running
  /\ \A p \in Running : Owner[p] \notin released

(* The struct of a created process is in the registry until it is freed; it *)
(* is in its slot, kept or freed if it was spawned, and none of these else. *)
(* Who is in no slot any more will not run again.                           *)
Structs ==
  /\ \A p \in Procs \ Created : p \notin slot \cup kept \cup registry /\ frees[p] = 0
  /\ slot \cup kept \subseteq Spawned /\ slot \cap kept = {}
  /\ ~Over => \A p \in Created :
       /\ p \in registry <=> frees[p] = 0
       /\ frees[p] = IF p \in Spawned \ (slot \cup kept) THEN 1 ELSE 0
       /\ p \in Spawned \ slot =>
            pstate[p] = "finished" \/ (pstate[p] = "initialized" /\ Owner[p] \in released)
  /\ Over => /\ events = {}
             /\ \A p \in Procs : frees[p] = IF p \in Created THEN 1 ELSE 0

StaticProcs ==
  /\ phase = "setup" => now = 0 /\ ~closed /\ Created \subseteq Spawned
  /\ phase \in {"running", "ending"} => Procs \ Spawned \subseteq Created

(* Models whose on_start hooks run *)

(* A model is started once, by the actor that spawned it, which runs or has *)
(* suspended inside of an on_start hook; before that it has no processes.   *)
Allocations ==
  /\ \A p \in Spawned : node[Owner[p]] \in {"absent", "allocated"} => p \notin Created
  /\ \A a \in Actors : \A i \in DOMAIN starting[a] :
       starting[a][i] \in Dynamic /\ node[starting[a][i]] = "allocated"
  /\ \A a, b \in Actors : \A i \in DOMAIN starting[a], j \in DOMAIN starting[b] :
       starting[a][i] = starting[b][j] => a = b /\ i = j
  /\ phase # "abandoned" => \A a \in Actors : starting[a] # <<>> =>
       IF a = Hook THEN current = Hook ELSE a \in Running

(* The window *)

Window ==
  /\ phase \in {"ending", "over"} => recording # "on"
  /\ phase = "running" /\ Finite /\ ~ended =>
       /\ recording = "no" =>
            /\ EventOf("record_start", NoProc, Warmup) \in events
            /\ EventOf("record_stop", NoProc, Warmup + Duration) \in events
       /\ recording = "on" => /\ EventOf("record_stop", NoProc, Warmup + Duration) \in events
                              /\ now >= Warmup
       /\ recording = "off" => now >= Warmup + Duration

Shut ==
  phase = "running" /\ closed /\ ~LateSpawns =>
    /\ Running = {} /\ \A e \in events : e.kind \notin Starts
    /\ \A a \in Actors : starting[a] = <<>>

IInv == /\ Types /\ Pending /\ StartsOnce /\ Runs /\ Structs /\ StaticProcs
        /\ Allocations /\ Window /\ Shut

USE DEF Timers, Wakeups, Starts, Retirements, Callbacks, Signals

-----------------------------------------------------------------------------
LEMMA EventTyped ==
  ASSUME NEW kind \in Wakeups \cup Starts \cup Retirements \cup Callbacks,
         NEW p \in Procs \cup {NoProc}, NEW t \in Nat
  PROVE  /\ EventOf(kind, p, t) \in Event
         /\ EventOf(kind, p, t).kind = kind /\ EventOf(kind, p, t).proc = p
         /\ EventOf(kind, p, t).at = t
BY DEF EventOf, Event

LEMMA SameEvent ==
  ASSUME NEW e \in Event, NEW f \in Event, e.kind = f.kind, e.proc = f.proc, e.at = f.at
  PROVE  e = f
BY DEF Event

LEMMA EventFields ==
  ASSUME NEW e \in Event
  PROVE  /\ e.kind \in Wakeups \cup Starts \cup Retirements \cup Callbacks
         /\ e.proc \in Procs \cup {NoProc} /\ e.at \in Nat
BY DEF Event

LEMMA WindowTyped ==
  /\ Warmup \in Nat /\ Duration \in Nat /\ Cooldown \in Nat /\ Duration > 0
  /\ Warmup + Duration \in Nat /\ Warmup + Duration + Cooldown \in Nat
  /\ Delays \subseteq Nat
  /\ Finite \in BOOLEAN /\ LateSpawns \in BOOLEAN /\ LateHandles \in BOOLEAN
<1>1. /\ Warmup \in Nat /\ Duration \in Nat /\ Cooldown \in Nat /\ Duration > 0
      /\ Delays \subseteq Nat
  BY WindowAssumption
<1>2. Finite \in BOOLEAN /\ LateSpawns \in BOOLEAN /\ LateHandles \in BOOLEAN
  BY WindowAssumption
<1> QED
  BY <1>1, <1>2

(* Initially nothing is pending, and nothing exists.                        *)
LEMMA Initially == Init => IInv
<1> SUFFICES ASSUME Init PROVE IInv
  OBVIOUS
<1> USE DEF Init
<1>1. Types
  <2>1. Cardinality({}) = 0
    BY FS_EmptySet
  <2>2. starting \in [Actors -> Seq(Models)]
    OBVIOUS
  <2>3. node \in [Models -> {"static", "absent", "allocated", "started"}]
    OBVIOUS
  <2>4. current \in Actors \cup {NoProc} /\ now \in Nat /\ signalled_at \in Int
    BY DEF Actors
  <2>5. {ended, closed} \subseteq BOOLEAN
    OBVIOUS
  <2> QED
    BY <2>1, <2>2, <2>3, <2>4, <2>5 DEF Types, TypeOK
<1>2. Pending /\ StartsOnce
  BY DEF Pending, StartsOnce
<1>3. Runs
  BY ActorAssumption DEF Runs, Running
<1>4. Structs /\ StaticProcs
  BY DEF Structs, StaticProcs, Created, Over
<1>5. Allocations
  BY DEF Allocations, Created
<1>6. Window /\ Shut
  BY DEF Window, Shut
<1> QED
  BY <1>1, <1>2, <1>3, <1>4, <1>5, <1>6 DEF IInv

-----------------------------------------------------------------------------
(* Processes that end *)

LEMMA OneUnit ==
  ASSUME NEW S, S = {} \/ \E p \in Procs : S = {p}
  PROVE  Cardinality(S) <= 1
<1>1. Cardinality({}) = 0
  BY FS_EmptySet
<1>2. \A p \in Procs : Cardinality({p}) = 1
  BY FS_Singleton
<1> QED
  BY <1>1, <1>2

(* What is pending after an exit is what was, but for the swept, and maybe  *)
(* a grant.                                                                 *)
LEMMA Passed ==
  ASSUME NEW S, NEW ev, events' \in PassedOn(ev, S)
  PROVE  /\ ev \subseteq events'
         /\ \A e \in events' : e \in ev \/ \E q \in Candidates(S) : e = EventOf("grant", q, now)
BY DEF PassedOn, Returned, Signalled

LEMMA SweptEvents ==
  ASSUME NEW S, NEW ev, EngineExit(S, ev)
  PROVE  /\ Swept(S, ev) \subseteq events'
         /\ \A e \in events' : \/ e \in ev /\ (e.proc \in S => e.kind \in Retirements)
                               \/ \E q \in Candidates(S) : e = EventOf("grant", q, now)
         /\ unit' = unit \ S /\ waiting' = waiting \ S
<1>1. \/ events' \in PassedOn(Swept(S, ev), S)
      \/ events' \in Returned(Swept(S, ev), S)
  BY DEF EngineExit
<1>2. /\ Swept(S, ev) \subseteq events'
      /\ \A e \in events' : \/ e \in Swept(S, ev)
                            \/ \E q \in Candidates(S) : e = EventOf("grant", q, now)
  BY <1>1, Passed DEF Returned, Signalled
<1> QED
  BY <1>2 DEF EngineExit, Swept

(* A process that is let go without a sweep has nothing to sweep.           *)
LEMMA NothingToSweep ==
  ASSUME IInv, NEW p \in Procs, p = current, exits_without_sweep(p), NEW e \in events,
         e.proc = p
  PROVE  e.kind \in Retirements
<1>1. e \in Event /\ InTime(e) /\ Reaches(e)
  BY DEF IInv, Types, TypeOK, Pending
<1>2. e.kind \in Wakeups \cup Starts \cup Retirements \cup Callbacks
  BY <1>1, EventFields
<1>3. p \in Running \ waiting
  BY DEF IInv, Runs
<1>4. e.kind \notin Timers
  BY DEF exits_without_sweep, Of
<1>5. e.kind \notin Signals
  <2>1. signalled_at \in Int /\ now \in Nat /\ signalled_at < now
    BY DEF IInv, Types, TypeOK, exits_without_sweep
  <2> QED
    BY <1>1, <2>1 DEF InTime
<1> QED
  BY <1>1, <1>2, <1>3, <1>4, <1>5 DEF Reaches, Running

(* What the ends of processes have in common: those in F end, of them those *)
(* in S with the engine's exit, when the queue is ev.                       *)
Ending(F, S, ev) ==
  /\ F \subseteq Running /\ S \subseteq F
  /\ EngineExit(S, ev) /\ Finished(F)
  /\ \A p \in F \ S : p = current /\ exits_without_sweep(p)
  /\ \A e \in ev :
       \/ e \in events /\ (e.kind \in Starts => Owner[e.proc] \notin released')
       \/ \E p \in Spawned \cap Created, kind \in Retirements :
            e = EventOf(kind, p, now) /\ (p \in F \/ Owner[p] \in released')
  /\ current' = IF current \in F THEN NoProc ELSE current
  /\ released \subseteq released' /\ released' \subseteq Models
  /\ \A p \in Running \ F : Owner[p] \notin released'

(* The events after that, but for grants, were pending, for no process that *)
(* has ended, or are retirements.                                           *)
LEMMA EventsAtEnd ==
  ASSUME IInv, NEW F, NEW S, NEW ev, Ending(F, S, ev), NEW e \in events'
  PROVE  \/ /\ e \in events /\ (e.proc \in F => e.kind \in Retirements)
            /\ e.kind \in Starts => Owner[e.proc] \notin released'
         \/ \E p \in Spawned \cap Created, kind \in Retirements :
              e = EventOf(kind, p, now) /\ (p \in F \/ Owner[p] \in released')
         \/ \E q \in Candidates(S) : e = EventOf("grant", q, now)
<1>1. CASE \E q \in Candidates(S) : e = EventOf("grant", q, now)
  BY <1>1
<1>2. CASE e \in ev /\ (e.proc \in S => e.kind \in Retirements)
  <2>1. ASSUME e \in events, e.proc \in F \ S PROVE e.kind \in Retirements
    BY <2>1, NothingToSweep DEF Ending, Running
  <2> QED
    BY <1>2, <2>1 DEF Ending
<1> QED
  BY <1>1, <1>2, SweptEvents DEF Ending

LEMMA EndingKeeps ==
  ASSUME IInv, ~Over, NEW F, NEW S, NEW ev, Ending(F, S, ev),
         UNCHANGED <<phase, now, signalled_at, node, memory, recording>>,
         ended' \in BOOLEAN, closed' \in BOOLEAN, phase = "setup" => ~closed'
  PROVE  /\ Types' /\ Pending' /\ StartsOnce' /\ Runs' /\ Structs' /\ StaticProcs'
         /\ Allocations'
<1> USE DEF memory
<1>a. /\ F \subseteq Running /\ S \subseteq F /\ F \subseteq Procs /\ Hook \notin F
      /\ Created \subseteq Procs
  BY ActorAssumption DEF Ending, Running, Created
<1>b. /\ pstate' = [p \in Procs |-> IF p \in F THEN "finished" ELSE pstate[p]]
      /\ starting' = [a \in Actors |-> IF a \in F THEN <<>> ELSE starting[a]]
  BY DEF Ending, Finished
<1>c. unit' = unit \ S /\ waiting' = waiting \ S
  BY SweptEvents DEF Ending
<1>d. \A q \in Candidates(S) : q \in waiting' /\ q \in Procs /\ q \in Running
  BY <1>c DEF Candidates, IInv, Runs, Running
<1>e. TypeOK
  BY DEF IInv, Types
<1>f. \A p \in Procs : Owner[p] \in Models
  BY OwnerAssumption
<1>g. /\ released \subseteq released' /\ released' \subseteq Models
      /\ \A p \in Running \ F : Owner[p] \notin released'
      /\ current' = IF current \in F THEN NoProc ELSE current
  BY DEF Ending
<1>h. \A e \in events : Reaches(e) /\ InTime(e) /\ Harmless(e) /\ InWindow(e) /\ e \in Event
  BY <1>e DEF IInv, Pending, TypeOK
<1>1. Types'
  <2>1. events' \subseteq Event
    <3> SUFFICES ASSUME NEW e \in events' PROVE e \in Event
      OBVIOUS
    <3>1. now \in Nat
      BY <1>e DEF TypeOK
    <3> QED
      BY <1>a, <1>d, <1>h, <3>1, EventsAtEnd, EventTyped
  <2>2. unit' = {} \/ \E p \in Procs : unit' = {p}
    BY <1>c DEF IInv, Types
  <2>3. Cardinality(unit') <= 1
    BY <2>2, OneUnit
  <2>4. starting' \in [Actors -> Seq(Models)]
    BY <1>b, <1>e DEF TypeOK
  <2>5. pstate' \in [Procs -> {"none", "initialized", "running", "finished"}]
    BY <1>b, <1>e DEF TypeOK
  <2>6. unit' \subseteq Procs /\ waiting' \subseteq Procs
    BY <1>c, <1>e DEF TypeOK
  <2> QED
    BY <1>e, <1>g, <2>1, <2>2, <2>3, <2>4, <2>5, <2>6 DEF Types, TypeOK
<1>2. Pending'
  <2> SUFFICES ASSUME NEW e \in events'
               PROVE  InTime(e)' /\ Reaches(e)' /\ Harmless(e)' /\ InWindow(e)'
    BY DEF Pending
  <2>1. CASE /\ e \in events /\ (e.proc \in F => e.kind \in Retirements)
             /\ e.kind \in Starts => Owner[e.proc] \notin released'
    <3>1. InTime(e)' /\ Harmless(e)' /\ InWindow(e)'
      BY <1>h, <2>1 DEF InTime, Harmless, InWindow
    <3>2. Reaches(e)'
      <4>1. e.kind \notin Callbacks => e.proc \in Procs
        BY <1>h, <2>1 DEF Reaches
      <4>2. CASE e.proc \in F
        BY <1>a, <1>b, <1>h, <2>1, <4>1, <4>2 DEF Reaches
      <4>3. CASE e.proc \notin F
        <5>1. e.proc \in Procs => pstate'[e.proc] = pstate[e.proc]
          BY <1>b, <4>3
        <5>2. e.kind = "grant" => e.proc \in waiting'
          BY <1>a, <1>c, <1>h, <2>1, <4>3 DEF Reaches
        <5> QED
          BY <1>g, <1>h, <2>1, <4>1, <5>1, <5>2 DEF Reaches
      <4> QED
        BY <4>2, <4>3
    <3> QED
      BY <3>1, <3>2
  <2>2. ASSUME NEW p \in Spawned \cap Created, NEW kind \in Retirements,
               e = EventOf(kind, p, now), p \in F \/ Owner[p] \in released'
        PROVE  InTime(e)' /\ Reaches(e)' /\ Harmless(e)' /\ InWindow(e)'
    <3>1. /\ e.kind \in Retirements /\ e.proc = p /\ e.at = now /\ now \in Nat
          /\ p \in Procs /\ pstate[p] # "none"
      BY <1>e, <2>2, EventTyped DEF TypeOK, Created
    <3>2. pstate'[p] # "none" /\ (p \in F => pstate'[p] = "finished")
      BY <1>b, <3>1
    <3> QED
      BY <2>2, <3>1, <3>2 DEF InTime, Reaches, Harmless, InWindow
  <2>3. ASSUME NEW q \in Candidates(S), e = EventOf("grant", q, now)
        PROVE  InTime(e)' /\ Reaches(e)' /\ Harmless(e)' /\ InWindow(e)'
    <3>1. e.kind = "grant" /\ e.proc = q /\ e.at = now /\ now \in Nat
      BY <1>d, <1>e, <2>3, EventTyped DEF TypeOK
    <3>2. InTime(e)' /\ Reaches(e)' /\ InWindow(e)'
      BY <1>d, <3>1 DEF InTime, Reaches, InWindow
    <3>3. frees[q] = 0 /\ q \notin kept
      BY <1>d DEF IInv, Structs, Created, Running
    <3>4. Harmless(e)'
      BY <3>1, <3>3 DEF Harmless
    <3> QED
      BY <3>2, <3>4
  <2> QED
    BY <2>1, <2>2, <2>3, EventsAtEnd
<1>3. StartsOnce'
  <2>1. \A e \in events' : e.kind \in Starts => e \in events
    <3> SUFFICES ASSUME NEW e \in events', e.kind \in Starts PROVE e \in events
      OBVIOUS
    <3>1. now \in Nat
      BY <1>e DEF TypeOK
    <3> QED
      BY <1>a, <1>d, <3>1, EventsAtEnd, EventTyped
  <2> QED
    BY <2>1 DEF IInv, StartsOnce
<1>4. Runs'
  <2>1. unit \cup waiting \subseteq Running
    BY DEF IInv, Runs
  <2>2. \A p \in F \ S : p \notin unit \cup waiting
    BY DEF Ending, exits_without_sweep, IInv, Runs, Running
  <2>3. unit' \cup waiting' \subseteq Running'
    BY <1>b, <1>c, <2>1, <2>2 DEF Running
  <2>4. \A p \in Running' : p \in Running \ F
    BY <1>b DEF Running
  <2>5. current' \in Procs => phase' = "running" /\ current' \in Running' \ waiting'
    BY <1>b, <1>c, <1>g, ActorAssumption DEF IInv, Runs, Running
  <2>6. phase' \in {"setup", "ending"} => current' = Hook
    BY <1>a, <1>g DEF IInv, Runs
  <2> QED
    BY <1>g, <2>3, <2>4, <2>5, <2>6 DEF Runs
<1>5. Created' = Created
  BY <1>a, <1>b DEF Created, Running
<1>6. Structs'
  <2>1. ~Over'
    BY DEF Over
  <2>2. \A p \in Created : p \in Spawned \ slot =>
          pstate'[p] = "finished" \/ (pstate'[p] = "initialized" /\ Owner[p] \in released')
    BY <1>a, <1>b, <1>g DEF IInv, Structs
  <2> QED
    BY <1>5, <2>1, <2>2 DEF IInv, Structs
<1>7. StaticProcs'
  BY <1>5 DEF IInv, StaticProcs
<1>8. Allocations'
  <2>1. \A p \in Spawned : node'[Owner[p]] \in {"absent", "allocated"} => p \notin Created'
    BY <1>5 DEF IInv, Allocations
  <2>2. \A a \in Actors : starting'[a] = <<>> \/ (a \notin F /\ starting'[a] = starting[a])
    BY <1>b
  <2>3. DOMAIN <<>> = {}
    OBVIOUS
  <2>4. \A a \in Actors \ F : a # Hook => (a \in Running => a \in Running')
    BY <1>b DEF Running
  <2>5. current = Hook => current' = Hook
    BY <1>a, <1>g
  <2> QED
    BY <2>1, <2>2, <2>3, <2>4, <2>5 DEF IInv, Allocations
<1> QED
  BY <1>1, <1>2, <1>3, <1>4, <1>6, <1>7, <1>8

(* The window's events stay, and nothing starts that could not before.      *)
LEMMA EndingKeepsWindow ==
  ASSUME IInv, NEW F, NEW S, NEW ev, Ending(F, S, ev),
         UNCHANGED <<phase, now, recording, ended>>,
         \A e \in events : e.kind \in {"record_start", "record_stop"} => e \in ev
  PROVE  Window'
<1>1. \A p \in S : p \in Procs
  BY DEF Ending, Running
<1>2. ASSUME NEW kind \in {"record_start", "record_stop"}, NEW t \in Nat,
             EventOf(kind, NoProc, t) \in events
      PROVE  EventOf(kind, NoProc, t) \in events'
  <2> DEFINE e == EventOf(kind, NoProc, t)
  <2>1. e \in ev /\ e.proc \notin S
    BY <1>1, <1>2, EventTyped, ActorAssumption
  <2>2. e \in Swept(S, ev)
    BY <2>1 DEF Swept
  <2> QED
    BY <2>2, SweptEvents DEF Ending
<1> QED
  BY <1>2, WindowTyped DEF IInv, Window

LEMMA EndingKeepsShut ==
  ASSUME IInv, NEW F, NEW S, NEW ev, Ending(F, S, ev), UNCHANGED <<phase, now, closed>>
  PROVE  Shut'
<1> SUFFICES ASSUME phase = "running", closed, ~LateSpawns
             PROVE  /\ Running' = {} /\ \A e \in events' : e.kind \notin Starts
                    /\ \A a \in Actors : starting'[a] = <<>>
  BY DEF Shut
<1>1. /\ Running = {} /\ \A e \in events : e.kind \notin Starts
      /\ \A a \in Actors : starting[a] = <<>>
  BY DEF IInv, Shut
<1>2. F = {}
  BY <1>1 DEF Ending
<1>3. /\ pstate' = [p \in Procs |-> pstate[p]]
      /\ starting' = [a \in Actors |-> starting[a]]
  BY <1>2 DEF Ending, Finished
<1>4. \A e \in events' : e.kind \notin Starts
  <2>1. now \in Nat
    BY DEF IInv, Types, TypeOK
  <2>2. Candidates(S) \subseteq Procs /\ Spawned \subseteq Procs
    BY DEF Candidates, IInv, Types, TypeOK, Spawned
  <2> QED
    BY <1>1, <2>1, <2>2, EventsAtEnd, EventTyped
<1> QED
  BY <1>1, <1>3, <1>4 DEF Running

(* Who acts runs, in a trial that is not over.                              *)
LEMMA ActorsRun ==
  ASSUME IInv, NEW a \in Actors, Acts(a)
  PROVE  ~Over /\ (a # Hook => a \in Running \ waiting /\ phase = "running")
BY DEF Acts, Over, Actors, IInv, Runs

-----------------------------------------------------------------------------
(* The calls that end processes *)

LEMMA FinishEnds ==
  ASSUME IInv, NEW p \in Actors, Finish(p)
  PROVE  \E S : Ending({p}, S, events \cup {EventOf("retire", q, now) : q \in {p} \cap Spawned})
<1> DEFINE ev == events \cup {EventOf("retire", q, now) : q \in {p} \cap Spawned}
           S  == IF p \in Spawned /\ exits_without_sweep(p) THEN {} ELSE {p}
<1>1. p \in Running /\ current = p
  BY ActorsRun DEF Finish, Acts
<1>2. EngineExit(S, ev) /\ Finished({p}) /\ current' = NoProc /\ released' = released
  BY DEF Finish, Leaves
<1>3. \A q \in {p} \ S : q = current /\ exits_without_sweep(q)
  BY <1>1
<1>4. released \subseteq Models /\ \A q \in Running : Owner[q] \notin released
  BY DEF IInv, Types, TypeOK, Runs
<1>5. ASSUME NEW e \in ev
      PROVE  \/ e \in events /\ (e.kind \in Starts => Owner[e.proc] \notin released')
             \/ \E q \in Spawned \cap Created, kind \in Retirements :
                  e = EventOf(kind, q, now) /\ (q \in {p} \/ Owner[q] \in released')
  <2>1. e \in events => (e.kind \in Starts => Owner[e.proc] \notin released')
    BY <1>2 DEF IInv, Pending, Reaches
  <2>2. p \in Created
    BY <1>1 DEF Created, Running
  <2> QED
    BY <2>1, <2>2
<1> QED
  BY <1>1, <1>2, <1>3, <1>4, <1>5 DEF Ending

LEMMA FinishKeeps ==
  ASSUME IInv, NEW p \in Actors, Finish(p)
  PROVE  IInv'
<1> DEFINE ev == events \cup {EventOf("retire", q, now) : q \in {p} \cap Spawned}
<1>1. PICK S : Ending({p}, S, ev)
  BY FinishEnds
<1>2. ~Over
  BY ActorsRun DEF Finish
<1>3. UNCHANGED <<phase, now, signalled_at, node, memory, recording, ended, closed>>
  BY DEF Finish, flags
<1>4. ended \in BOOLEAN /\ closed \in BOOLEAN /\ (phase = "setup" => ~closed)
  BY DEF IInv, Types, TypeOK, StaticProcs
<1> HIDE DEF ev
<1>5. /\ Types' /\ Pending' /\ StartsOnce' /\ Runs' /\ Structs' /\ StaticProcs'
      /\ Allocations'
  BY <1>1, <1>2, <1>3, <1>4, EndingKeeps
<1>6. Window' /\ Shut'
  BY <1>1, <1>3, EndingKeepsWindow, EndingKeepsShut DEF ev
<1> QED
  BY <1>5, <1>6 DEF IInv

LEMMA EndTrialEnds ==
  ASSUME IInv, NEW a \in Actors, EndTrial(a)
  PROVE  Ending({a} \ {Hook}, {a} \ {Hook}, {})
<1>1. {a} \ {Hook} \subseteq Running /\ current = a
  BY ActorsRun DEF EndTrial, Makes, Acts
<1>2. released \subseteq Models /\ \A q \in Running : Owner[q] \notin released
  BY DEF IInv, Types, TypeOK, Runs
<1> QED
  BY <1>1, <1>2 DEF EndTrial, Ending

LEMMA EndTrialKeeps ==
  ASSUME IInv, NEW a \in Actors, EndTrial(a)
  PROVE  IInv'
<1> DEFINE F == {a} \ {Hook}
<1>1. Ending(F, F, {})
  BY EndTrialEnds
<1>2. ~Over
  BY ActorsRun DEF EndTrial, Makes
<1>3. UNCHANGED <<phase, now, signalled_at, node, memory, recording, closed>> /\ ended' = TRUE
  BY DEF EndTrial
<1>4. closed \in BOOLEAN /\ (phase = "setup" => ~closed)
  BY DEF IInv, Types, TypeOK, StaticProcs
<1> HIDE DEF F
<1>5. /\ Types' /\ Pending' /\ StartsOnce' /\ Runs' /\ Structs' /\ StaticProcs'
      /\ Allocations'
  BY <1>1, <1>2, <1>3, <1>4, EndingKeeps
<1>6. Shut'
  BY <1>1, <1>3, EndingKeepsShut
<1>7. Window'
  BY <1>3 DEF IInv, Window
<1> QED
  BY <1>5, <1>6, <1>7 DEF IInv

(* Who is stopped by a release, and what is pending then.                   *)
Mine(m)        == {p \in Created : Owner[p] = m} \cap (IF m \in Dynamic THEN slot ELSE Procs)
Others(a, m)   == (Mine(m) \cap Running) \ {a}
AtRelease(m)   == WithoutStarts(Mine(m), events)
                  \cup {EventOf("retire_released", p, now) : p \in Mine(m) \cap Spawned}
EndedBy(a, m)  == IF a \in Mine(m) THEN Others(a, m) \cup {a} ELSE Others(a, m)

LEMMA ReleaseEnds ==
  ASSUME IInv, NEW a \in Actors, NEW m \in Models, Release(a, m)
  PROVE  \E S : Ending(EndedBy(a, m), S, AtRelease(m))
<1> DEFINE F  == EndedBy(a, m)
           ev == AtRelease(m)
           S  == IF a \in Mine(m) /\ ~(a \in Spawned /\ exits_without_sweep(a))
                 THEN Others(a, m) \cup {a} ELSE Others(a, m)
<1>1. current = a /\ (a # Hook => a \in Running) /\ ~Over
  BY ActorsRun DEF Release, Makes, Acts
<1>2. Mine(m) \subseteq Procs /\ Hook \notin Mine(m)
  BY ActorAssumption DEF Mine, Created
<1>3. F \subseteq Running /\ S \subseteq F
  BY <1>1, <1>2 DEF EndedBy, Others
<1>4. EngineExit(S, ev) /\ Finished(F) /\ released' = released \cup {m}
      /\ current' = IF current \in F THEN NoProc ELSE current
  <2>1. /\ released' = released \cup {m}
        /\ IF a \in Mine(m)
           THEN /\ Leaves(Others(a, m), a, ev) /\ Finished(Others(a, m) \cup {a})
                /\ current' = NoProc
           ELSE EngineExit(Others(a, m), ev) /\ Finished(Others(a, m)) /\ UNCHANGED current
    BY DEF Release, Mine, Others, AtRelease
  <2>2. Others(a, m) \ {a} = Others(a, m)
    BY DEF Others
  <2> QED
    BY <1>1, <2>1, <2>2 DEF Leaves, EndedBy, Others
<1>5. \A p \in F \ S : p = current /\ exits_without_sweep(p)
  BY <1>1 DEF EndedBy
(* A process of m that is not in its slot will not run again, see Structs.  *)
<1>6. ASSUME NEW p \in Procs, pstate[p] \in {"initialized", "running"}, Owner[p] = m
      PROVE  p \in Mine(m)
  <2>1. m \notin released /\ p \in Created
    BY <1>6 DEF Release, Created
  <2>2. m \in Dynamic => p \in Spawned
    BY <1>6 DEF Spawned
  <2>3. p \in Spawned => p \in slot
    BY <1>1, <1>6, <2>1 DEF IInv, Structs
  <2> QED
    BY <1>6, <2>1, <2>2, <2>3 DEF Mine
<1>7. \A p \in Running \ F : Owner[p] \notin released'
  <2>1. \A p \in Running : Owner[p] \notin released /\ p \in Procs /\ pstate[p] = "running"
    BY DEF IInv, Runs, Running
  <2>2. ASSUME NEW p \in Running, Owner[p] = m PROVE p \in F
    <3>1. p \in Mine(m)
      BY <1>6, <2>1, <2>2
    <3> QED
      BY <3>1 DEF EndedBy, Others
  <2> QED
    BY <1>4, <2>1, <2>2
<1>8. released \subseteq released' /\ released' \subseteq Models
  BY <1>4 DEF IInv, Types, TypeOK
<1>9. ASSUME NEW e \in ev
      PROVE  \/ e \in events /\ (e.kind \in Starts => Owner[e.proc] \notin released')
             \/ \E p \in Spawned \cap Created, kind \in Retirements :
                  e = EventOf(kind, p, now) /\ (p \in F \/ Owner[p] \in released')
  <2>1. CASE e \in WithoutStarts(Mine(m), events)
    <3>1. e \in events /\ ~(e.proc \in Mine(m) /\ pstate[e.proc] = "initialized")
      BY <2>1 DEF WithoutStarts
    <3>2. ASSUME e.kind \in Starts PROVE Owner[e.proc] \notin released'
      <4>1. /\ pstate[e.proc] = "initialized" /\ Owner[e.proc] \notin released
            /\ e.proc \in Procs
        BY <3>1, <3>2 DEF IInv, Pending, Reaches
      <4> QED
        BY <1>4, <1>6, <3>1, <4>1
    <3> QED
      BY <3>1, <3>2
  <2>2. CASE e \in {EventOf("retire_released", p, now) : p \in Mine(m) \cap Spawned}
    <3>1. PICK p \in Mine(m) \cap Spawned : e = EventOf("retire_released", p, now)
      BY <2>2
    <3>2. p \in Created /\ Owner[p] \in released'
      BY <1>4 DEF Mine
    <3> QED
      BY <3>1, <3>2
  <2> QED
    BY <2>1, <2>2 DEF AtRelease
<1> QED
  BY <1>3, <1>4, <1>5, <1>7, <1>8, <1>9 DEF Ending

LEMMA ReleaseKeeps ==
  ASSUME IInv, NEW a \in Actors, NEW m \in Models, Release(a, m)
  PROVE  IInv'
<1>1. PICK S : Ending(EndedBy(a, m), S, AtRelease(m))
  BY ReleaseEnds
<1>2. ~Over
  BY ActorsRun DEF Release, Makes
<1>3. UNCHANGED <<phase, now, signalled_at, node, memory, recording, ended, closed>>
  BY DEF Release, flags
<1>4. ended \in BOOLEAN /\ closed \in BOOLEAN /\ (phase = "setup" => ~closed)
  BY DEF IInv, Types, TypeOK, StaticProcs
<1>5. /\ Types' /\ Pending' /\ StartsOnce' /\ Runs' /\ Structs' /\ StaticProcs'
      /\ Allocations'
  BY <1>1, <1>2, <1>3, <1>4, EndingKeeps
<1>6. \A e \in events : e.kind \in {"record_start", "record_stop"} => e \in AtRelease(m)
  BY DEF IInv, Pending, Reaches, AtRelease, WithoutStarts, Mine, Created
<1>7. Window' /\ Shut'
  BY <1>1, <1>3, <1>6, EndingKeepsWindow, EndingKeepsShut
<1> QED
  BY <1>5, <1>7 DEF IInv

LEMMA StopProcessesEnds ==
  ASSUME IInv, NEW e \in events, StopProcesses(e)
  PROVE  Ending(Stopped, Stopped, StartsCancelled \ {e})
<1>1. Stopped \subseteq Running /\ current \notin Stopped
  BY ActorAssumption DEF Stopped, StopProcesses, Takes, Idle, Running
<1>2. \A p \in Running : Owner[p] \notin released
  BY DEF IInv, Runs
<1>3. \A f \in events : f.kind \in Starts => Owner[f.proc] \notin released
  BY DEF IInv, Pending, Reaches
<1> QED
  BY <1>1, <1>2, <1>3 DEF StopProcesses, Ending, StartsCancelled, IInv, Types, TypeOK

LEMMA StopProcessesKeeps ==
  ASSUME IInv, NEW e \in events, StopProcesses(e)
  PROVE  IInv'
<1> DEFINE ev == StartsCancelled \ {e}
<1>1. Ending(Stopped, Stopped, ev)
  BY StopProcessesEnds
<1>2. ~Over /\ phase = "running" /\ e.kind = "stop_processes"
  BY DEF StopProcesses, Takes, Idle, Over
<1>3. UNCHANGED <<phase, now, signalled_at, node, memory, recording, ended>> /\ closed' = TRUE
  BY DEF StopProcesses
<1>4. ended \in BOOLEAN
  BY DEF IInv, Types, TypeOK
<1>5. /\ Types' /\ Pending' /\ StartsOnce' /\ Runs' /\ Structs' /\ StaticProcs'
      /\ Allocations'
  BY <1>1, <1>2, <1>3, <1>4, EndingKeeps
<1>6. Window'
  <2>1. \A f \in events : f.kind \in {"record_start", "record_stop"} => f \in ev
    BY <1>2 DEF StartsCancelled
  <2> QED
    BY <1>1, <1>3, <2>1, EndingKeepsWindow
<1>7. Shut'
  <2>1. Stopped = Running
    BY DEF IInv, Runs, Stopped
  <2>2. Running' = {}
    BY <2>1 DEF StopProcesses, Finished, Running
  <2>3. \A a \in Actors : starting'[a] = <<>>
    <3>1. \A a \in Actors : starting[a] # <<>> => a \in Running
      BY <1>2, ActorAssumption DEF IInv, Allocations, StopProcesses, Takes, Idle
    <3> QED
      BY <2>1, <3>1 DEF StopProcesses, Finished
  <2>4. ASSUME NEW f \in events', f.kind \in Starts PROVE FALSE
    <3>1. /\ now \in Nat /\ Candidates(Stopped) \subseteq Procs /\ Spawned \subseteq Procs
      BY DEF IInv, Types, TypeOK, Candidates, Spawned
    <3>2. f \notin {EventOf("grant", q, now) : q \in Candidates(Stopped)}
      BY <2>4, <3>1, EventTyped
    <3>3. f \in ev
      BY <1>1, <3>2, SweptEvents DEF Ending
    <3>4. f \in events /\ (f.kind # "deferred" \/ Owner[f.proc] \in released)
      BY <3>3 DEF StartsCancelled
    <3>5. f \in events /\ f.at = now /\ Owner[f.proc] \notin released
      BY <2>4, <3>3 DEF StartsCancelled, IInv, Pending, InTime, Reaches
    <3>6. f.kind = "start"
      BY <2>4, <3>4, <3>5
    <3> QED
      BY <3>1, <3>5, <3>6 DEF StopProcesses
  <2> QED
    BY <2>2, <2>3, <2>4 DEF Shut
<1> QED
  BY <1>5, <1>6, <1>7 DEF IInv

-----------------------------------------------------------------------------
(* Calls and callbacks that change no process and no struct *)

(* What depends on neither the events nor, but for who is current, on them. *)
LEMMA OnlyEvents ==
  ASSUME IInv, ~Over,
         UNCHANGED <<phase, now, nodes, pstate, memory, pool, closed>>,
         current' \in {current, NoProc, Hook},
         phase \in {"setup", "ending"} => current' = Hook,
         current = Hook => current' = Hook \/ starting[Hook] = <<>>
  PROVE  Runs' /\ Structs' /\ StaticProcs' /\ Allocations'
<1> USE DEF memory, nodes, pool
<1>1. Running' = Running /\ Created' = Created /\ ~Over'
  BY DEF Running, Created, Over
<1>2. Runs'
  BY <1>1, ActorAssumption DEF IInv, Runs
<1>3. Structs' /\ StaticProcs'
  BY <1>1 DEF IInv, Structs, StaticProcs
<1>4. Allocations'
  BY <1>1 DEF IInv, Allocations
<1> QED
  BY <1>2, <1>3, <1>4

(* An event is added, maybe in the place of others.                         *)
LEMMA AddsKeeps ==
  ASSUME IInv, ~Over, NEW f \in Event, events' \subseteq events \cup {f},
         \A e \in events : e.kind \in Callbacks => e \in events',
         f.at >= now /\ (f.kind \notin Timers \cup Callbacks => f.at = now),
         f.kind \in Signals => signalled_at' >= now,
         Reaches(f) /\ Harmless(f) /\ InWindow(f) /\ f.kind \notin Starts,
         UNCHANGED <<phase, now, nodes, pstate, memory, pool, flags>>,
         signalled_at' \in {signalled_at, now},
         current' \in {current, NoProc, Hook},
         phase \in {"setup", "ending"} => current' = Hook,
         current = Hook => current' = Hook \/ starting[Hook] = <<>>
  PROVE  IInv'
<1> USE DEF memory, nodes, pool, flags
<1>1. Runs' /\ Structs' /\ StaticProcs' /\ Allocations'
  BY OnlyEvents
<1>2. Types'
  BY DEF IInv, Types, TypeOK, Actors
<1>3. Pending'
  <2> SUFFICES ASSUME NEW e \in events'
               PROVE  InTime(e)' /\ Reaches(e)' /\ Harmless(e)' /\ InWindow(e)'
    BY DEF Pending
  <2>1. Reaches(e) /\ Harmless(e) /\ InWindow(e)
    BY DEF IInv, Pending
  <2>2. InTime(e)'
    BY DEF IInv, Pending, InTime, Types, TypeOK
  <2>3. Reaches(e)' /\ Harmless(e)' /\ InWindow(e)'
    BY <2>1 DEF Reaches, Harmless, InWindow
  <2> QED
    BY <2>2, <2>3
<1>4. StartsOnce'
  BY DEF IInv, StartsOnce
<1>5. Window'
  <2>1. /\ EventOf("record_start", NoProc, Warmup).kind \in Callbacks
        /\ EventOf("record_stop", NoProc, Warmup + Duration).kind \in Callbacks
    BY DEF EventOf
  <2> QED
    BY <2>1 DEF IInv, Window
<1>6. Shut'
  BY DEF IInv, Shut, Running
<1> QED
  BY <1>1, <1>2, <1>3, <1>4, <1>5, <1>6 DEF IInv

LEMMA InterruptKeeps ==
  ASSUME IInv, NEW a \in Actors, NEW q \in Procs, NEW kind \in Signals, Interrupt(a, q, kind)
  PROVE  IInv'
<1> PICK e : e = EventOf(kind, q, now)
  OBVIOUS
<1>1. ~Over /\ current = a
  BY ActorsRun DEF Interrupt, Makes, Acts
<1>2. now \in Nat
  BY DEF IInv, Types, TypeOK
<1>3. e \in Event /\ e.kind = kind /\ e.proc = q /\ e.at = now
  BY <1>2, EventTyped
<1>4. /\ signalled_at' = now /\ events' = events \cup {e} /\ q \in Known
      /\ UNCHANGED <<phase, current, now, nodes, pstate, memory, pool, flags>>
  BY DEF Interrupt
<1>5. phase \in {"setup", "ending"} => current = Hook
  BY DEF IInv, Runs
<1>6. /\ e.at >= now /\ (e.kind \notin Timers \cup Callbacks => e.at = now)
      /\ e.kind \in Signals => signalled_at' >= now
      /\ Reaches(e) /\ Harmless(e) /\ InWindow(e) /\ e.kind \notin Starts
  BY <1>2, <1>3, <1>4 DEF Reaches, Harmless, InWindow, Known
<1> QED
  BY <1>1, <1>3, <1>4, <1>5, <1>6, AddsKeeps

LEMMA SetsKeeps ==
  ASSUME IInv, ~Over, NEW p \in Procs \cup {NoProc}, NEW kind \in Timers \cup {"call"},
         NEW d \in Nat, events' \subseteq events \cup {EventOf(kind, p, now + d)},
         \A e \in events : e.kind \in Callbacks => e \in events',
         IF kind = "call" THEN p = NoProc ELSE p \in Running,
         UNCHANGED <<phase, now, signalled_at, nodes, pstate, memory, pool, flags>>,
         current' = current \/ (current' = NoProc /\ current # Hook)
  PROVE  IInv'
<1> PICK e : e = EventOf(kind, p, now + d)
  OBVIOUS
<1>1. now \in Nat
  BY DEF IInv, Types, TypeOK
<1>2. e \in Event /\ e.kind = kind /\ e.proc = p /\ e.at = now + d
  BY <1>1, EventTyped
<1>3. events' \subseteq events \cup {e}
  OBVIOUS
<1>4. phase \in {"setup", "ending"} => current = Hook
  BY DEF IInv, Runs
<1>5. /\ e.at >= now /\ (e.kind \notin Timers \cup Callbacks => e.at = now)
      /\ e.kind \in Signals => signalled_at' >= now
      /\ Reaches(e) /\ InWindow(e) /\ e.kind \notin Starts
  BY <1>1, <1>2, ActorAssumption DEF Reaches, InWindow, Running
<1>6. Harmless(e)
  <2>1. CASE kind = "call"
    BY <1>2, <2>1 DEF Harmless
  <2>2. CASE p \in Running
    BY <1>2, <2>2 DEF Harmless, IInv, Structs, Running, Created
  <2> QED
    BY <2>1, <2>2
<1> QED
  BY <1>2, <1>3, <1>4, <1>5, <1>6, AddsKeeps

(* Events are taken out, but not the window's, or grants are added; and the *)
(* unit changes hands.                                                      *)
LEMMA PoolKeeps ==
  ASSUME IInv, ~Over,
         \A e \in events' : \/ e \in events /\ (e.kind = "grant" => e.proc \in waiting')
                            \/ \E q \in waiting' : e = EventOf("grant", q, now),
         \A e \in events : e.kind \in {"record_start", "record_stop"} => e \in events',
         unit' = {} \/ \E p \in Procs : unit' = {p},
         unit' \cup waiting' \subseteq Running,
         UNCHANGED <<phase, now, signalled_at, nodes, pstate, memory, flags>>,
         current' \in Actors \cup {NoProc},
         current' \in Procs => phase = "running" /\ current' \in Running \ waiting',
         phase \in {"setup", "ending"} => current' = Hook,
         current = Hook => current' = Hook \/ starting[Hook] = <<>>
  PROVE  IInv'
<1> USE DEF memory, nodes, flags
<1>0. Running \subseteq Procs /\ now \in Nat /\ Running' = Running /\ Created' = Created /\ ~Over'
  BY DEF Running, Created, IInv, Types, TypeOK, Over
<1>1. ASSUME NEW q \in waiting', NEW e, e = EventOf("grant", q, now)
      PROVE  e \in Event /\ e.kind = "grant" /\ e.proc = q /\ e.at = now /\ q \in Procs
  BY <1>0, <1>1, EventTyped
<1>2. Types'
  <2>1. events' \subseteq Event
    BY <1>1 DEF IInv, Types, TypeOK
  <2>2. Cardinality(unit') <= 1
    BY OneUnit
  <2> QED
    BY <1>0, <2>1, <2>2 DEF IInv, Types, TypeOK
<1>3. Pending'
  <2> SUFFICES ASSUME NEW e \in events'
               PROVE  InTime(e)' /\ Reaches(e)' /\ Harmless(e)' /\ InWindow(e)'
    BY DEF Pending
  <2>1. CASE e \in events /\ (e.kind = "grant" => e.proc \in waiting')
    BY <2>1 DEF IInv, Pending, InTime, Reaches, Harmless, InWindow
  <2>2. ASSUME NEW q \in waiting', e = EventOf("grant", q, now)
        PROVE  InTime(e)' /\ Reaches(e)' /\ Harmless(e)' /\ InWindow(e)'
    <3>1. e.kind = "grant" /\ e.proc = q /\ e.at = now /\ q \in Procs
      BY <1>1, <2>2
    <3>2. frees[q] = 0 /\ q \notin kept
      BY DEF IInv, Structs, Created, Running
    <3> QED
      BY <1>0, <3>1, <3>2 DEF InTime, Reaches, Harmless, InWindow
  <2> QED
    BY <2>1, <2>2
<1>4. StartsOnce'
  <2>1. \A e \in events' : e.kind \in Starts => e \in events
    BY <1>1
  <2> QED
    BY <2>1 DEF IInv, StartsOnce
<1>5. Runs'
  BY <1>0 DEF IInv, Runs
<1>6. Structs' /\ StaticProcs'
  BY <1>0 DEF IInv, Structs, StaticProcs
<1>7. Allocations'
  BY <1>0 DEF IInv, Allocations
<1>8. Shut'
  <2>1. \A e \in events' : e.kind \in Starts => e \in events
    BY <1>1
  <2> QED
    BY <1>0, <2>1 DEF IInv, Shut
<1>9. Window'
  <2>1. \A kind \in {"record_start", "record_stop"}, t \in Nat :
          EventOf(kind, NoProc, t) \in events => EventOf(kind, NoProc, t) \in events'
    BY EventTyped
  <2> QED
    BY <2>1, WindowTyped DEF IInv, Window
<1> QED
  BY <1>2, <1>3, <1>4, <1>5, <1>6, <1>7, <1>8, <1>9 DEF IInv

(* cpy_model_allocate                                                       *)
LEMMA SpawnKeeps ==
  ASSUME IInv, NEW a \in Actors, NEW m \in Models, Spawn(a, m)
  PROVE  IInv'
<1> USE DEF memory, sched, pool, flags
<1>1. ~Over /\ current = a /\ (a # Hook => a \in Running)
  BY ActorsRun DEF Spawn, Makes, Acts
<1>2. /\ m \in Dynamic /\ node[m] = "absent"
      /\ closed /\ phase = "running" => LateSpawns
      /\ node' = [node EXCEPT ![m] = "allocated"]
      /\ starting' = [starting EXCEPT ![a] = Append(@, m)]
      /\ UNCHANGED <<phase, current, sched, released, pstate, memory, pool, flags>>
  BY DEF Spawn
<1>3. starting \in [Actors -> Seq(Models)] /\ starting[a] \in Seq(Models)
  BY DEF IInv, Types, TypeOK
<1>4. Types'
  BY <1>2, <1>3 DEF IInv, Types, TypeOK
<1>5. Running' = Running /\ Created' = Created /\ ~Over'
  BY <1>1, <1>2 DEF Running, Created, Over
<1>6. Pending' /\ StartsOnce'
  BY <1>2 DEF IInv, Pending, InTime, Reaches, Harmless, InWindow, StartsOnce
<1>7. Runs' /\ Structs' /\ StaticProcs'
  BY <1>1, <1>2, <1>5 DEF IInv, Runs, Structs, StaticProcs
<1>8. Window' /\ Shut'
  BY <1>2, <1>5 DEF IInv, Window, Shut
<1>9. Allocations'
  <2> DEFINE s == Append(starting[a], m)
             n == Len(starting[a])
  <2>1. /\ n \in Nat /\ DOMAIN s = 1 .. n + 1 /\ DOMAIN starting[a] = 1 .. n
        /\ s[n + 1] = m /\ \A i \in 1 .. n : s[i] = starting[a][i]
    BY <1>3
  <2>2. starting' = [b \in Actors |-> IF b = a THEN s ELSE starting[b]]
    BY <1>2, <1>3
  <2> HIDE DEF s, n
  <2>3. \A b \in Actors : \A i \in DOMAIN starting[b] : starting[b][i] # m
    BY <1>2 DEF IInv, Allocations
  <2>4. \A p \in Spawned : node'[Owner[p]] \in {"absent", "allocated"} => p \notin Created'
    BY <1>2, <1>5, OwnerAssumption DEF IInv, Types, TypeOK, Allocations
  <2>5. \A b \in Actors : \A i \in DOMAIN starting'[b] :
          starting'[b][i] \in Dynamic /\ node'[starting'[b][i]] = "allocated"
    <3> SUFFICES ASSUME NEW b \in Actors, NEW i \in DOMAIN starting'[b]
                 PROVE  starting'[b][i] \in Dynamic /\ node'[starting'[b][i]] = "allocated"
      OBVIOUS
    <3>1. (b = a /\ i = n + 1 /\ starting'[b][i] = m)
          \/ (i \in DOMAIN starting[b] /\ starting'[b][i] = starting[b][i])
      BY <2>1, <2>2
    <3>2. node \in [Models -> {"static", "absent", "allocated", "started"}]
      BY DEF IInv, Types, TypeOK
    <3>3. Dynamic \subseteq Models
      BY OwnerAssumption
    <3> QED
      BY <1>2, <3>1, <3>2, <3>3 DEF IInv, Allocations
  <2>6. \A b, c \in Actors : \A i \in DOMAIN starting'[b], j \in DOMAIN starting'[c] :
          starting'[b][i] = starting'[c][j] => b = c /\ i = j
    <3> SUFFICES ASSUME NEW b \in Actors, NEW c \in Actors, NEW i \in DOMAIN starting'[b],
                        NEW j \in DOMAIN starting'[c], starting'[b][i] = starting'[c][j]
                 PROVE  b = c /\ i = j
      OBVIOUS
    <3>1. (b = a /\ i = n + 1 /\ starting'[b][i] = m)
          \/ (i \in DOMAIN starting[b] /\ starting'[b][i] = starting[b][i])
      BY <2>1, <2>2
    <3>2. (c = a /\ j = n + 1 /\ starting'[c][j] = m)
          \/ (j \in DOMAIN starting[c] /\ starting'[c][j] = starting[c][j])
      BY <2>1, <2>2
    <3> QED
      BY <2>3, <3>1, <3>2 DEF IInv, Allocations
  <2>7. phase' # "abandoned" => \A b \in Actors : starting'[b] # <<>> =>
          IF b = Hook THEN current' = Hook ELSE b \in Running'
    BY <1>1, <1>2, <1>5, <2>2 DEF IInv, Allocations
  <2> QED
    BY <2>4, <2>5, <2>6, <2>7 DEF Allocations
<1> QED
  BY <1>4, <1>6, <1>7, <1>8, <1>9 DEF IInv

(* The rest of cpy_model_start                                              *)
LEMMA StartKeeps ==
  ASSUME IInv, NEW a \in Actors, Start(a)
  PROVE  IInv'
<1> DEFINE n == Len(starting[a])
           m == starting[a][n]
           S == NewProcs(m)
<1> USE DEF memory, pool, flags
<1>1. ~Over /\ current = a /\ (a # Hook => a \in Running)
  BY ActorsRun DEF Start, Acts
<1>2. /\ node' = [node EXCEPT ![m] = "started"]
      /\ pstate' = [p \in Procs |-> IF p \in S THEN "initialized" ELSE pstate[p]]
      /\ slot' = slot \cup S /\ registry' = registry \cup S
      /\ events' = events \cup {EventOf("deferred", p, now) : p \in S}
      /\ starting' = [starting EXCEPT ![a] = SubSeq(@, 1, n - 1)]
      /\ UNCHANGED <<phase, current, now, signalled_at, released, kept, kept_at, frees, pool,
                     flags>>
  BY DEF Start
<1>3. starting \in [Actors -> Seq(Models)] /\ starting[a] \in Seq(Models) /\ starting[a] # <<>>
  BY DEF IInv, Types, TypeOK, Start
<1>4. n \in Nat /\ n >= 1 /\ DOMAIN starting[a] = 1 .. n /\ n \in DOMAIN starting[a]
  BY <1>3
<1>5. /\ SubSeq(starting[a], 1, n - 1) \in Seq(Models)
      /\ DOMAIN SubSeq(starting[a], 1, n - 1) = 1 .. n - 1
      /\ \A i \in 1 .. n - 1 : SubSeq(starting[a], 1, n - 1)[i] = starting[a][i]
  BY <1>3, <1>4
<1>6. /\ \A b \in Actors : DOMAIN starting'[b] \subseteq DOMAIN starting[b]
      /\ \A b \in Actors : \A i \in DOMAIN starting'[b] : starting'[b][i] = starting[b][i]
      /\ \A b \in Actors : starting'[b] # <<>> => starting[b] # <<>>
      /\ n \notin DOMAIN starting'[a]
  <2>1. starting' = [b \in Actors |-> IF b = a THEN SubSeq(starting[a], 1, n - 1) ELSE starting[b]]
    BY <1>2, <1>3
  <2> HIDE DEF n
  <2>2. 1 .. n - 1 \subseteq 1 .. n /\ n \notin 1 .. n - 1
    BY <1>4
  <2> QED
    BY <1>3, <1>4, <1>5, <2>1, <2>2
<1>7. /\ m \in Dynamic /\ m \in Models /\ node[m] = "allocated"
      /\ \A p \in S : p \in Procs /\ Owner[p] = m /\ p \in Spawned /\ p \notin Created
      /\ S # {} => m \notin released
  <2>1. m \in Dynamic /\ node[m] = "allocated" /\ m \in Models
    BY <1>4, OwnerAssumption DEF IInv, Allocations
  <2>2. \A p \in S : p \in Procs /\ Owner[p] = m
    BY DEF NewProcs
  <2>3. S # {} => m \notin released
    BY DEF NewProcs
  <2> HIDE DEF m, S
  <2> QED
    BY <2>1, <2>2, <2>3 DEF IInv, Allocations, Spawned
<1>8. \A b \in Actors : \A i \in DOMAIN starting'[b] : starting[b][i] # m
  BY <1>4, <1>6 DEF IInv, Allocations
<1>9. now \in Nat
  BY DEF IInv, Types, TypeOK
<1> HIDE DEF m, S, n
<1>10. /\ Running' = Running /\ Created' = Created \cup S /\ ~Over'
       /\ \A p \in Procs \ S : pstate'[p] = pstate[p]
       /\ \A p \in S : pstate'[p] = "initialized"
  BY <1>1, <1>2, <1>7 DEF Running, Created, Over
<1>11. ASSUME NEW p \in S, NEW e, e = EventOf("deferred", p, now)
       PROVE  e \in Event /\ e.kind = "deferred" /\ e.proc = p /\ e.at = now
  BY <1>7, <1>9, <1>11, EventTyped
<1>12. \A e \in events : e.kind \notin Callbacks => e.proc \in Procs \ S
  <2>1. ASSUME NEW e \in events, e.proc \in S PROVE e.kind \in Callbacks
    <3>1. pstate[e.proc] = "none" /\ e.proc \in Procs
      BY <1>7, <2>1 DEF Created
    <3>2. e.kind \in Wakeups \cup Starts \cup Retirements \cup Callbacks
      BY EventFields DEF IInv, Types, TypeOK
    <3>3. Reaches(e) /\ waiting \subseteq Running
      BY DEF IInv, Pending, Runs
    <3> QED
      BY <3>1, <3>2, <3>3 DEF Reaches, Running
  <2> QED
    BY <2>1 DEF IInv, Pending, Reaches
<1>13. Types'
  <2>1. events' \subseteq Event
    BY <1>2, <1>11 DEF IInv, Types, TypeOK
  <2>2. starting' \in [Actors -> Seq(Models)]
    BY <1>2, <1>3, <1>5
  <2>3. pstate' \in [Procs -> {"none", "initialized", "running", "finished"}]
    BY <1>2 DEF IInv, Types, TypeOK
  <2>4. node' \in [Models -> {"static", "absent", "allocated", "started"}]
    BY <1>2 DEF IInv, Types, TypeOK
  <2>5. slot' \subseteq Procs /\ registry' \subseteq Procs
    BY <1>2, <1>7 DEF IInv, Types, TypeOK
  <2> QED
    BY <1>2, <2>1, <2>2, <2>3, <2>4, <2>5 DEF IInv, Types, TypeOK
<1>14. Pending'
  <2> SUFFICES ASSUME NEW e \in events'
               PROVE  InTime(e)' /\ Reaches(e)' /\ Harmless(e)' /\ InWindow(e)'
    BY DEF Pending
  <2>1. CASE e \in events
    <3>1. InTime(e) /\ Reaches(e) /\ Harmless(e) /\ InWindow(e)
      BY <2>1 DEF IInv, Pending
    <3>2. e.kind \in Callbacks \/ pstate'[e.proc] = pstate[e.proc]
      BY <1>10, <1>12, <2>1
    <3>3. InTime(e)' /\ Harmless(e)' /\ InWindow(e)'
      BY <1>2, <3>1 DEF InTime, Harmless, InWindow
    <3>4. Reaches(e)'
      BY <1>2, <3>1, <3>2 DEF Reaches
    <3> QED
      BY <3>3, <3>4
  <2>2. ASSUME NEW p \in S, e = EventOf("deferred", p, now)
        PROVE  InTime(e)' /\ Reaches(e)' /\ Harmless(e)' /\ InWindow(e)'
    <3>1. e.kind = "deferred" /\ e.proc = p /\ e.at = now
      BY <1>11, <2>2
    <3>2. frees[p] = 0 /\ p \notin kept
      BY <1>7 DEF IInv, Structs
    <3> QED
      BY <1>2, <1>7, <1>9, <1>10, <3>1, <3>2 DEF InTime, Reaches, Harmless, InWindow
  <2> QED
    BY <1>2, <2>1, <2>2
<1>15. StartsOnce'
  <2> SUFFICES ASSUME NEW e \in events', NEW f \in events', e.kind \in Starts,
                      f.kind \in Starts, e.proc = f.proc
               PROVE  e = f
    BY DEF StartsOnce
  <2>1. CASE e \in events /\ f \in events
    BY <2>1 DEF IInv, StartsOnce
  <2>2. CASE e \notin events \/ f \notin events
    <3>1. e.proc \in S /\ f.proc \in S
      BY <1>2, <1>11, <2>2
    <3>2. e \notin events /\ f \notin events
      BY <1>12, <3>1
    <3> QED
      BY <1>2, <1>11, <3>2
  <2> QED
    BY <2>1, <2>2
<1>16. Runs'
  BY <1>2, <1>10 DEF IInv, Runs
<1>17. Structs'
  <2>1. \A p \in Procs \ Created' : p \notin slot' \cup kept' \cup registry' /\ frees'[p] = 0
    BY <1>2, <1>10 DEF IInv, Structs
  <2>2. slot' \cup kept' \subseteq Spawned /\ slot' \cap kept' = {}
    BY <1>2, <1>7 DEF IInv, Structs
  <2>3. ASSUME NEW p \in Created'
        PROVE  /\ p \in registry' <=> frees'[p] = 0
               /\ frees'[p] = IF p \in Spawned \ (slot' \cup kept') THEN 1 ELSE 0
               /\ p \in Spawned \ slot' =>
                    pstate'[p] = "finished"
                    \/ (pstate'[p] = "initialized" /\ Owner[p] \in released')
    <3>1. CASE p \in S
      <4>1. p \in Procs \ Created
        BY <1>7, <3>1
      <4>2. frees[p] = 0
        BY <4>1 DEF IInv, Structs
      <4> QED
        BY <1>2, <3>1, <4>2
    <3>2. CASE p \notin S
      <4>1. p \in Created /\ pstate'[p] = pstate[p]
        BY <1>10, <3>2 DEF Created
      <4> QED
        BY <1>1, <1>2, <3>2, <4>1 DEF IInv, Structs
    <3> QED
      BY <3>1, <3>2
  <2> QED
    BY <1>10, <2>1, <2>2, <2>3 DEF Structs
<1>18. StaticProcs'
  BY <1>2, <1>7, <1>10 DEF IInv, StaticProcs
<1>19. Allocations'
  <2>1. ASSUME NEW p \in Spawned, node'[Owner[p]] \in {"absent", "allocated"}
        PROVE  p \notin Created'
    <3>1. node \in [Models -> {"static", "absent", "allocated", "started"}]
      BY DEF IInv, Types, TypeOK
    <3>2. Owner[p] # m
      BY <1>2, <1>7, <2>1, <3>1
    <3>3. node[Owner[p]] = node'[Owner[p]]
      BY <1>2, <3>1, <3>2, OwnerAssumption DEF Spawned
    <3>4. p \notin Created /\ p \notin S
      BY <1>7, <2>1, <3>2, <3>3 DEF IInv, Allocations
    <3> QED
      BY <1>10, <3>4
  <2>2. \A b \in Actors : \A i \in DOMAIN starting'[b] :
          starting'[b][i] \in Dynamic /\ node'[starting'[b][i]] = "allocated"
    <3> SUFFICES ASSUME NEW b \in Actors, NEW i \in DOMAIN starting'[b]
                 PROVE  starting'[b][i] \in Dynamic /\ node'[starting'[b][i]] = "allocated"
      OBVIOUS
    <3>1. /\ starting[b][i] \in Dynamic /\ node[starting[b][i]] = "allocated"
          /\ starting'[b][i] = starting[b][i] /\ starting[b][i] # m
      BY <1>6, <1>8 DEF IInv, Allocations
    <3> QED
      BY <1>2, <3>1, OwnerAssumption DEF IInv, Types, TypeOK
  <2>3. \A b, c \in Actors : \A i \in DOMAIN starting'[b], j \in DOMAIN starting'[c] :
          starting'[b][i] = starting'[c][j] => b = c /\ i = j
    <3> SUFFICES ASSUME NEW b \in Actors, NEW c \in Actors, NEW i \in DOMAIN starting'[b],
                        NEW j \in DOMAIN starting'[c], starting'[b][i] = starting'[c][j]
                 PROVE  b = c /\ i = j
      OBVIOUS
    <3>1. /\ i \in DOMAIN starting[b] /\ j \in DOMAIN starting[c]
          /\ starting[b][i] = starting[c][j]
      BY <1>6
    <3> QED
      BY <3>1 DEF IInv, Allocations
  <2>4. phase' # "abandoned" => \A b \in Actors : starting'[b] # <<>> =>
          IF b = Hook THEN current' = Hook ELSE b \in Running'
    BY <1>2, <1>6, <1>10 DEF IInv, Allocations
  <2> QED
    BY <2>1, <2>2, <2>3, <2>4 DEF Allocations
<1>20. Window'
  BY <1>2 DEF IInv, Window
<1>21. Shut'
  <2> SUFFICES ASSUME phase = "running", closed, ~LateSpawns PROVE FALSE
    BY <1>2 DEF Shut
  <2> QED
    BY <1>3 DEF IInv, Shut
<1> QED
  BY <1>13, <1>14, <1>15, <1>16, <1>17, <1>18, <1>19, <1>20, <1>21 DEF IInv

(* The unit of a resource                                                   *)
LEMMA AcquireKeeps ==
  ASSUME IInv, NEW p \in Actors, Acquire(p)
  PROVE  IInv'
<1>1. ~Over /\ current = p /\ p \in Running \ waiting /\ p \in Procs /\ phase = "running"
  BY ActorsRun DEF Acquire, Makes, Acts, Actors
<1>2. UNCHANGED <<phase, events, now, signalled_at, nodes, pstate, memory, flags>>
  BY DEF Acquire, sched
<1>3. unit \cup waiting \subseteq Running /\ (unit = {} \/ \E q \in Procs : unit = {q})
  BY DEF IInv, Runs, Types
<1>4. \A e \in events : e.kind = "grant" => e.proc \in waiting
  BY DEF IInv, Pending, Reaches
<1>5. CASE unit = {}
  <2>1. unit' = {p} /\ waiting' = waiting /\ current' = current
    BY <1>5 DEF Acquire
  <2> QED
    BY <1>1, <1>2, <1>3, <1>4, <2>1, ActorAssumption, PoolKeeps DEF Actors
<1>6. CASE unit # {}
  <2>1. unit' = unit /\ waiting' = waiting \cup {p} /\ current' = NoProc
    BY <1>6 DEF Acquire
  <2> QED
    BY <1>1, <1>2, <1>3, <1>4, <2>1, ActorAssumption, PoolKeeps DEF Actors
<1> QED
  BY <1>5, <1>6

LEMMA GiveBackKeeps ==
  ASSUME IInv, NEW p \in Actors, GiveBack(p)
  PROVE  IInv'
<1>1. ~Over /\ current = p /\ p \in Running \ waiting /\ p \in Procs /\ phase = "running"
  <2>1. p \in Running
    BY DEF GiveBack, IInv, Runs
  <2> QED
    BY <2>1, ActorsRun, ActorAssumption DEF GiveBack, Acts, Running
<1>2. /\ unit' = unit \ {p} /\ events' \in PassedOn(events, {p}) /\ waiting' = waiting
      /\ UNCHANGED <<phase, current, now, signalled_at, nodes, pstate, memory, flags>>
  BY DEF GiveBack
<1>3. unit \cup waiting \subseteq Running /\ (unit = {} \/ \E q \in Procs : unit = {q})
  BY DEF IInv, Runs, Types
<1>4. \A e \in events : e.kind = "grant" => e.proc \in waiting
  BY DEF IInv, Pending, Reaches
<1>5. /\ events \subseteq events'
      /\ \A e \in events' : e \in events \/ \E q \in Candidates({p}) : e = EventOf("grant", q, now)
  BY <1>2, Passed
<1>6. \A e \in events' : \/ e \in events /\ (e.kind = "grant" => e.proc \in waiting')
                         \/ \E q \in waiting' : e = EventOf("grant", q, now)
  BY <1>2, <1>4, <1>5 DEF Candidates
<1>7. unit' = {} \/ \E q \in Procs : unit' = {q}
  BY <1>2, <1>3
<1> QED
  BY <1>1, <1>2, <1>3, <1>5, <1>6, <1>7, PoolKeeps DEF Actors

(* cpy_trial_fail                                                           *)
LEMMA FailKeeps ==
  ASSUME IInv, NEW a \in Actors, Fail(a)
  PROVE  IInv'
<1> USE DEF pool, flags, nodes
<1>1. ~Over
  BY ActorsRun DEF Fail, Makes
<1>2. /\ phase' = "abandoned" /\ current' = NoProc
      /\ frees' = [p \in Procs |-> frees[p] + (IF p \in registry THEN 1 ELSE 0)]
      /\ registry' = {} /\ slot' = {} /\ kept' = {} /\ events' = {}
      /\ UNCHANGED <<now, signalled_at, nodes, pstate, kept_at, pool, flags>>
  BY DEF Fail
<1>3. Types'
  BY <1>2 DEF IInv, Types, TypeOK
<1>4. Pending' /\ StartsOnce'
  BY <1>2 DEF Pending, StartsOnce
<1>5. Running' = Running /\ Created' = Created /\ Created \subseteq Procs
  BY <1>2 DEF Running, Created
<1>6. Runs'
  BY <1>2, <1>5, ActorAssumption DEF IInv, Runs
<1>7. Structs'
  <2>1. \A p \in Procs : frees'[p] = IF p \in Created THEN 1 ELSE 0
    BY <1>1, <1>2 DEF IInv, Structs
  <2>2. Over'
    BY <1>2 DEF Over
  <2> QED
    BY <1>2, <1>5, <2>1, <2>2 DEF Structs
<1>8. StaticProcs' /\ Window' /\ Shut'
  BY <1>2 DEF StaticProcs, Window, Shut
<1>9. Allocations'
  BY <1>2, <1>5 DEF IInv, Allocations
<1> QED
  BY <1>3, <1>4, <1>6, <1>7, <1>8, <1>9 DEF IInv

LEMMA CallsKeep ==
  ASSUME IInv, NEW a \in Actors, Calls(a)
  PROVE  IInv'
<1>1. Acts(a) => ~Over /\ current = a /\ (a # Hook => a \in Running /\ a \in Procs)
  BY ActorsRun DEF Acts, Actors
<1>2. phase \in {"setup", "ending"} => current = Hook
  BY DEF IInv, Runs
<1>3. CASE \E m \in Models : Spawn(a, m) \/ Release(a, m)
  BY <1>3, SpawnKeeps, ReleaseKeeps
<1>4. CASE Start(a) \/ Finish(a) \/ EndTrial(a) \/ Fail(a)
  BY <1>4, StartKeeps, FinishKeeps, EndTrialKeeps, FailKeeps
<1>5. CASE \E q \in Procs, kind \in {"interrupt", "resume"} : Interrupt(a, q, kind)
  BY <1>5, InterruptKeeps
<1>6. ASSUME NEW d \in Delays, TimerSet(a, d) \/ Hold(a, d) \/ Schedule(a, d)
      PROVE  IInv'
  <2>1. d \in Nat
    BY WindowTyped
  <2>2. CASE TimerSet(a, d)
    <3>1. /\ events' \subseteq events \cup {EventOf("timer", a, now + d)}
          /\ \A e \in events : e.kind \in Callbacks => e \in events'
      BY <2>2 DEF TimerSet, Of
    <3>2. /\ current' = current /\ a \in Running /\ a \in Procs /\ ~Over
          /\ UNCHANGED <<phase, now, signalled_at, nodes, pstate, memory, pool, flags>>
      BY <1>1, <2>2 DEF TimerSet, Makes
    <3> QED
      BY <2>1, <3>1, <3>2, SetsKeeps
  <2>3. CASE Hold(a, d)
    <3>1. /\ events' \subseteq events \cup {EventOf("hold", a, now + d)} /\ events \subseteq events'
          /\ current' = NoProc /\ current # Hook
          /\ a \in Running /\ a \in Procs /\ ~Over
          /\ UNCHANGED <<phase, now, signalled_at, nodes, pstate, memory, pool, flags>>
      BY <1>1, <2>3 DEF Hold, Sets, Makes
    <3> QED
      BY <2>1, <3>1, SetsKeeps
  <2>4. CASE Schedule(a, d)
    <3>1. /\ events' \subseteq events \cup {EventOf("call", NoProc, now + d)}
          /\ events \subseteq events' /\ current' = current /\ ~Over
          /\ UNCHANGED <<phase, now, signalled_at, nodes, pstate, memory, pool, flags>>
      BY <1>1, <2>4 DEF Schedule, Sets, Makes
    <3> QED
      BY <2>1, <3>1, SetsKeeps
  <2> QED
    BY <1>6, <2>2, <2>3, <2>4
<1>7. CASE \/ \E e \in events : Unschedule(a, e)
           \/ Suspend(a)
  <2>1. /\ ~Over /\ current = a
        /\ current' = current \/ (current' = NoProc /\ current # Hook /\ phase = "running")
        /\ UNCHANGED <<phase, now, signalled_at, nodes, pstate, memory, pool, flags>>
        /\ events' = events \/ \E e \in events : e.kind = "call" /\ events' = events \ {e}
    BY <1>1, <1>2, <1>7, ActorsRun DEF Unschedule, Suspend, Makes, sched
  <2>2. /\ \A e \in events' : e \in events /\ (e.kind = "grant" => e.proc \in waiting)
        /\ \A e \in events : e.kind \in {"record_start", "record_stop"} => e \in events'
    BY <2>1 DEF IInv, Pending, Reaches
  <2>3. /\ unit' = unit /\ waiting' = waiting
        /\ UNCHANGED <<phase, now, signalled_at, nodes, pstate, memory, flags>>
    BY <2>1 DEF pool
  <2>4. unit \cup waiting \subseteq Running /\ (unit = {} \/ \E q \in Procs : unit = {q})
    BY DEF IInv, Runs, Types
  <2>5. /\ current' \in Actors \cup {NoProc}
        /\ current' \in Procs => phase = "running" /\ current' \in Running \ waiting'
        /\ phase \in {"setup", "ending"} => current' = Hook
        /\ current = Hook => current' = Hook
    BY <1>2, <2>1, <2>3, ActorAssumption DEF IInv, Runs
  <2> QED
    BY <2>1, <2>2, <2>3, <2>4, <2>5, PoolKeeps
<1>8. CASE Acquire(a) \/ GiveBack(a)
  BY <1>8, AcquireKeeps, GiveBackKeeps
<1> QED
  BY <1>3, <1>4, <1>5, <1>6, <1>7, <1>8 DEF Calls

-----------------------------------------------------------------------------
(* The event loop *)

LEMMA TickKeeps ==
  ASSUME IInv, Tick
  PROVE  IInv'
<1> USE DEF memory, nodes, pool, flags
<1>1. /\ ~Over /\ phase = "running" /\ current = NoProc
      /\ \A e \in events : e.at > now
      /\ now' \in {e.at : e \in events} /\ \A e \in events : e.at >= now'
      /\ UNCHANGED <<phase, current, events, signalled_at, nodes, pstate, memory, pool,
                     flags>>
  BY DEF Tick, Idle, Over
<1>2. now \in Nat /\ now' \in Nat /\ now' > now /\ \A e \in events : e \in Event /\ e.at \in Nat
  BY <1>1, EventFields DEF IInv, Types, TypeOK
<1>3. \A e \in events : e.kind \in Timers \cup Callbacks
  BY <1>1, <1>2 DEF IInv, Pending, InTime
<1>4. Running' = Running /\ Created' = Created /\ ~Over'
  BY <1>1 DEF Running, Created, Over
<1>5. Types'
  BY <1>1, <1>2 DEF IInv, Types, TypeOK
<1>6. Pending'
  <2> SUFFICES ASSUME NEW e \in events
               PROVE  InTime(e)' /\ Reaches(e)' /\ Harmless(e)' /\ InWindow(e)'
    BY <1>1 DEF Pending
  <2>1. InTime(e) /\ Reaches(e) /\ Harmless(e) /\ InWindow(e) /\ e.kind \in Timers \cup Callbacks
    BY <1>3 DEF IInv, Pending
  <2>2. e.kind \in Timers => e.proc \notin kept /\ frees[e.proc] = 0
    BY <1>1, <2>1 DEF Reaches, IInv, Structs, Created
  <2> QED
    BY <1>1, <2>1, <2>2 DEF InTime, Reaches, Harmless, InWindow
<1>7. StartsOnce' /\ Runs' /\ Structs' /\ StaticProcs' /\ Allocations' /\ Shut'
  BY <1>1, <1>4 DEF IInv, StartsOnce, Runs, Structs, StaticProcs, Allocations, Shut
<1>8. Window'
  BY <1>1, <1>2, WindowTyped DEF IInv, Window
<1> QED
  BY <1>5, <1>6, <1>7, <1>8 DEF IInv

LEMMA RunDeferredKeeps ==
  ASSUME IInv, NEW e \in events, RunDeferred(e)
  PROVE  IInv'
<1> USE DEF memory, nodes, pool, flags
<1> PICK f : f = EventOf("start", e.proc, now)
  OBVIOUS
<1>1. /\ ~Over /\ phase = "running" /\ e.kind = "deferred"
      /\ events' = (events \ {e}) \cup {f}
      /\ UNCHANGED <<phase, current, now, signalled_at, nodes, pstate, memory, pool, flags>>
  BY DEF RunDeferred, Takes, Idle, Over
<1>2. /\ InTime(e) /\ Reaches(e) /\ Harmless(e) /\ e.proc \in Procs /\ now \in Nat
      /\ f \in Event /\ f.kind = "start" /\ f.proc = e.proc /\ f.at = now
  <2>1. InTime(e) /\ Reaches(e) /\ Harmless(e) /\ now \in Nat
    BY DEF IInv, Pending, Types, TypeOK
  <2>2. e.proc \in Procs
    BY <1>1, <2>1 DEF Reaches
  <2> QED
    BY <2>1, <2>2, EventTyped
<1>3. Runs' /\ Structs' /\ StaticProcs' /\ Allocations'
  BY <1>1, OnlyEvents
<1>4. Types'
  BY <1>1, <1>2 DEF IInv, Types, TypeOK
<1>5. Pending'
  <2> SUFFICES ASSUME NEW g \in events'
               PROVE  InTime(g)' /\ Reaches(g)' /\ Harmless(g)' /\ InWindow(g)'
    BY DEF Pending
  <2>1. CASE g \in events
    BY <1>1, <2>1 DEF IInv, Pending, InTime, Reaches, Harmless, InWindow
  <2>2. CASE g = f
    BY <1>1, <1>2, <2>2 DEF InTime, Reaches, Harmless, InWindow
  <2> QED
    BY <1>1, <2>1, <2>2
<1>6. StartsOnce'
  BY <1>1, <1>2 DEF IInv, StartsOnce
<1>7. Shut'
  BY <1>1, <1>3 DEF IInv, Shut, Running
<1>8. Window'
  <2>1. \A kind \in {"record_start", "record_stop"}, t \in Nat :
          EventOf(kind, NoProc, t) \in events => EventOf(kind, NoProc, t) \in events'
    BY <1>1, EventTyped
  <2> QED
    BY <1>1, <2>1, WindowTyped DEF IInv, Window
<1> QED
  BY <1>3, <1>4, <1>5, <1>6, <1>7, <1>8 DEF IInv

LEMMA RunStartKeeps ==
  ASSUME IInv, NEW e \in events, RunStart(e)
  PROVE  IInv'
<1> DEFINE p == e.proc
<1> USE DEF memory, nodes, pool, flags
<1>1. /\ ~Over /\ phase = "running" /\ current = NoProc /\ e.kind = "start"
      /\ events' = events \ {e} /\ current' = p
      /\ pstate' = [pstate EXCEPT ![p] = "running"]
      /\ UNCHANGED <<phase, now, signalled_at, nodes, memory, pool, flags>>
  BY DEF RunStart, Takes, Idle, Over
<1>2. /\ p \in Procs /\ pstate[p] = "initialized" /\ Owner[p] \notin released
      /\ pstate \in [Procs -> {"none", "initialized", "running", "finished"}]
  BY <1>1 DEF IInv, Pending, Reaches, Types, TypeOK
<1> HIDE DEF p
<1>3. /\ Running' = Running \cup {p} /\ Created' = Created /\ ~Over'
      /\ p \notin Running /\ p \in Created
      /\ \A q \in Procs \ {p} : pstate'[q] = pstate[q]
      /\ pstate'[p] = "running"
  BY <1>1, <1>2 DEF Running, Created, Over
<1>4. p \notin waiting
  BY <1>3 DEF IInv, Runs
<1>5. \A f \in events' : f \in events /\ (f.kind \in Starts => f.proc # p)
  BY <1>1 DEF p, IInv, StartsOnce
<1>6. Types'
  BY <1>1, <1>2 DEF IInv, Types, TypeOK, Actors
<1>7. Pending'
  <2> SUFFICES ASSUME NEW f \in events'
               PROVE  InTime(f)' /\ Reaches(f)' /\ Harmless(f)' /\ InWindow(f)'
    BY DEF Pending
  <2>1. InTime(f) /\ Reaches(f) /\ Harmless(f) /\ InWindow(f)
    BY <1>5 DEF IInv, Pending
  <2>2. InTime(f)' /\ Harmless(f)' /\ InWindow(f)'
    BY <1>1, <2>1 DEF InTime, Harmless, InWindow
  <2>3. Reaches(f)'
    <3>1. CASE f.proc = p
      BY <1>1, <1>2, <1>3, <1>4, <1>5, <2>1, <3>1 DEF Reaches
    <3>2. CASE f.proc # p
      <4>1. f.proc \in Procs => pstate'[f.proc] = pstate[f.proc]
        BY <1>3, <3>2
      <4> QED
        BY <1>1, <2>1, <4>1 DEF Reaches
    <3> QED
      BY <3>1, <3>2
  <2> QED
    BY <2>2, <2>3
<1>8. StartsOnce'
  BY <1>5 DEF IInv, StartsOnce
<1>9. Runs'
  BY <1>1, <1>2, <1>3, <1>4 DEF IInv, Runs
<1>10. Structs'
  <2>1. p \in Spawned => p \in slot
    BY <1>1, <1>2, <1>3 DEF IInv, Structs
  <2>2. \A q \in Created : q = p \/ pstate'[q] = pstate[q]
    BY <1>3 DEF Created
  <2> QED
    BY <1>1, <1>3, <2>1, <2>2 DEF IInv, Structs
<1>11. StaticProcs'
  BY <1>1, <1>3 DEF IInv, StaticProcs
<1>12. Allocations'
  BY <1>1, <1>3, ActorAssumption DEF IInv, Allocations
<1>13. Window'
  <2>1. \A kind \in {"record_start", "record_stop"}, t \in Nat :
          EventOf(kind, NoProc, t) \in events => EventOf(kind, NoProc, t) \in events'
    BY <1>1, EventTyped
  <2> QED
    BY <1>1, <2>1, WindowTyped DEF IInv, Window
<1>14. Shut'
  BY <1>1 DEF IInv, Shut
<1> QED
  BY <1>6, <1>7, <1>8, <1>9, <1>10, <1>11, <1>12, <1>13, <1>14 DEF IInv

(* A timer, interrupt or resume takes effect.                               *)
LEMMA RunWakeupKeeps ==
  ASSUME IInv, NEW e \in events, RunWakeup(e)
  PROVE  IInv'
<1> DEFINE p == e.proc
<1>1. /\ ~Over /\ phase = "running" /\ current = NoProc
      /\ e.kind \in {"hold", "timer", "interrupt", "resume"}
      /\ UNCHANGED <<phase, now, signalled_at, nodes, pstate, memory, unit, flags>>
  BY DEF RunWakeup, Takes, Idle, Over
<1>2. \A f \in events : f.kind = "grant" => f.proc \in waiting
  BY DEF IInv, Pending, Reaches
<1>3. unit \cup waiting \subseteq Running /\ (unit = {} \/ \E q \in Procs : unit = {q})
  BY DEF IInv, Runs, Types
<1>4. NoProc \notin Procs /\ NoProc # Hook /\ Running \subseteq Procs
  BY ActorAssumption DEF Running
<1>5. CASE p \notin Running
  <2>1. events' = events \ {e} /\ UNCHANGED <<current, waiting>>
    BY <1>5 DEF RunWakeup
  <2> QED
    BY <1>1, <1>2, <1>3, <1>4, <2>1, PoolKeeps
<1>6. CASE p \in Running
  <2>1. PICK cut \in Cut(e) :
          /\ events' \in PassedOn(events \ (Of({p}, cut \cup {"grant"}) \cup {e}), {p} \ unit)
          /\ current' = p /\ waiting' = waiting \ {p}
    BY <1>6 DEF RunWakeup
  <2> PICK ev : ev = events \ (Of({p}, cut \cup {"grant"}) \cup {e})
    OBVIOUS
  <2>2. cut \subseteq Timers
    BY DEF Cut
  <2>3. \A f \in ev : f \in events /\ (f.kind = "grant" => f.proc \in waiting \ {p})
    BY <1>2 DEF Of
  <2>4. \A f \in events : f.kind \in {"record_start", "record_stop"} => f \in ev
    BY <1>1, <2>2 DEF Of
  <2>5. /\ ev \subseteq events'
        /\ \A f \in events' : \/ f \in ev
                              \/ \E q \in waiting \ {p} : f = EventOf("grant", q, now)
    <3>1. CASE p \in unit
      BY <2>1, <3>1 DEF PassedOn, Returned, Of
    <3>2. CASE p \notin unit
      <4>1. {p} \ unit = {p} /\ Candidates({p}) \subseteq waiting \ {p}
        BY <3>2 DEF Candidates
      <4>2. events' \in PassedOn(ev, {p})
        BY <2>1, <4>1
      <4>3. /\ ev \subseteq events'
            /\ \A f \in events' :
                 f \in ev \/ \E q \in Candidates({p}) : f = EventOf("grant", q, now)
        BY <4>2, Passed, Zenon
      <4> QED
        BY <4>1, <4>3
    <3> QED
      BY <3>1, <3>2
  <2>6. p \in Actors /\ p \in Running \ waiting' /\ current # Hook
    BY <1>1, <1>4, <1>6, <2>1 DEF Actors
  <2> QED
    BY <1>1, <1>3, <2>1, <2>3, <2>4, <2>5, <2>6, PoolKeeps
<1> QED
  BY <1>5, <1>6

(* A granted process takes the unit, or waits on.                           *)
LEMMA RunGrantKeeps ==
  ASSUME IInv, NEW e \in events, RunGrant(e)
  PROVE  IInv'
<1> DEFINE p == e.proc
<1>1. /\ ~Over /\ phase = "running" /\ current = NoProc /\ e.kind = "grant" /\ e.at = now
      /\ events' = events \ {e}
      /\ UNCHANGED <<phase, now, signalled_at, nodes, pstate, memory, flags>>
  BY DEF RunGrant, Takes, Idle, Over
<1>2. /\ \A f \in events : f.kind = "grant" => f.proc \in waiting /\ f.at = now
      /\ events \subseteq Event
  BY DEF IInv, Pending, Reaches, InTime, Types, TypeOK
<1>3. unit \cup waiting \subseteq Running /\ (unit = {} \/ \E q \in Procs : unit = {q})
  BY DEF IInv, Runs, Types
<1>4. NoProc \notin Procs /\ NoProc # Hook /\ Running \subseteq Procs
  BY ActorAssumption DEF Running
<1>5. CASE Grantable(p)
  <2>1. unit' = {p} /\ waiting' = waiting \ {p} /\ current' = p /\ p \in waiting
    BY <1>5 DEF RunGrant, Grantable
  <2>2. \A f \in events' : f \in events /\ (f.kind = "grant" => f.proc \in waiting')
    BY <1>1, <1>2, <2>1, SameEvent
  <2>3. p \in Actors /\ p \in Procs /\ p \in Running \ waiting' /\ current # Hook
    BY <1>1, <1>3, <1>4, <2>1 DEF Actors
  <2> QED
    BY <1>1, <1>3, <2>1, <2>2, <2>3, PoolKeeps
<1>6. CASE ~Grantable(p)
  <2>1. UNCHANGED <<unit, waiting, current>>
    BY <1>6 DEF RunGrant, pool
  <2> QED
    BY <1>1, <1>2, <1>3, <1>4, <2>1, PoolKeeps
<1> QED
  BY <1>5, <1>6

(* A scheduled function starts, and returns.                                *)
LEMMA RunCallKeeps ==
  ASSUME IInv, NEW e \in events, RunCall(e)
  PROVE  IInv'
<1>1. /\ ~Over /\ phase = "running" /\ current = NoProc /\ e.kind = "call"
      /\ events' = events \ {e} /\ current' = Hook
      /\ UNCHANGED <<phase, now, signalled_at, nodes, pstate, memory, unit, waiting, flags>>
  BY DEF RunCall, Takes, Idle, Over, pool
<1>2. \A f \in events : f.kind = "grant" => f.proc \in waiting
  BY DEF IInv, Pending, Reaches
<1>3. unit \cup waiting \subseteq Running /\ (unit = {} \/ \E q \in Procs : unit = {q})
  BY DEF IInv, Runs, Types
<1>4. Hook \in Actors /\ Hook \notin Procs
  BY ActorAssumption DEF Actors
<1> QED
  BY <1>1, <1>2, <1>3, <1>4, PoolKeeps

LEMMA CallReturnsKeeps ==
  ASSUME IInv, CallReturns
  PROVE  IInv'
<1>1. /\ ~Over /\ phase = "running" /\ starting[Hook] = <<>> /\ current' = NoProc
      /\ UNCHANGED <<phase, now, events, signalled_at, nodes, pstate, memory, unit, waiting, flags>>
  BY DEF CallReturns, Over, pool, sched
<1>2. \A f \in events : f.kind = "grant" => f.proc \in waiting
  BY DEF IInv, Pending, Reaches
<1>3. unit \cup waiting \subseteq Running /\ (unit = {} \/ \E q \in Procs : unit = {q})
  BY DEF IInv, Runs, Types
<1> QED
  BY <1>1, <1>2, <1>3, ActorAssumption, PoolKeeps

(* The one who retires is kept with the present time, those of earlier      *)
(* instants are freed: by Harmless nothing that is pending reaches them.    *)
LEMMA RetireKeeps ==
  ASSUME IInv, NEW e \in events, Retire(e)
  PROVE  IInv'
<1> DEFINE p == e.proc
           gone == FreedBefore(now)
<1>1. /\ ~Over /\ phase = "running" /\ current = NoProc /\ e.kind \in Retirements
      /\ events' = events \ {e}
      /\ UNCHANGED <<phase, current, now, signalled_at, nodes, pstate, unit, waiting, flags>>
  BY DEF Retire, Takes, Idle, Over, pool
<1>2. CASE ~(p \in slot /\ pstate[p] # "running")
  <2>1. UNCHANGED memory
    BY <1>2 DEF Retire
  <2>2. \A f \in events : f.kind = "grant" => f.proc \in waiting
    BY DEF IInv, Pending, Reaches
  <2>3. unit \cup waiting \subseteq Running /\ (unit = {} \/ \E q \in Procs : unit = {q})
    BY DEF IInv, Runs, Types
  <2> QED
    BY <1>1, <2>1, <2>2, <2>3, ActorAssumption, PoolKeeps
<1>3. CASE p \in slot /\ pstate[p] # "running"
  <2>1. /\ frees' = [q \in Procs |-> frees[q] + (IF q \in gone THEN 1 ELSE 0)]
        /\ registry' = registry \ gone
        /\ kept' = (kept \ gone) \cup {p}
        /\ kept_at' = [kept_at EXCEPT ![p] = now]
        /\ slot' = slot \ {p}
    BY <1>3 DEF Retire, Unregistered
  <2>2. /\ gone \subseteq kept /\ \A q \in kept : q \in gone <=> kept_at[q] < now
        /\ p \in slot /\ pstate[p] # "running" /\ p \in Procs /\ now \in Nat
        /\ kept \subseteq Procs /\ slot \subseteq Procs
        /\ kept_at \in [Procs -> Nat] /\ frees \in [Procs -> Nat]
    BY <1>3 DEF FreedBefore, IInv, Types, TypeOK
  <2>3. /\ p \in Spawned /\ p \in Created
        /\ pstate[p] = "finished" \/ (pstate[p] = "initialized" /\ Owner[p] \in released)
    <3>1. Reaches(e) /\ pstate[p] \in {"none", "initialized", "running", "finished"}
      BY <2>2 DEF IInv, Pending, Types, TypeOK
    <3> QED
      BY <1>1, <2>2, <3>1 DEF Reaches, Created
  <2>4. Running' = Running /\ Created' = Created /\ ~Over'
    BY <1>1 DEF Running, Created, Over
  <2> HIDE DEF p, gone
  <2>5. \A q \in Procs : /\ frees'[q] = IF q \in gone THEN frees[q] + 1 ELSE frees[q]
                         /\ kept_at'[q] = IF q = p THEN now ELSE kept_at[q]
    BY <2>1, <2>2
  <2>6. Types'
    <3>1. frees' \in [Procs -> Nat] /\ kept_at' \in [Procs -> Nat]
      BY <2>1, <2>2
    <3> QED
      BY <1>1, <2>1, <2>2, <3>1 DEF IInv, Types, TypeOK, nodes, flags
  <2>7. Pending'
    <3> SUFFICES ASSUME NEW f \in events'
                 PROVE  InTime(f)' /\ Reaches(f)' /\ Harmless(f)' /\ InWindow(f)'
      BY DEF Pending
    <3>1. InTime(f) /\ Reaches(f) /\ Harmless(f) /\ InWindow(f)
      BY <1>1 DEF IInv, Pending
    <3>2. InTime(f)' /\ Reaches(f)' /\ InWindow(f)'
      BY <1>1, <3>1 DEF InTime, Reaches, InWindow, nodes
    <3>3. Harmless(f)'
      <4> SUFFICES ASSUME ~LateHandles, f.kind \in Starts \cup Wakeups
                   PROVE  frees'[f.proc] = 0 /\ ~(f.proc \in kept' /\ kept_at'[f.proc] < now)
        BY <1>1 DEF Harmless
      <4>1. /\ f.proc \in Procs /\ frees[f.proc] = 0
            /\ ~(f.proc \in kept /\ kept_at[f.proc] < now)
        BY <3>1 DEF Reaches, Harmless
      <4> QED
        BY <2>1, <2>2, <2>5, <4>1
    <3> QED
      BY <3>2, <3>3
  <2>8. StartsOnce'
    BY <1>1 DEF IInv, StartsOnce
  <2>9. Runs'
    BY <1>1, <2>4 DEF IInv, Runs, nodes
  <2>10. Structs'
    <3>1. /\ \A q \in Procs \ Created : q \notin slot' \cup kept' \cup registry' /\ frees'[q] = 0
      BY <2>1, <2>2, <2>3, <2>5 DEF IInv, Structs
    <3>2. slot' \cup kept' \subseteq Spawned /\ slot' \cap kept' = {}
      BY <2>1, <2>2, <2>3 DEF IInv, Structs
    <3>3. ASSUME NEW q \in Created
          PROVE  /\ q \in registry' <=> frees'[q] = 0
                 /\ frees'[q] = IF q \in Spawned \ (slot' \cup kept') THEN 1 ELSE 0
                 /\ q \in Spawned \ slot' =>
                      pstate[q] = "finished" \/ (pstate[q] = "initialized" /\ Owner[q] \in released)
      <4>1. /\ q \in registry <=> frees[q] = 0
            /\ frees[q] = IF q \in Spawned \ (slot \cup kept) THEN 1 ELSE 0
            /\ q \in Spawned \ slot =>
                 pstate[q] = "finished" \/ (pstate[q] = "initialized" /\ Owner[q] \in released)
            /\ q \in Procs /\ slot \cap kept = {} /\ kept \subseteq Spawned
        BY <1>1 DEF IInv, Structs, Created
      <4>2. CASE q \in gone
        BY <2>1, <2>2, <2>3, <2>5, <4>1, <4>2
      <4>3. CASE q \notin gone
        BY <2>1, <2>2, <2>3, <2>5, <4>1, <4>3
      <4> QED
        BY <4>2, <4>3
    <3> QED
      BY <1>1, <2>4, <3>1, <3>2, <3>3 DEF Structs, nodes
  <2>11. StaticProcs' /\ Allocations'
    BY <1>1, <2>4 DEF IInv, StaticProcs, Allocations, nodes, flags
  <2>12. Window'
    <3>1. \A kind \in {"record_start", "record_stop"}, t \in Nat :
            EventOf(kind, NoProc, t) \in events => EventOf(kind, NoProc, t) \in events'
      BY <1>1, EventTyped
    <3> QED
      BY <1>1, <3>1, WindowTyped DEF IInv, Window, flags
  <2>13. Shut'
    BY <1>1, <2>4 DEF IInv, Shut, nodes, flags
  <2> QED
    BY <2>6, <2>7, <2>8, <2>9, <2>10, <2>11, <2>12, <2>13 DEF IInv
<1> QED
  BY <1>2, <1>3

(* The window's events, and the end                                         *)

(* Recording starts when it has not begun, as its end is not over.          *)
LEMMA RecordKeeps ==
  ASSUME IInv, NEW e \in events, RecordStart(e) \/ RecordStop(e)
  PROVE  IInv'
<1>1. /\ ~Over /\ phase = "running" /\ current = NoProc /\ e.at = now
      /\ e.kind \in {"record_start", "record_stop"}
      /\ events' = events \ {e} /\ recording' \in {recording, "on", "off"}
      /\ UNCHANGED <<phase, current, now, signalled_at, nodes, pstate, memory, pool, ended,
                     closed>>
  BY DEF RecordStart, RecordStop, Takes, Idle, Over
<1>2. Runs' /\ Structs' /\ StaticProcs' /\ Allocations'
  BY <1>1, OnlyEvents, ActorAssumption
<1>3. Types'
  BY <1>1 DEF IInv, Types, TypeOK, nodes, memory, pool
<1>4. Pending'
  BY <1>1 DEF IInv, Pending, InTime, Reaches, Harmless, InWindow, nodes, memory, pool
<1>5. StartsOnce'
  BY <1>1 DEF IInv, StartsOnce
<1>6. Shut'
  BY <1>1 DEF IInv, Shut, Running, nodes
<1>7. Window'
  <2> SUFFICES ASSUME Finite, ~ended
               PROVE  /\ recording' = "no" =>
                           /\ EventOf("record_start", NoProc, Warmup) \in events'
                           /\ EventOf("record_stop", NoProc, Warmup + Duration) \in events'
                      /\ recording' = "on" =>
                           /\ EventOf("record_stop", NoProc, Warmup + Duration) \in events'
                           /\ now >= Warmup
                      /\ recording' = "off" => now >= Warmup + Duration
    BY <1>1, <1>2 DEF Window
  <2>1. /\ recording = "no" =>
             /\ EventOf("record_start", NoProc, Warmup) \in events
             /\ EventOf("record_stop", NoProc, Warmup + Duration) \in events
        /\ recording = "on" =>
             /\ EventOf("record_stop", NoProc, Warmup + Duration) \in events
             /\ now >= Warmup
        /\ recording = "off" => now >= Warmup + Duration
        /\ InWindow(e) /\ now \in Nat /\ recording \in {"no", "on", "off"}
        /\ \A f \in events : f.at >= now
    BY <1>1 DEF IInv, Window, Pending, InTime, Types, TypeOK
  <2>2. CASE RecordStart(e)
    <3>1. e.kind = "record_start" /\ recording' = "on" /\ now = Warmup
      BY <1>1, <2>1, <2>2 DEF RecordStart, Takes, InWindow
    <3>2. recording # "off"
      BY <2>1, <3>1, WindowTyped
    <3>3. /\ EventOf("record_stop", NoProc, Warmup + Duration) \in events
          /\ EventOf("record_stop", NoProc, Warmup + Duration).kind = "record_stop"
      BY <2>1, <3>2, WindowTyped, EventTyped
    <3> QED
      BY <1>1, <3>1, <3>3, WindowTyped
  <2>3. CASE RecordStop(e)
    <3>1. /\ e.kind = "record_stop" /\ now = Warmup + Duration
          /\ recording' = IF recording = "on" THEN "off" ELSE recording
      BY <1>1, <2>1, <2>3 DEF RecordStop, Takes, InWindow
    <3>2. EventOf("record_start", NoProc, Warmup).at = Warmup
      BY WindowTyped, EventTyped
    <3>3. recording # "no"
      BY <2>1, <3>1, <3>2, WindowTyped
    <3> QED
      BY <2>1, <3>1, <3>3, WindowTyped
  <2> QED
    BY <2>2, <2>3
<1> QED
  BY <1>2, <1>3, <1>4, <1>5, <1>6, <1>7 DEF IInv

(* After the last event the end hooks run.                                  *)
LEMMA LoopOverKeeps ==
  ASSUME IInv, LoopOver
  PROVE  IInv'
<1>1. /\ ~Over /\ phase = "running" /\ current = NoProc /\ events = {}
      /\ phase' = "ending" /\ current' = Hook
      /\ recording' = IF recording = "on" THEN "off" ELSE recording
      /\ UNCHANGED <<sched, nodes, pstate, memory, pool, ended, closed>>
  BY DEF LoopOver, Idle, Over
<1> USE DEF sched, nodes, memory, pool
<1>2. Running' = Running /\ Created' = Created /\ ~Over'
  BY <1>1 DEF Running, Created, Over
<1>3. Types'
  BY <1>1 DEF IInv, Types, TypeOK, Actors
<1>4. Pending' /\ StartsOnce'
  BY <1>1 DEF Pending, StartsOnce
<1>5. Runs'
  BY <1>1, <1>2, ActorAssumption DEF IInv, Runs
<1>6. Structs' /\ StaticProcs'
  BY <1>1, <1>2 DEF IInv, Structs, StaticProcs
<1>7. Allocations'
  BY <1>1, <1>2 DEF IInv, Allocations
<1>8. Window' /\ Shut'
  BY <1>1 DEF Window, Shut
<1> QED
  BY <1>3, <1>4, <1>5, <1>6, <1>7, <1>8 DEF IInv

(* The structs in slots, in the ring and of static processes are freed:     *)
(* these are all that are not freed yet, and none is in two of these places.*)
LEMMA CleanUpKeeps ==
  ASSUME IInv, CleanUp
  PROVE  IInv'
<1>1. /\ phase = "ending" /\ current = Hook /\ starting[Hook] = <<>>
      /\ phase' = "over" /\ current' = NoProc
      /\ frees' = [p \in Procs |-> frees[p]
                     + (IF p \in slot \cup (Created \ Spawned) THEN 1 ELSE 0)
                     + (IF p \in kept THEN 1 ELSE 0)]
      /\ registry' = registry \ (slot \cup kept \cup (Created \ Spawned))
      /\ slot' = {} /\ kept' = {} /\ events' = {} /\ unit' = {} /\ waiting' = {}
      /\ UNCHANGED <<now, signalled_at, node, released, kept_at, flags>>
  BY DEF CleanUp
<1>2. /\ pstate' = [p \in Procs |-> IF p \in Running THEN "finished" ELSE pstate[p]]
      /\ starting' = [a \in Actors |-> IF a \in Running THEN <<>> ELSE starting[a]]
  BY DEF CleanUp, Finished
<1>3. TypeOK
  BY DEF IInv, Types
<1>4. Running' = {} /\ Created' = Created /\ ~Over /\ Over'
  BY <1>1, <1>2, <1>3 DEF Running, Created, Over, TypeOK
<1>5. ASSUME NEW p \in Procs
      PROVE  /\ frees[p] \in Nat
             /\ frees'[p] = frees[p] + (IF p \in slot \cup (Created \ Spawned) THEN 1 ELSE 0)
                                    + (IF p \in kept THEN 1 ELSE 0)
  BY <1>1, <1>3 DEF TypeOK
<1>6. \A p \in Procs : frees'[p] = IF p \in Created THEN 1 ELSE 0
  <2> SUFFICES ASSUME NEW p \in Procs PROVE frees'[p] = IF p \in Created THEN 1 ELSE 0
    OBVIOUS
  <2>1. /\ p \notin Created => p \notin slot \cup kept /\ frees[p] = 0
        /\ slot \cup kept \subseteq Spawned /\ slot \cap kept = {}
        /\ p \in Created => frees[p] = IF p \in Spawned \ (slot \cup kept) THEN 1 ELSE 0
    BY <1>4 DEF IInv, Structs
  <2> QED
    BY <1>5, <2>1
<1>7. Types'
  <2>1. frees' \in [Procs -> Nat]
    BY <1>1, <1>3 DEF TypeOK
  <2>2. pstate' \in [Procs -> {"none", "initialized", "running", "finished"}]
    BY <1>2, <1>3 DEF TypeOK
  <2>3. starting' \in [Actors -> Seq(Models)]
    BY <1>2, <1>3 DEF TypeOK
  <2>4. Cardinality(unit') <= 1
    BY <1>1, OneUnit
  <2> QED
    BY <1>1, <1>3, <2>1, <2>2, <2>3, <2>4 DEF Types, TypeOK, flags
<1>8. Pending' /\ StartsOnce'
  BY <1>1 DEF Pending, StartsOnce
<1>9. Runs'
  BY <1>1, <1>4, ActorAssumption DEF Runs
<1>10. Structs'
  BY <1>1, <1>4, <1>6 DEF IInv, Structs
<1>11. StaticProcs'
  BY <1>1 DEF StaticProcs
<1>12. Allocations'
  <2>1. \A a \in Actors : starting'[a] = <<>>
    <3> SUFFICES ASSUME NEW a \in Actors PROVE starting'[a] = <<>>
      OBVIOUS
    <3>1. starting[a] # <<>> => a = Hook \/ a \in Running
      BY <1>1 DEF IInv, Allocations
    <3>2. starting'[a] = IF a \in Running THEN <<>> ELSE starting[a]
      BY <1>2
    <3> QED
      BY <1>1, <3>1, <3>2
  <2> QED
    BY <1>1, <1>4, <2>1 DEF IInv, Allocations
<1>13. Window' /\ Shut'
  BY <1>1 DEF IInv, Window, Shut, flags
<1> QED
  BY <1>7, <1>8, <1>9, <1>10, <1>11, <1>12, <1>13 DEF IInv

(* The static processes are created, and nothing was pending for them.      *)
LEMMA SetUpKeeps ==
  ASSUME IInv, SetUp
  PROVE  IInv'
<1> DEFINE fresh == Procs \ Spawned
           StartOf(f) == \E p \in fresh : Owner[p] \notin released /\ f = EventOf("start", p, now)
<1>1. /\ phase = "setup" /\ current = Hook /\ starting[Hook] = <<>>
      /\ phase' = "running" /\ current' = NoProc
      /\ pstate' = [p \in Procs |-> IF p \in Spawned THEN pstate[p] ELSE "initialized"]
      /\ registry' = registry \cup fresh
      /\ recording' = IF Finite /\ Warmup > 0 THEN "no" ELSE "on"
      /\ UNCHANGED <<now, signalled_at, nodes, slot, kept, kept_at, frees, pool, ended, closed>>
  BY DEF SetUp
<1>2. /\ events \cup WindowEvents \subseteq events'
      /\ \A f \in events' : f \in events \/ f \in WindowEvents \/ StartOf(f)
  BY DEF SetUp
<1>3. TypeOK
  BY DEF IInv, Types
<1>4. /\ now = 0 /\ ~closed /\ Created \subseteq Spawned
      /\ \A p \in fresh : p \in Procs /\ p \notin Created /\ p \notin slot \cup kept \cup registry
                           /\ frees[p] = 0 /\ pstate[p] = "none"
  BY <1>1 DEF IInv, StaticProcs, Structs, Created
<1>5. \A p \in Procs : pstate'[p] = IF p \in Spawned THEN pstate[p] ELSE "initialized"
  BY <1>1
<1>6. Running' = Running /\ Created' = Created \cup fresh /\ ~Over /\ ~Over'
  BY <1>1, <1>4, <1>5 DEF Running, Created, Over, Spawned
<1>7. ASSUME NEW f \in WindowEvents
      PROVE  /\ f \in Event /\ f.kind \in Callbacks /\ f.proc = NoProc /\ f.at >= 0
             /\ InWindow(f)
  <2>1. \/ f = EventOf("record_start", NoProc, Warmup)
        \/ f = EventOf("record_stop", NoProc, Warmup + Duration)
        \/ f = EventOf("stop_processes", NoProc, Warmup + Duration + Cooldown)
    BY DEF WindowEvents
  <2> QED
    BY <2>1, WindowTyped, EventTyped DEF InWindow
<1>8. ASSUME NEW f, StartOf(f)
      PROVE  /\ f \in Event /\ f.kind = "start" /\ f.proc \in fresh /\ f.at = now
             /\ Owner[f.proc] \notin released
  BY <1>3, <1>8, EventTyped DEF TypeOK
<1>9. Types'
  <2>1. events' \subseteq Event
    BY <1>2, <1>3, <1>7, <1>8 DEF TypeOK
  <2>2. pstate' \in [Procs -> {"none", "initialized", "running", "finished"}]
    BY <1>1, <1>3 DEF TypeOK
  <2> QED
    BY <1>1, <1>3, <2>1, <2>2 DEF IInv, Types, TypeOK, nodes, pool
<1>10. Pending'
  <2> SUFFICES ASSUME NEW f \in events'
               PROVE  InTime(f)' /\ Reaches(f)' /\ Harmless(f)' /\ InWindow(f)'
    BY DEF Pending
  <2>1. CASE f \in events
    <3>1. InTime(f) /\ Reaches(f) /\ Harmless(f) /\ InWindow(f)
      BY <2>1 DEF IInv, Pending
    <3>2. InTime(f)' /\ Harmless(f)' /\ InWindow(f)'
      BY <1>1, <3>1 DEF InTime, Harmless, InWindow
    <3>3. f.kind \in Wakeups \cup Starts \cup Retirements \cup Callbacks
      BY <1>3, <2>1, EventFields DEF TypeOK
    <3>4. waiting \subseteq Running
      BY DEF IInv, Runs
    <3>5. f.proc \in fresh => f.kind \in Callbacks
      BY <1>4, <3>1, <3>3, <3>4 DEF Reaches, Running
    <3>6. Reaches(f)'
      BY <1>1, <1>5, <3>1, <3>5 DEF Reaches, nodes, pool
    <3> QED
      BY <3>2, <3>6
  <2>2. CASE f \in WindowEvents
    <3>1. /\ f.kind \in Callbacks /\ f.proc = NoProc /\ f.at >= 0 /\ InWindow(f)
      BY <1>7, <2>2
    <3> QED
      BY <1>1, <1>4, <3>1, ActorAssumption DEF InTime, Reaches, Harmless, InWindow
  <2>3. CASE StartOf(f)
    <3>1. /\ f.kind = "start" /\ f.proc \in fresh /\ f.at = now /\ Owner[f.proc] \notin released
      BY <1>8, <2>3
    <3> HIDE DEF StartOf
    <3>2. InTime(f)' /\ InWindow(f)'
      BY <1>1, <1>4, <3>1 DEF InTime, InWindow
    <3>3. Reaches(f)'
      BY <1>1, <1>4, <1>5, <3>1 DEF Reaches, nodes
    <3>4. Harmless(f)'
      BY <1>1, <1>4, <3>1 DEF Harmless
    <3> QED
      BY <3>2, <3>3, <3>4
  <2> QED
    BY <1>2, <2>1, <2>2, <2>3
<1>11. StartsOnce'
  <2> SUFFICES ASSUME NEW f \in events', NEW g \in events', f.kind \in Starts, g.kind \in Starts,
                      f.proc = g.proc
               PROVE  f = g
    BY DEF StartsOnce
  <2>1. f \in events \/ StartOf(f)
    BY <1>2, <1>7
  <2>2. g \in events \/ StartOf(g)
    BY <1>2, <1>7
  <2>3. \A h \in events : h.kind \in Starts => h.proc \notin fresh
    BY <1>4 DEF IInv, Pending, Reaches
  <2>4. CASE f \in events /\ g \in events
    BY <2>4 DEF IInv, StartsOnce
  <2>5. CASE StartOf(f) /\ StartOf(g)
    BY <1>8, <2>5, SameEvent
  <2>6. (f \in events => f.proc \notin fresh) /\ (g \in events => g.proc \notin fresh)
    BY <2>3
  <2>7. (StartOf(f) => f.proc \in fresh) /\ (StartOf(g) => g.proc \in fresh)
    BY <1>8
  <2> HIDE DEF StartOf, fresh
  <2> QED
    BY <2>1, <2>2, <2>4, <2>5, <2>6, <2>7
<1>12. Runs'
  BY <1>1, <1>6, ActorAssumption DEF IInv, Runs, nodes, pool
<1>13. Structs'
  <2>1. \A p \in Procs \ Created' : p \notin slot \cup kept \cup registry' /\ frees[p] = 0
    BY <1>1, <1>6 DEF IInv, Structs
  <2>2. slot \cup kept \subseteq Spawned /\ slot \cap kept = {}
    BY DEF IInv, Structs
  <2>3. ASSUME NEW p \in Created'
        PROVE  /\ p \in registry' <=> frees[p] = 0
               /\ frees[p] = IF p \in Spawned \ (slot \cup kept) THEN 1 ELSE 0
               /\ p \in Spawned \ slot =>
                    pstate'[p] = "finished" \/ (pstate'[p] = "initialized" /\ Owner[p] \in released)
    <3>1. CASE p \in fresh
      BY <1>1, <1>4, <3>1
    <3>2. CASE p \in Created
      <4>1. p \in Procs /\ p \in Spawned /\ pstate'[p] = pstate[p]
        BY <1>4, <1>5, <3>2 DEF Created
      <4> QED
        BY <1>1, <1>6, <3>2, <4>1 DEF IInv, Structs
    <3> QED
      BY <1>6, <2>3, <3>1, <3>2
  <2> QED
    BY <1>1, <1>6, <2>1, <2>2, <2>3 DEF Structs, nodes
<1>14. StaticProcs'
  BY <1>1, <1>6 DEF StaticProcs
<1>15. Allocations'
  <2>1. \A p \in Spawned : p \in Created' => p \in Created
    BY <1>6
  <2> QED
    BY <1>1, <1>6, <2>1 DEF IInv, Allocations, nodes
<1>16. Window'
  <2> SUFFICES ASSUME Finite
               PROVE  /\ EventOf("record_stop", NoProc, Warmup + Duration) \in events'
                      /\ Warmup > 0 => EventOf("record_start", NoProc, Warmup) \in events'
                      /\ recording' = "no" => Warmup > 0
                      /\ recording' = "on" => now >= Warmup
                      /\ recording' # "off"
    BY <1>1 DEF Window
  <2>1. /\ EventOf("record_stop", NoProc, Warmup + Duration) \in WindowEvents
        /\ Warmup > 0 => EventOf("record_start", NoProc, Warmup) \in WindowEvents
    BY DEF WindowEvents
  <2> QED
    BY <1>1, <1>2, <1>4, <2>1, WindowTyped
<1>17. Shut'
  BY <1>1, <1>4 DEF Shut
<1> QED
  BY <1>9, <1>10, <1>11, <1>12, <1>13, <1>14, <1>15, <1>16, <1>17 DEF IInv

-----------------------------------------------------------------------------
(* The specification *)

LEMMA StutterKeeps ==
  ASSUME IInv, UNCHANGED vars
  PROVE  IInv'
<1> USE DEF vars, sched, nodes, memory, pool, flags
<1>1. Running' = Running /\ Created' = Created /\ (Over' <=> Over)
  BY DEF Running, Created, Over
<1>2. Types' /\ StartsOnce'
  BY DEF IInv, Types, TypeOK, StartsOnce
<1>3. Pending'
  BY DEF IInv, Pending, InTime, Reaches, Harmless, InWindow
<1>4. Runs' /\ Structs' /\ StaticProcs' /\ Allocations'
  BY <1>1 DEF IInv, Runs, Structs, StaticProcs, Allocations
<1>5. Window' /\ Shut'
  BY <1>1 DEF IInv, Window, Shut
<1> QED
  BY <1>2, <1>3, <1>4, <1>5 DEF IInv

LEMMA NextKeeps == IInv /\ [Next]_vars => IInv'
<1> SUFFICES ASSUME IInv, [Next]_vars PROVE IInv'
  OBVIOUS
<1>1. CASE SetUp
  BY <1>1, SetUpKeeps
<1>2. CASE \E a \in Actors : Calls(a)
  BY <1>2, CallsKeep
<1>3. CASE Tick \/ LoopOver \/ CallReturns
  BY <1>3, TickKeeps, LoopOverKeeps, CallReturnsKeeps
<1>4. ASSUME NEW e \in events,
             \/ RunDeferred(e) \/ RunStart(e) \/ RunWakeup(e) \/ RunGrant(e) \/ RunCall(e)
             \/ Retire(e) \/ RecordStart(e) \/ RecordStop(e) \/ StopProcesses(e)
      PROVE  IInv'
  BY <1>4, RunDeferredKeeps, RunStartKeeps, RunWakeupKeeps, RunGrantKeeps, RunCallKeeps,
     RetireKeeps, RecordKeeps, StopProcessesKeeps
<1>5. CASE CleanUp
  BY <1>5, CleanUpKeeps
<1>6. CASE Done \/ UNCHANGED vars
  BY <1>6, StutterKeeps DEF Done
<1> QED
  BY <1>1, <1>2, <1>3, <1>4, <1>5, <1>6 DEF Next, Loop

(* In every trial, whatever its model code does with the verbs, IInv holds. *)
THEOREM Invariant == Spec => []IInv
<1>1. Init => IInv
  BY Initially
<1>2. IInv /\ [Next]_vars => IInv'
  BY NextKeeps
<1> QED
  BY <1>1, <1>2, PTL DEF Spec

-----------------------------------------------------------------------------
(* What follows from the invariant *)

(* In every trial each process struct is freed at most once, and when the   *)
(* trial is over or abandoned exactly once; every variable has its type.    *)
(* It follows from Structs, which says where a struct is until it is freed. *)
THEOREM StructsFreedOnce == Spec => []FreedOnce
<1>1. IInv => FreedOnce
  <2> SUFFICES ASSUME IInv PROVE FreedOnce
    OBVIOUS
  <2>1. TypeOK /\ \A p \in Procs : p \notin Created => frees[p] = 0
    BY DEF IInv, Types, Structs
  <2>2. \A p \in Procs : frees[p] <= 1
    BY <2>1 DEF IInv, Structs
  <2>3. Over => \A p \in Procs : frees[p] = IF p \in Created THEN 1 ELSE 0
    BY DEF IInv, Structs
  <2> QED
    BY <2>1, <2>2, <2>3 DEF FreedOnce, Over
<1> QED
  BY <1>1, Invariant, PTL

(* Unless model code uses the handle of a process after the instant of its  *)
(* retirement, no start or wakeup is ever pending for a freed struct,       *)
(* although retirement frees without a sweep of the event queue.            *)
THEOREM NothingDangles ==
  ASSUME ~LateHandles
  PROVE  Spec => []NoDangling
<1>1. IInv => NoDangling
  BY DEF IInv, Pending, Harmless, NoDangling
<1> QED
  BY <1>1, Invariant, PTL

(* Recording is on in the window and nowhere else, for any warmup, duration *)
(* and model code, unless end_trial took the window's events away.          *)
THEOREM RecordsTheWindow == Spec => []WindowRecorded
<1>1. IInv => WindowRecorded
  <2> SUFFICES ASSUME IInv PROVE WindowRecorded
    OBVIOUS
  <2> SUFFICES ASSUME phase = "running", Finite, ~ended
               PROVE  /\ recording = "on" => now \in Warmup .. Warmup + Duration
                      /\ now > Warmup => recording # "no"
                      /\ now < Warmup + Duration => recording # "off"
    BY DEF IInv, Window, WindowRecorded
  <2>1. /\ recording = "no" => EventOf("record_start", NoProc, Warmup) \in events
        /\ recording = "on" =>
             /\ EventOf("record_stop", NoProc, Warmup + Duration) \in events
             /\ now >= Warmup
        /\ recording = "off" => now >= Warmup + Duration
    BY DEF IInv, Window
  <2>2. now \in Nat /\ \A e \in events : e.at >= now
    BY DEF IInv, Types, TypeOK, Pending, InTime
  <2>3. /\ EventOf("record_start", NoProc, Warmup).at = Warmup
        /\ EventOf("record_stop", NoProc, Warmup + Duration).at = Warmup + Duration
    BY WindowTyped, EventTyped
  <2>4. recording = "no" => now <= Warmup
    BY <2>1, <2>2, <2>3, WindowTyped
  <2>5. recording = "on" => now <= Warmup + Duration
    BY <2>1, <2>2, <2>3, WindowTyped
  <2> QED
    BY <2>1, <2>2, <2>4, <2>5, WindowTyped
<1> QED
  BY <1>1, Invariant, PTL

(* Unless scheduled functions spawn after the window, from stop_processes   *)
(* on no process runs, and none is about to start.                          *)
THEOREM NoneOutlives ==
  ASSUME ~LateSpawns
  PROVE  Spec => []NoneOutlivesWindow
<1>1. IInv => NoneOutlivesWindow
  BY DEF IInv, Shut, NoneOutlivesWindow
<1> QED
  BY <1>1, Invariant, PTL

(* A released model stays released, and by Runs no process of one runs.     *)
THEOREM ReleasedRunsNoMore == Spec => ReleasedStaysQuiet
<1>1. Next => released \subseteq released'
  <2> USE DEF nodes, vars
  <2>1. SetUp \/ CleanUp \/ Done => released' = released
    BY DEF SetUp, CleanUp, Done
  <2>2. Loop => released' = released
    BY DEF Loop, Tick, LoopOver, CallReturns, RunDeferred, RunStart, RunWakeup, RunGrant,
       RunCall, Retire, RecordStart, RecordStop, StopProcesses
  <2>3. \A a \in Actors : Calls(a) => released \subseteq released'
    BY DEF Calls, Spawn, Release, Start, Finish, EndTrial, Fail, Interrupt, TimerSet, Hold,
       Schedule, Unschedule, Suspend, Acquire, GiveBack
  <2> QED
    BY <2>1, <2>2, <2>3 DEF Next
<1>2. IInv' /\ [Next]_vars =>
        [\A p \in Procs : Owner[p] \in released /\ current # p => current' # p]_vars
  <2> SUFFICES ASSUME IInv', Next, NEW p \in Procs, Owner[p] \in released
               PROVE  current' # p
    OBVIOUS
  <2>1. current' \in Procs => Owner[current'] \notin released'
    BY DEF IInv, Runs
  <2> QED
    BY <1>1, <2>1
<1> QED
  BY <1>2, Invariant, PTL DEF Spec, ReleasedStaysQuiet

(* What an end leaves behind, when no grant is lost with the queue.         *)
LEMMA EndingIsClean ==
  ASSUME IInv, NEW F, NEW S, NEW ev, Ending(F, S, ev),
         ended' \/ \A e \in events : e.kind = "grant" => e \in ev,
         NEW p \in F
  PROVE  /\ p \notin unit' \cup waiting'
         /\ \A e \in events' : e.proc = p => e.kind \in Retirements
         /\ p \in unit /\ waiting' # {} /\ ~ended' => \E e \in events' : e.kind = "grant"
<1>1. /\ F \subseteq Running /\ EngineExit(S, ev)
      /\ p \notin S => p = current /\ exits_without_sweep(p)
      /\ unit' = unit \ S /\ waiting' = waiting \ S
  BY SweptEvents DEF Ending
<1>2. p \notin S => p \notin unit \cup waiting
  BY <1>1 DEF exits_without_sweep, IInv, Runs, Running
<1>3. /\ \A q \in Candidates(S) : q \in waiting' /\ q \in Procs
      /\ now \in Nat /\ Running \subseteq Procs /\ waiting \subseteq Procs
  BY <1>1 DEF Candidates, IInv, Types, TypeOK, Running
<1>4. ASSUME NEW e \in events', e.proc = p PROVE e.kind \in Retirements
  <2>1. ASSUME NEW q \in Spawned \cap Created, NEW kind \in Retirements, e = EventOf(kind, q, now)
        PROVE  e.kind \in Retirements
    BY <1>3, <2>1, EventTyped DEF Spawned
  <2>2. ASSUME NEW q \in Candidates(S), e = EventOf("grant", q, now) PROVE FALSE
    <3>1. e.proc = q
      BY <1>3, <2>2, EventTyped
    <3> QED
      BY <1>1, <1>2, <1>3, <1>4, <3>1
  <2> QED
    BY <1>4, <2>1, <2>2, EventsAtEnd
<1>5. ASSUME p \in unit, waiting' # {}, ~ended' PROVE \E e \in events' : e.kind = "grant"
  <2>1. S \cap unit # {}
    BY <1>2, <1>5
  <2>2. CASE Candidates(S) = {}
    <3>1. PICK q \in waiting \ S : Of({q}, {"grant"}) # {}
      BY <1>1, <1>5, <2>2 DEF Candidates
    <3>2. PICK e \in events : e.proc = q /\ e.kind = "grant"
      BY <3>1 DEF Of
    <3>3. e \in Swept(S, ev)
      BY <1>5, <3>1, <3>2 DEF Swept
    <3> QED
      BY <1>1, <3>2, <3>3, SweptEvents
  <2>3. CASE Candidates(S) # {}
    <3>1. PICK q \in Candidates(S) : events' = Swept(S, ev) \cup {EventOf("grant", q, now)}
      BY <1>1, <2>1, <2>3 DEF EngineExit, PassedOn, Returned, Signalled
    <3>2. EventOf("grant", q, now).kind = "grant"
      BY <1>3, EventTyped
    <3> QED
      BY <3>1, <3>2
  <2> QED
    BY <2>2, <2>3
<1> QED
  BY <1>1, <1>2, <1>4, <1>5

(* Processes end by nothing else, until the trial is cleaned up.            *)
LEMMA WhoEnds ==
  ASSUME IInv, Next, phase' = "running", NEW p \in Running, pstate'[p] = "finished"
  PROVE  \E F, S, ev : /\ Ending(F, S, ev) /\ p \in F
                       /\ ended' \/ \A e \in events : e.kind = "grant" => e \in ev
<1> USE DEF vars, sched, nodes, memory, pool, flags
<1>1. /\ p \in Procs /\ pstate[p] = "running"
      /\ pstate \in [Procs -> {"none", "initialized", "running", "finished"}]
  BY DEF Running, IInv, Types, TypeOK
<1>2. \A F : Finished(F) => p \in F
  BY <1>1 DEF Finished
<1>3. ASSUME NEW a \in Actors, NEW m \in Models, Release(a, m)
      PROVE  \E F, S, ev : /\ Ending(F, S, ev) /\ p \in F
                           /\ ended' \/ \A e \in events : e.kind = "grant" => e \in ev
  <2>1. PICK S : Ending(EndedBy(a, m), S, AtRelease(m))
    BY <1>3, ReleaseEnds
  <2>2. p \in EndedBy(a, m)
    BY <1>2, <2>1 DEF Ending
  <2>3. \A e \in events : e.kind = "grant" => e \in AtRelease(m)
    BY DEF IInv, Pending, Reaches, Runs, Running, AtRelease, WithoutStarts
  <2> QED
    BY <2>1, <2>2, <2>3
<1>4. ASSUME NEW a \in Actors, Finish(a)
      PROVE  \E F, S, ev : /\ Ending(F, S, ev) /\ p \in F
                           /\ ended' \/ \A e \in events : e.kind = "grant" => e \in ev
  <2>1. PICK S : Ending({a}, S, events \cup {EventOf("retire", q, now) : q \in {a} \cap Spawned})
    BY <1>4, FinishEnds
  <2>2. p \in {a}
    BY <1>2, <2>1 DEF Ending
  <2> QED
    BY <2>1, <2>2
<1>5. ASSUME NEW a \in Actors, EndTrial(a)
      PROVE  \E F, S, ev : /\ Ending(F, S, ev) /\ p \in F
                           /\ ended' \/ \A e \in events : e.kind = "grant" => e \in ev
  <2>1. Ending({a} \ {Hook}, {a} \ {Hook}, {}) /\ ended'
    BY <1>5, EndTrialEnds DEF EndTrial
  <2>2. p \in {a} \ {Hook}
    BY <1>2, <2>1 DEF Ending
  <2> QED
    BY <2>1, <2>2
<1>6. ASSUME NEW e \in events, StopProcesses(e)
      PROVE  \E F, S, ev : /\ Ending(F, S, ev) /\ p \in F
                           /\ ended' \/ \A f \in events : f.kind = "grant" => f \in ev
  <2>1. Ending(Stopped, Stopped, StartsCancelled \ {e}) /\ e.kind = "stop_processes"
    BY <1>6, StopProcessesEnds DEF StopProcesses, Takes
  <2>2. p \in Stopped
    BY <1>2, <2>1 DEF Ending
  <2>3. \A f \in events : f.kind = "grant" => f \in StartsCancelled \ {e}
    BY <2>1 DEF StartsCancelled
  <2> QED
    BY <2>1, <2>2, <2>3
<1>7. ~SetUp
  BY <1>1 DEF SetUp
<1>8. ~CleanUp /\ ~Done
  BY <1>1 DEF CleanUp, Done
<1>9. ~(Tick \/ LoopOver \/ CallReturns)
  BY <1>1 DEF Tick, LoopOver, CallReturns
<1>10. \A e \in events :
        ~(\/ RunDeferred(e) \/ RunStart(e) \/ RunWakeup(e) \/ RunGrant(e) \/ RunCall(e)
          \/ Retire(e) \/ RecordStart(e) \/ RecordStop(e))
  BY <1>1 DEF RunDeferred, RunStart, RunWakeup, RunGrant, RunCall, Retire, RecordStart, RecordStop
<1>11. \A a \in Actors :
        /\ \A m \in Models : ~Spawn(a, m)
        /\ ~Start(a) /\ ~Fail(a)
  BY <1>1 DEF Spawn, Start, Fail
<1>12. \A a \in Actors :
        /\ \A q \in Procs, kind \in {"interrupt", "resume"} : ~Interrupt(a, q, kind)
        /\ \A d \in Delays : ~(TimerSet(a, d) \/ Hold(a, d) \/ Schedule(a, d))
        /\ \A e \in events : ~Unschedule(a, e)
        /\ ~(Suspend(a) \/ Acquire(a) \/ GiveBack(a))
  BY <1>1 DEF Interrupt, TimerSet, Hold, Schedule, Unschedule, Suspend, Acquire, GiveBack
<1> QED
  BY <1>3, <1>4, <1>5, <1>6, <1>7, <1>8, <1>9, <1>10, <1>11, <1>12 DEF Next, Calls, Loop

(* In every trial, a process that ends, also without the engine's exit,     *)
(* leaves no unit, wait or wakeup behind, and who waits for its unit has a  *)
(* grant on the way unless end_trial took it.                               *)
THEOREM EndsLeaveNothing == Spec => EndsClean
<1> DEFINE Clean ==
      \A p \in Running :
        pstate'[p] = "finished" /\ phase' = "running" =>
          /\ p \notin unit' \cup waiting'
          /\ \A e \in events' : e.proc = p => e.kind \in Retirements
          /\ p \in unit /\ waiting' # {} /\ ~ended' => \E e \in events' : e.kind = "grant"
<1>1. IInv /\ [Next]_vars => [Clean]_vars
  <2> SUFFICES ASSUME IInv, Next, NEW p \in Running, pstate'[p] = "finished", phase' = "running"
               PROVE  /\ p \notin unit' \cup waiting'
                      /\ \A e \in events' : e.proc = p => e.kind \in Retirements
                      /\ p \in unit /\ waiting' # {} /\ ~ended' =>
                           \E e \in events' : e.kind = "grant"
    OBVIOUS
  <2>1. PICK F, S, ev : /\ Ending(F, S, ev) /\ p \in F
                        /\ ended' \/ \A e \in events : e.kind = "grant" => e \in ev
    BY WhoEnds
  <2> QED
    BY <2>1, EndingIsClean
<1> QED
  BY <1>1, Invariant, PTL DEF Spec, EndsClean
=============================================================================
