-------------------------------- MODULE Trial --------------------------------
(***************************************************************************)
(* One trial of src/cimba/native/trial.c: setup, event loop, end hooks and *)
(* cleanup, with models spawned and released on the way.  The module is    *)
(* about lifetimes: which process structs exist, what may still reach them,*)
(* and when they are freed.  Finished spawned processes are retired, and   *)
(* their structs freed once the clock has moved on, without the sweeps of  *)
(* the event queue that the engine's own exit and destroy make.            *)
(*                                                                         *)
(* A trial is one thread.  Between two calls of the running process or hook*)
(* nothing else happens; which event of an instant comes next depends on   *)
(* priorities that model code sets, so any of them may.                    *)
(***************************************************************************)
EXTENDS Integers, Sequences, FiniteSets

CONSTANTS
  Procs,         (* process structs, each of one model                      *)
  Models,        (* model instances                                         *)
  Owner,         (* [Procs -> Models]                                       *)
  Dynamic,       (* the models that are spawned; the others are static      *)
  NoProc,        (* nobody runs: the event loop chooses                     *)
  Hook,          (* a hook or scheduled function runs                       *)
  Finite,        (* whether the window is finite (else until idle)          *)
  Warmup, Duration, Cooldown,
  Code,          (* the calls that the model code of each actor makes       *)
  LateSpawns,    (* whether scheduled functions spawn after the window      *)
  LateHandles,   (* whether handles are used after the instant of a process's*)
                 (* retirement                                              *)
  Delays,        (* the delays of holds, timers and scheduled functions     *)
  MaxTime        (* bound: none of them is set for a later instant          *)

Actors == Procs \cup {Hook}
Verbs  == {"spawn", "release", "end_trial", "fail", "interrupt", "resume", "timer_set",
           "hold", "suspend", "schedule", "acquire"}

ASSUME OwnerAssumption  == Owner \in [Procs -> Models] /\ Dynamic \subseteq Models
ASSUME ActorAssumption  == {NoProc, Hook} \cap Procs = {} /\ NoProc # Hook
ASSUME WindowAssumption == /\ {Finite, LateSpawns, LateHandles} \subseteq BOOLEAN
                           /\ {Warmup, Cooldown, MaxTime} \cup Delays \subseteq Nat
                           /\ Duration \in Nat \ {0}
ASSUME CodeAssumption   == Code \in [Actors -> SUBSET Verbs]

VARIABLES
  phase,         (* "setup", "running", "ending", "over" or "abandoned"     *)
  current,       (* the process that runs, Hook, or NoProc                  *)
  now,
  events,        (* the event queue                                         *)
  signalled_at,  (* when an interrupt or resume was last scheduled          *)
  node,          (* each model: "static", or "absent", "allocated" while its*)
                 (* on_start hooks run, then "started"                      *)
  starting,      (* the models whose cpy_model_start an actor is inside     *)
  released,      (* released models                                         *)
  pstate,        (* "none", "initialized", "running" or "finished"          *)
  slot,          (* processes still in the slot of their node               *)
  kept,          (* the ring of retired processes                           *)
  kept_at,       (* and the time each was put there                         *)
  registry,      (* structs the engine frees if the trial is abandoned      *)
  frees,         (* how often each struct was freed                         *)
  unit,          (* who holds the one unit of a resource: at most one       *)
  waiting,       (* who waits for it                                        *)
  recording,     (* "no", "on" or "off"                                     *)
  ended, closed  (* end_trial was called; stop_processes has run            *)

sched  == <<now, events, signalled_at>>
nodes  == <<node, starting, released>>
memory == <<slot, kept, kept_at, registry, frees>>
pool   == <<unit, waiting>>
flags  == <<recording, ended, closed>>
vars   == <<phase, current, sched, nodes, pstate, memory, pool, flags>>

-----------------------------------------------------------------------------
Timers      == {"hold", "timer"}
Wakeups     == Timers \cup {"interrupt", "resume", "grant"}
Starts      == {"deferred", "start"}
Retirements == {"retire", "retire_released"}
Callbacks   == {"call", "record_start", "record_stop", "stop_processes"}

Event == [kind : Wakeups \cup Starts \cup Retirements \cup Callbacks,
          proc : Procs \cup {NoProc}, at : Nat]

EventOf(kind, p, t) == [kind |-> kind, proc |-> p, at |-> t]
Of(S, kinds)        == {e \in events : e.proc \in S /\ e.kind \in kinds}

Static    == Models \ Dynamic
Spawned   == {p \in Procs : Owner[p] \in Dynamic}
Created   == {p \in Procs : pstate[p] # "none"}
Running   == {p \in Procs : pstate[p] = "running"}

(* A handle is this_process() of the process itself, so it has run.  Its    *)
(* struct is there while it is in its slot, and after that at least for this*)
(* instant.                                                                 *)
Known == {p \in Procs : /\ pstate[p] \in {"running", "finished"} /\ frees[p] = 0
                        /\ p \in kept => kept_at[p] = now \/ LateHandles}

Acts(a)  == current = a /\ phase \in {"setup", "running", "ending"}
Makes(a, verb) == Acts(a) /\ verb \in Code[a]
Idle     == phase = "running" /\ current = NoProc

(* A unit given back, or a grant that its process no longer awaits, is      *)
(* passed on to one waiting process that has no grant yet.                  *)
Candidates(S) == {q \in waiting \ S : Of({q}, {"grant"}) = {}}
Signalled(ev, S) ==
  IF Candidates(S) # {} THEN {ev \cup {EventOf("grant", q, now)} : q \in Candidates(S)}
  ELSE {ev}
Returned(ev, S) == IF S \cap unit # {} THEN Signalled(ev, S) ELSE {ev}
PassedOn(ev, S) ==
  IF unit = {} /\ Of(S, {"grant"}) # {} THEN Signalled(ev, S) ELSE Returned(ev, S)

(* cmb_process_exit and cmb_process_stop of the processes S, when the queue *)
(* is ev: their wakeups are swept, their waits and holdings end.  Whether a *)
(* grant that was on its way to one of them is passed on is the engine's.   *)
Swept(S, ev) == {e \in ev : e.proc \in S => e.kind \in Retirements}
EngineExit(S, ev) ==
  /\ events'  \in Returned(Swept(S, ev), S) \cup PassedOn(Swept(S, ev), S)
  /\ unit'    = unit \ S
  /\ waiting' = waiting \ S

(* exits_without_sweep: p holds nothing, awaits nothing, and no interrupt or*)
(* resume was scheduled at this instant.                                    *)
exits_without_sweep_Late(p) ==
  p \notin unit /\ Of({p}, Timers) = {} /\ signalled_at <= now
exits_without_sweep(p) ==
  p \notin unit /\ Of({p}, Timers) = {} /\ signalled_at < now

(* A spawned process ends its coroutine, with or without the engine's exit. *)
Leaves(S, p, ev) ==
  IF p \in Spawned /\ exits_without_sweep(p) THEN EngineExit(S \ {p}, ev)
  ELSE EngineExit(S \cup {p}, ev)

(* The processes S are finished, whatever they were doing.                  *)
Finished(S) ==
  /\ pstate'   = [p \in Procs |-> IF p \in S THEN "finished" ELSE pstate[p]]
  /\ starting' = [a \in Actors |-> IF a \in S THEN <<>> ELSE starting[a]]

-----------------------------------------------------------------------------
(* Calls of a running process or hook *)

(* cpy_model_allocate, and the on_start hooks of the new model begin.       *)
Spawn(a, m) ==
  /\ Makes(a, "spawn") /\ m \in Dynamic /\ node[m] = "absent"
  /\ closed /\ phase = "running" => LateSpawns
  /\ node'     = [node EXCEPT ![m] = "allocated"]
  /\ starting' = [starting EXCEPT ![a] = Append(@, m)]
  /\ UNCHANGED <<phase, current, sched, released, pstate, memory, pool, flags>>

(* The rest of cpy_model_start: processes with deferred starts, unless the  *)
(* model was released meanwhile.                                            *)
NewProcs(m) == IF m \in released THEN {} ELSE {p \in Procs : Owner[p] = m}
Start(a) ==
  /\ Acts(a) /\ starting[a] # <<>>
  /\ LET m == starting[a][Len(starting[a])]
         S == NewProcs(m)
     IN  /\ node'     = [node EXCEPT ![m] = "started"]
         /\ pstate'   = [p \in Procs |-> IF p \in S THEN "initialized" ELSE pstate[p]]
         /\ slot'     = slot \cup S
         /\ registry' = registry \cup S
         /\ events'   = events \cup {EventOf("deferred", p, now) : p \in S}
  /\ starting' = [starting EXCEPT ![a] = SubSeq(@, 1, Len(@) - 1)]
  /\ UNCHANGED <<phase, current, now, signalled_at, released, kept, kept_at, frees, pool,
                 flags>>

(* stop_model_process: a process that has not started loses every event on  *)
(* its way, also the start already handed to the engine.                    *)
WithoutStarts_Deferred(S, ev) ==
  {e \in ev : ~(e.proc \in S /\ e.kind = "deferred")}
WithoutStarts(S, ev) == {e \in ev : ~(e.proc \in S /\ pstate[e.proc] = "initialized")}

(* cpy_model_release: stop the others, schedule retirements, and end the    *)
(* caller if the model is its own.                                          *)
Release(a, m) ==
  /\ Makes(a, "release") /\ node[m] # "absent" /\ m \notin released
  /\ released' = released \cup {m}
  /\ LET mine    == {p \in Created : Owner[p] = m} \cap (IF m \in Dynamic THEN slot ELSE Procs)
         others  == (mine \cap Running) \ {a}
         retired == {EventOf("retire_released", p, now) : p \in mine \cap Spawned}
         ev      == WithoutStarts(mine, events) \cup retired
     IN  IF a \in mine
         THEN Leaves(others, a, ev) /\ Finished(others \cup {a}) /\ current' = NoProc
         ELSE EngineExit(others, ev) /\ Finished(others) /\ UNCHANGED current
  /\ UNCHANGED <<phase, now, signalled_at, node, memory, flags>>

(* The callback returns: run_spawned_process schedules the retirement.      *)
Finish(p) ==
  /\ Acts(p) /\ p # Hook /\ starting[p] = <<>>
  /\ Leaves({}, p, events \cup {EventOf("retire", q, now) : q \in {p} \cap Spawned})
  /\ Finished({p}) /\ current' = NoProc
  /\ UNCHANGED <<phase, now, signalled_at, node, released, memory, flags>>

(* cpy_end_trial: the queue is cleared, then a calling process exits; what  *)
(* it held goes to those who wait for it.                                   *)
EndTrial(a) ==
  /\ Makes(a, "end_trial")
  /\ ended' = TRUE
  /\ EngineExit({a} \ {Hook}, {})
  /\ Finished({a} \ {Hook})
  /\ current' = IF a = Hook THEN Hook ELSE NoProc
  /\ UNCHANGED <<phase, now, signalled_at, node, released, memory, recording, closed>>

(* cpy_process_interrupt and cpy_process_resume note the time.              *)
Interrupt(a, q, kind) ==
  /\ Makes(a, kind) /\ q \in Known \ {a}
  /\ kind \in {"interrupt", "resume"}
  /\ signalled_at' = now
  /\ events' = events \cup {EventOf(kind, q, now)}
  /\ UNCHANGED <<phase, current, now, nodes, pstate, memory, pool, flags>>

(* timer_set replaces all timers of its process, also the one a hold left   *)
(* behind.  Holds, a suspension with neither, and scheduled functions.      *)
TimerSet(p, d) ==
  /\ Makes(p, "timer_set") /\ p # Hook /\ now + d <= MaxTime
  /\ events' = (events \ Of({p}, Timers)) \cup {EventOf("timer", p, now + d)}
  /\ UNCHANGED <<phase, current, now, signalled_at, nodes, pstate, memory, pool, flags>>
Sets(p, kind, d) == /\ now + d <= MaxTime
                    /\ EventOf(kind, p, now + d) \notin events
                    /\ events' = events \cup {EventOf(kind, p, now + d)}
Hold(p, d) ==
  /\ Makes(p, "hold") /\ p # Hook /\ Sets(p, "hold", d)
  /\ current' = NoProc
  /\ UNCHANGED <<phase, now, signalled_at, nodes, pstate, memory, pool, flags>>
Suspend(p) ==
  /\ Makes(p, "suspend") /\ p # Hook
  /\ current' = NoProc
  /\ UNCHANGED <<phase, sched, nodes, pstate, memory, pool, flags>>
Schedule(a, d) ==
  /\ Makes(a, "schedule") /\ Sets(NoProc, "call", d)
  /\ UNCHANGED <<phase, current, now, signalled_at, nodes, pstate, memory, pool, flags>>
Unschedule(a, e) ==
  /\ Makes(a, "schedule") /\ e \in events /\ e.kind = "call"
  /\ events' = events \ {e}
  /\ UNCHANGED <<phase, current, now, signalled_at, nodes, pstate, memory, pool, flags>>

(* The one unit: taken or waited for, and given back.                       *)
Acquire(p) ==
  /\ Makes(p, "acquire") /\ p \notin unit \cup {Hook}
  /\ IF unit = {}
     THEN unit' = unit \cup {p} /\ UNCHANGED <<waiting, current>>
     ELSE waiting' = waiting \cup {p} /\ current' = NoProc /\ UNCHANGED unit
  /\ UNCHANGED <<phase, sched, nodes, pstate, memory, flags>>
GiveBack(p) ==
  /\ Acts(p) /\ p \in unit
  /\ unit' = unit \ {p}
  /\ events' \in PassedOn(events, {p})
  /\ UNCHANGED <<phase, current, now, signalled_at, nodes, pstate, memory, waiting,
                 flags>>

-----------------------------------------------------------------------------
(* The end of the trial *)

(* cpy_trial_fail, or any abandonment: the engine's registry frees what is  *)
(* in it, and abandoned_trial the rest.                                     *)
Fail(a) ==
  /\ Makes(a, "fail")
  /\ phase'    = "abandoned" /\ current' = NoProc
  /\ frees'    = [p \in Procs |-> frees[p] + (IF p \in registry THEN 1 ELSE 0)]
  /\ registry' = {} /\ slot' = {} /\ kept' = {}
  /\ events'   = {}
  /\ UNCHANGED <<now, signalled_at, nodes, pstate, kept_at, pool, flags>>

(* stop_processes: running processes are stopped, and the pending starts of *)
(* spawned ones cancelled.                                                  *)
Stopped == {p \in Running : p \in Spawned => Owner[p] \notin released}
StartsCancelled_Never == events
StartsCancelled ==
  {e \in events : ~(e.kind = "deferred" /\ Owner[e.proc] \notin released)}

(* After the last event: recording stops, and the end hooks run.            *)
LoopOver ==
  /\ Idle /\ events = {}
  /\ phase' = "ending" /\ current' = Hook
  /\ recording' = IF recording = "on" THEN "off" ELSE recording
  /\ UNCHANGED <<sched, nodes, pstate, memory, pool, ended, closed>>

(* cmb_process_destroy of what is in a slot, free_retired of what is kept.  *)
CleanUp ==
  /\ phase = "ending" /\ current = Hook /\ starting[Hook] = <<>>
  /\ phase' = "over" /\ current' = NoProc
  /\ frees' = [p \in Procs |-> frees[p] + (IF p \in slot \cup (Created \ Spawned) THEN 1 ELSE 0)
                                       + (IF p \in kept THEN 1 ELSE 0)]
  /\ registry' = registry \ (slot \cup kept \cup (Created \ Spawned))
  /\ slot' = {} /\ kept' = {}
  /\ events' = {}
  /\ Finished(Running)
  /\ unit' = {} /\ waiting' = {}
  /\ UNCHANGED <<now, signalled_at, node, released, kept_at, flags>>

(* The static processes are created, and started unless their model was     *)
(* released; the window is scheduled.                                       *)
WindowEvents_Unwarmed ==
  {EventOf("record_start", NoProc, Warmup), EventOf("record_stop", NoProc, Duration),
   EventOf("stop_processes", NoProc, Warmup + Duration + Cooldown)}
WindowEvents ==
  (IF Finite THEN {EventOf("record_stop", NoProc, Warmup + Duration),
                   EventOf("stop_processes", NoProc, Warmup + Duration + Cooldown)}
   ELSE {}) \cup
  (IF Finite /\ Warmup > 0 THEN {EventOf("record_start", NoProc, Warmup)} ELSE {})
SetUp ==
  /\ phase = "setup" /\ current = Hook /\ starting[Hook] = <<>>
  /\ phase' = "running" /\ current' = NoProc
  /\ pstate'   = [p \in Procs |-> IF p \in Spawned THEN pstate[p] ELSE "initialized"]
  /\ registry' = registry \cup (Procs \ Spawned)
  /\ events'   = events \cup WindowEvents \cup
       {EventOf("start", p, now) : p \in {q \in Procs \ Spawned : Owner[q] \notin released}}
  /\ recording' = IF Finite /\ Warmup > 0 THEN "no" ELSE "on"
  /\ UNCHANGED <<now, signalled_at, nodes, slot, kept, kept_at, frees, pool, ended,
                 closed>>

-----------------------------------------------------------------------------
(* The event loop *)

Tick ==
  /\ Idle /\ events # {} /\ \A e \in events : e.at > now
  /\ now' \in {e.at : e \in events} /\ \A e \in events : e.at >= now'
  /\ UNCHANGED <<phase, current, events, signalled_at, nodes, pstate, memory, pool,
                 flags>>

Takes(e, kinds) == Idle /\ e \in events /\ e.at = now /\ e.kind \in kinds

(* deferred_process_start hands the process to the engine.                  *)
RunDeferred(e) ==
  /\ Takes(e, {"deferred"})
  /\ events' = (events \ {e}) \cup {EventOf("start", e.proc, now)}
  /\ UNCHANGED <<phase, current, now, signalled_at, nodes, pstate, memory, pool, flags>>
RunStart(e) ==
  /\ Takes(e, {"start"})
  /\ events'  = events \ {e}
  /\ current' = e.proc
  /\ pstate'  = [pstate EXCEPT ![e.proc] = "running"]
  /\ UNCHANGED <<phase, now, signalled_at, nodes, memory, pool, flags>>

(* A wakeup of a finished process does nothing.  An interrupt ends all that *)
(* its process awaits, timers included.  The others end its wait for the    *)
(* unit; a hold that they cut short cancels its timer, unless the signal is *)
(* the 0 of a bare resume.                                                  *)
Cut(e) == CASE e.kind = "interrupt" -> {Timers}
            [] e.kind = "hold"      -> {{}}
            [] OTHER                -> {{}, {"hold"}}
RunWakeup(e) ==
  LET p == e.proc
  IN  /\ Takes(e, {"hold", "timer", "interrupt", "resume"})
      /\ IF p \in Running
         THEN /\ current' = p
              /\ waiting' = waiting \ {p}
              /\ \E cut \in Cut(e) :
                   events' \in PassedOn(events \ (Of({p}, cut \cup {"grant"}) \cup {e}),
                                       {p} \ unit)
         ELSE events' = events \ {e} /\ UNCHANGED <<current, waiting>>
      /\ UNCHANGED <<phase, now, signalled_at, nodes, pstate, memory, unit, flags>>

(* A granted process takes the unit, or, when another was faster, waits on. *)
Grantable(p) == p \in waiting /\ unit = {}
RunGrant(e) ==
  LET p == e.proc
  IN  /\ Takes(e, {"grant"})
      /\ events' = events \ {e}
      /\ IF Grantable(p)
         THEN unit' = unit \cup {p} /\ waiting' = waiting \ {p} /\ current' = p
         ELSE UNCHANGED <<pool, current>>
      /\ UNCHANGED <<phase, now, signalled_at, nodes, pstate, memory, flags>>

(* A scheduled function starts, and returns.                                *)
RunCall(e) ==
  /\ Takes(e, {"call"})
  /\ events' = events \ {e} /\ current' = Hook
  /\ UNCHANGED <<phase, now, signalled_at, nodes, pstate, memory, pool, flags>>
CallReturns ==
  /\ phase = "running" /\ current = Hook /\ starting[Hook] = <<>>
  /\ current' = NoProc
  /\ UNCHANGED <<phase, sched, nodes, pstate, memory, pool, flags>>

(* retire_spawned_process: the slot is emptied once, the structs of earlier *)
(* instants are freed, and this one is kept.                                *)
FreedBefore_Now(t) == {p \in kept : kept_at[p] <= t}
FreedBefore(t) == {p \in kept : kept_at[p] < t}
Unregistered_Never(S) == registry
Unregistered(S) == registry \ S
Retire(e) ==
  LET p    == e.proc
      gone == FreedBefore(now)
  IN  /\ Takes(e, Retirements)
      /\ events' = events \ {e}
      /\ IF p \in slot /\ pstate[p] # "running"
         THEN /\ frees'    = [q \in Procs |-> frees[q] + (IF q \in gone THEN 1 ELSE 0)]
              /\ registry' = Unregistered(gone)
              /\ kept'     = (kept \ gone) \cup {p}
              /\ kept_at'  = [kept_at EXCEPT ![p] = now]
              /\ slot'     = slot \ {p}
         ELSE UNCHANGED memory
      /\ UNCHANGED <<phase, current, now, signalled_at, nodes, pstate, pool, flags>>

RecordStart(e) ==
  /\ Takes(e, {"record_start"})
  /\ events' = events \ {e} /\ recording' = "on"
  /\ UNCHANGED <<phase, current, now, signalled_at, nodes, pstate, memory, pool, ended,
                 closed>>
RecordStop(e) ==
  /\ Takes(e, {"record_stop"})
  /\ events' = events \ {e}
  /\ recording' = IF recording = "on" THEN "off" ELSE recording
  /\ UNCHANGED <<phase, current, now, signalled_at, nodes, pstate, memory, pool, ended,
                 closed>>

(* A deferred start and the start it hands on have one priority, and the    *)
(* end of the window was queued before both: it never comes in between.     *)
StopProcesses(e) ==
  /\ Takes(e, {"stop_processes"})
  /\ \A f \in events : f.kind = "start" => f.at > now
  /\ EngineExit(Stopped, StartsCancelled \ {e})
  /\ Finished(Stopped)
  /\ closed' = TRUE
  /\ UNCHANGED <<phase, current, now, signalled_at, node, released, memory, recording,
                 ended>>

-----------------------------------------------------------------------------
Init ==
  /\ phase = "setup" /\ current = Hook
  /\ now = 0 /\ events = {} /\ signalled_at = -1
  /\ node     = [m \in Models |-> IF m \in Dynamic THEN "absent" ELSE "static"]
  /\ starting = [a \in Actors |-> <<>>]
  /\ released = {}
  /\ pstate   = [p \in Procs |-> "none"]
  /\ slot = {} /\ kept = {} /\ registry = {}
  /\ kept_at  = [p \in Procs |-> 0]
  /\ frees    = [p \in Procs |-> 0]
  /\ unit = {} /\ waiting = {}
  /\ recording = "no" /\ ended = FALSE /\ closed = FALSE

Calls(a) ==
  \/ \E m \in Models : Spawn(a, m) \/ Release(a, m)
  \/ Start(a) \/ Finish(a) \/ EndTrial(a) \/ Fail(a)
  \/ \E q \in Procs, kind \in {"interrupt", "resume"} : Interrupt(a, q, kind)
  \/ \E d \in Delays : TimerSet(a, d) \/ Hold(a, d) \/ Schedule(a, d)
  \/ \E e \in events : Unschedule(a, e)
  \/ Suspend(a) \/ Acquire(a) \/ GiveBack(a)

Loop ==
  \/ Tick \/ LoopOver \/ CallReturns
  \/ \E e \in events :
       \/ RunDeferred(e) \/ RunStart(e) \/ RunWakeup(e) \/ RunGrant(e) \/ RunCall(e)
       \/ Retire(e) \/ RecordStart(e) \/ RecordStop(e) \/ StopProcesses(e)

(* The thread goes on to the next trial.                                    *)
Done == phase \in {"over", "abandoned"} /\ UNCHANGED vars

Next == SetUp \/ (\E a \in Actors : Calls(a)) \/ Loop \/ CleanUp \/ Done

Spec == Init /\ [][Next]_vars
=============================================================================
