----------------------------- MODULE TrialProps -----------------------------
(***************************************************************************)
(* What a trial promises about lifetimes, releases and the window.         *)
(***************************************************************************)
EXTENDS Trial

(* Every variable has its type.                                             *)
TypeOK ==
  /\ phase \in {"setup", "running", "ending", "over", "abandoned"}
  /\ current \in Actors \cup {NoProc}
  /\ now \in Nat /\ signalled_at \in Int
  /\ events \subseteq Event
  /\ node \in [Models -> {"static", "absent", "allocated", "started"}]
  /\ starting \in [Actors -> Seq(Models)]
  /\ released \subseteq Models
  /\ pstate \in [Procs -> {"none", "initialized", "running", "finished"}]
  /\ slot \subseteq Procs /\ kept \subseteq Procs /\ registry \subseteq Procs
  /\ kept_at \in [Procs -> Nat] /\ frees \in [Procs -> Nat]
  /\ unit \subseteq Procs /\ Cardinality(unit) <= 1 /\ waiting \subseteq Procs
  /\ recording \in {"no", "on", "off"}
  /\ {ended, closed} \subseteq BOOLEAN

(* A retired struct is freed without sweeping the event queue for it: by    *)
(* then no start or wakeup that could reach it is pending ("it can't be     *)
(* reached by any of them", trial.c).                                       *)
NoDangling ==
  \A e \in events : e.kind \in Starts \cup Wakeups => frees[e.proc] = 0

(* Every variable has its type, and "every native object is created and     *)
(* destroyed exactly once per trial, even on abandonment"                   *)
(* (docs/architecture/native.rst), although a process may be retired by its *)
(* end and by a release, or by neither.                                     *)
FreedOnce ==
  /\ TypeOK
  /\ \A p \in Procs :
       /\ frees[p] <= 1
       /\ phase \in {"over", "abandoned"} => frees[p] = (IF p \in Created THEN 1 ELSE 0)

(* A process that ends, also one that skips the engine's exit and its       *)
(* sweeps, leaves no unit, no wait and no wakeup behind, and those who wait *)
(* for its unit have a grant on the way, unless the trial was ended.        *)
EndsClean ==
  [][\A p \in Running :
       pstate'[p] = "finished" /\ phase' = "running" =>
         /\ p \notin unit' \cup waiting'
         /\ \A e \in events' : e.proc = p => e.kind \in Retirements
         /\ p \in unit /\ waiting' # {} /\ ~ended' => \E e \in events' : e.kind = "grant"]_vars

(* "Stop this model's processes, including copies and pending starts"       *)
(* (modeling.rst): nothing of a released model runs again, whatever state   *)
(* its processes and their starts were in.                                  *)
ReleasedStaysQuiet ==
  [][\A p \in Procs : Owner[p] \in released /\ current # p => current' # p]_vars

(* Time-weighted statistics are recorded in the window only, and in all of  *)
(* it; end_trial takes the window's events away with all others.            *)
WindowRecorded ==
  /\ phase \in {"ending", "over"} => recording # "on"
  /\ phase = "running" /\ Finite /\ ~ended =>
       /\ recording = "on" => now \in Warmup .. Warmup + Duration
       /\ now > Warmup => recording # "no"
       /\ now < Warmup + Duration => recording # "off"

(* "All processes, including those of spawned models, are stopped" after    *)
(* the cooldown (docs/concepts/experiments.rst), also those about to start. *)
NoneOutlivesWindow ==
  phase = "running" /\ closed =>
    Running = {} /\ \A e \in events : e.kind \notin Starts
=============================================================================
