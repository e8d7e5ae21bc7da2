# Cimba-Python in TLA+

A verification project for Cimba-Python (`src/`): discrete-event simulation
models are written as Python classes, compiled with Numba, and run as *trials*
on the C engine Cimba. The project follows a model through its life:

1. the user constructs and edits models, and an experiment takes a tree of them
   (`Assembly`);
2. their classes are laid out as records, and model code is compiled against
   these (`Classes`, `Handles`, `Compiled`);
3. a trial runs from setup to cleanup (`Trial`), and its processes compete for
   resources (`Resource`);
4. an experiment runs many trials on rows of generated inputs (`Draws`,
   `Experiment`);
5. a study searches over experiments (`Space`, `Study`, `Ledger`).

What can go wrong in a trial is not data races but *order*: interrupts, timers,
preemptions, grants and capacity changes of the same instant reach a process in
an order nobody wrote a test for, and calls that wait resume in a world that has
moved on. What can go wrong on the host is *staleness*: caches, copies, frozen
trees and memorised addresses that must still mean what they meant.

The engine itself (`cmb_*`, `cmi_*`) is a git submodule that is not in the
repository, and SciPy is a library. What the models need of them is read off the
way `src/src/cimba` uses them, and is marked external in the map.

## 1. Inventory

Paths are relative to `src/src/cimba/`.

| Component | State it keeps | Operations | Talks to | What is hard |
|---|---|---|---|---|
| **Resource pool** `native/resource.c` | capacity, in_use, holdings by rank and grant time, holdable tags, the guard's waiting room, usage history | acquire, preempt, acquire_any, release, set_capacity, reprioritize, drop, reports | engine guards and event queue, process verbs, conditions that observe it | greedy claims that keep their place, rollback after an interrupt, preemption of waiting and holding processes, stale grants, lowered capacity |
| **Process verbs** `native/nbshim.c` | engine process status, wait keys and signals, timers, priorities | hold, condition wait and signal, timer_set, timers_clear, interrupt, resume, stop, priority_set, exit | everything that suspends | which of several wakeups of one instant arrives first, timers that outlive the wait they were set for |
| **Trial lifecycle** `native/trial.c`, `native/abi.h` | phase of the trial, window flags, RNG, event queue, error text, start and stop lists | run_trial, start of processes, record start and stop, end_trial, stop_processes, fail, abandon and clean up | host runner, spawned models, inputs | failure by a long jump from any depth; callbacks that run while processes are being stopped |
| **Spawned models** `native/trial.c`, `compiler/spawning.py` | node tree, process slots, retired processes, index of live nodes | spawn, start, release, retire, sweep, freeing | trial lifecycle, handles held by model code | freeing memory that a pending event or a running process still refers to |
| **Typed queues** `native/verbs.c`, `compiler/handles.py` | queue contents, relays of their guards | put, get, peek, position, cancel for buffers, object and priority queues | engine queues, conditions | the verb of a handle must reach the function of its kind; forwarding signals to observers |
| **Fractional container** `native/fractional.c` | level in fixed point, capacity, history | put, get, set level | engine guards | rounding, limits, an interrupted put or get that moved part |
| **Inputs and native streams** `native/inputs.c` | cursor, exhaustion flag and policy per input | next, at a time bucket, remaining, source hooks | experiment runner | a trial that ran out must be rerun with a longer row and begin the same way |
| **Experiment runner** `experiments/` | cached rows, blocks of a chunk, results of chunks and of structural variants | run, only, extend and rerun, seed, merge, report inputs | compiled entry points, inputs, sources | a cache in a memory limit, reruns, chunks that must not show in the results |
| **Binding of objects to records** `experiments/snapshot.py`, `layout/`, `schema/` | schemas and layouts of classes, the tree of an experiment, its variants, the image of a trial | assemble, validate, size, bind, number observations | compiler, runner, the user's live models | shared objects, defaults copied once, edits after the tree was taken |
| **Model compiler** `compiler/` | compiled classes and their function tables; none at run time | type, lower and compile model methods; views, casts, dispatch, spawn sites | native functions, records | a record read through a base class, missing references, overrides |
| **Array views** `compiler/arrays.py` | place of two words of a record | index, iterate, len | spawned models | a view of a released model |
| **Modeling language** `modeling/` | what is set on models, entities and lists | construct, assign, sweep, observe, attached hooks | assembly | copies of class defaults that must stay together; templates that must not change |
| **Optimizer** `optimize/` | evaluated candidates, budget, phases of a run, the user's configuration | evaluate, run, progress callback, apply, experiment | runner, SciPy | cached and failed evaluations, a budget that ends a search, restoring the model |
| **Input sources and fitting** `inputs/` | fitted structure, data of a source | generate a row, fit | experiment runner | a longer row must begin with the shorter one |
| **Random draws, results, analysis, diagrams, engine host boundary** | none that changes during a trial | draw, summarise, draw pictures, register symbols | - | - |

What makes each of them correct:

- **Resource pool**: units in use are exactly the units held; no claim exceeds
  the capacity of the moment; a suspended request can always still be woken and
  is never woken for another wait; the waiting room holds the requests that
  wait, at their ranks; only lower-ranked holders are evicted; what ends leaves
  nothing behind; a free unit never stays beside a waiter; an interrupted call
  gives back what it took.
- **Process verbs**: a wait ends once, with the signal meant for it.
- **Trial lifecycle**: recording is open exactly in the window; after the stop
  nobody runs; everything created is freed once on every way out.
- **Spawned models**: no event, grant or handle reaches freed memory; every
  node is freed once; a released model takes no further step.
- **Binding, modeling language**: a tree holds each model once; variants share
  them; references and observers stay in their own tree and instance.
- **Model compiler, array views**: a value is what its type says, whatever base
  class it was seen through; a call runs the method it names; an access stays
  inside a live buffer.
- **Experiment runner, inputs, sources**: a trial's outcome depends on its point
  and seed alone; rerunning on a longer row reproduces the run so far.
- **Optimizer**: every candidate is paid for once; the answer is the best
  finalist; every call ends; the user's model is left as it was.
- **Typed queues, fractional container**: contents are conserved and bounded;
  waiters on both sides are not stranded.

The hazards that follow from this, line by line, are in `PROJECT.json`.

## 2. Plan

| # | Modules | What they model | State |
|---|---|---|---|
| 1 | `Engine`, `Resource`, `ResourceProps`, `ResourceProofs`, `ResourceQueueProofs`, `ResourceUnitsProofs` | `cb.Resource` with everything that may happen to a process that holds or waits | done, thirteen theorems |
| 2 | `Trial`, `TrialProps`, `TrialProofs` | run_trial from setup to cleanup, spawned models, release and freeing, failure | done, seven theorems |
| 3 | `Space`, `Study`, `StudyProps`, `Ledger`, `Counting`, `StudyProofs` | the optimizer; `Study` implements the abstract `Ledger` | done, six theorems |
| 4 | `Draws`, `Ordered`, `Experiment`, `ExperimentProps`, `ExperimentProofs` | rows of inputs composed with the host's chunks, cache, extension and rerun | done, eight theorems |
| 5 | `Classes`, `Handles`, `Compiled`, `CompiledProps`, `CompiledProofs` | schemas, layouts and handles composed into the heap that compiled code works on | done, five theorems |
| 6 | `Assembly` (EXTENDS `Classes`), `AssemblyProps` | the user's models, trees, variants, the trial image | done |
| 7 | proofs | trees and variants of `Assembly` | planned |
| 8 | `AcquireAny` (EXTENDS `Resource`) | one request in several waiting rooms, its grant hook, `settle_tags` | planned |
| 9 | `UnitPool` | what a pool promises in one page; `Resource` refines it | planned |
| 10 | `ConditionWait` | conditions, their observers, and the relays of typed queues | planned |
| 11 | `FractionalContainer` | fixed-point level, limits, interrupted transfers | planned |

`AcquireAny` would add actions to `Resource` and share its state; `UnitPool` is
instantiated by `Resource` with `held <- holding` amounts. All recursion in the
modules is by recursive functions or folds, so that each can be proved about.

## 3. The resource pool

### Modules

- `Engine` holds what is external: the signal values, the order of a waiting
  room (rank, then sequence number) and the rule that a guard's signal looks at
  the front entry only.
- `Resource` is the state machine.
- `ResourceProps` states its properties.
- `MCResource` gives TLC its small instances, and the `.cfg` files choose.
- `ResourceProofs` proves for every instance that units are conserved,
  `ResourceQueueProofs` that waiting rooms, grants and what a call has taken are
  right, and `ResourceUnitsProofs` what may be taken and from whom.

### State and actions

`current` is the coroutine that runs: a process, a scheduled function (`Hook`),
or none, when the event loop picks an event. `due` are the events of this
instant, `later` the timers of later ones. Events of an instant are dispatched
in *any* order: priorities of events and of processes order them in the engine,
and model code may set those at will, so the model covers every order. Time is
abstract: when nothing is due, some non-empty set of timers becomes due together
(`Tick`), which covers all relative delays.

`queue[r]` is the guard's waiting room, `holding[r][p]` the item of the
`holders` hashheap, `tags[p]` the holdable list of the process, `awaits[p]` the
awaitables list, `call[p]` the local variables of `acquire_inner` (`rem_claim`,
`initially_held` and so on), and `sampled[r]` the last history value.

`acquire_inner` runs without a break up to its wait, but it changes shared state
on the way, so its body is a handful of steps between which nothing else may run
(`Inside`): `Acquire` (entry), `ClaimAll` or `ClaimSome`, `Evict` (one turn of
the preemption loop), `EnterQueue`, then, after the wakeup, `WaitOver` (the
epilogue of `wait_placed`), and one of `Retry`, `Thrown`, `RollBack`, `GiveUp`
and `ResetMissing`. `ResetMissing` is the path where the code dereferences an
item that is not in the hashheap: the trial is `"broken"` and the model says
nothing of what follows. The other entry points are one action each (`Release`,
`PrioritySet`, `Interrupt`, `Resume`, `TimerSet`, `TimersClear`, `Hold`, `Exit`,
`Stop`), or a short loop (`SetCapacity`, `ShrinkEvict`, `ShrinkDone`; `Drop`
once per tag of a process that ends). Calls with bad arguments, which fail the
trial, are `CallFails`.

Abstracted: the usage history is its last value; names, reports and number
formats are left out; delays are abstract; item numbers of the hashheap are the
process itself, as a process has at most one holding of a resource. `due` and
`later` are sets, so wakeups of one instant that agree in kind, process and signal
are one, and so are two timers of a process with one signal: a process that holds
again while an earlier hold's timer is pending (`Hold` allows it) has one timer,
which is due at either time. What is lost is a second wakeup that finds its
process no longer waiting for it, or waiting for something else.

### Runs

| Run | Instance | Shows |
|---|---|---|
| `resource` | 3 processes, 2 units; one asks for 1, one for 2, one preempts for 2; interrupts and bare resumes at any time | conservation, faithful tags, amounts of a call that add up, no forgotten waiter, grants that wake only their own wait, samples that never understate |
| `capacity` | 1 unit, capacity set to 0 or 2 in both modes by a process; timers; one preemptor | types (no subtraction below zero), never oversold, no free unit beside a waiter |
| `ranks` | 1 unit, plain and explicitly ranked requests, priorities set, processes stopped and the trial failed by a hook | waiting rooms faithful to the calls, only lower ranks evicted, what ended leaves nothing |
| `stranded` | violation | a wait that times out gives units back without a signal |
| `oversold` | violation | a call that is preempted while it waits, then resumed as if granted and interrupted, rolls back to units that somebody else holds |

### Bounds, and why they are enough

`Procs` has three members: a caller, a competitor, and one who interferes. Each
pairwise race (holder with preemptor, grant with interrupt, waiter with waiter)
has a third process to observe or disturb it. `MaxRequests` bounds the requests
that get a place in line, `MaxTime` the instants, so timers set before and after
a wait both occur. Two units with a two-unit request are the least in which a
call takes part of what it wants and waits for the rest. `EPISODE_MAX` is 1 or 2 in
the runs where the code has 2^20: keys of two and of three waits are told apart,
saturation (line 336) is then reached, and `GrantsAreCurrent` says what still holds
beyond it. No symmetry is used: handles
order evictions. Deadlock checking is off: a trial ends when its processes have
and nothing is due, and the bounds stop it earlier.

### Fairness

None is assumed: all properties are safety properties. `NeverForgotten` and
`NoStranded` are the safety side of progress (a waiter always has something that
can wake it; when an instant is over no free unit is left beside one). That a
waiter is eventually served depends on model code, which may hold a unit forever.

### What the code does not keep

Run `stranded` shows that units given back by an interrupted call are not
signalled (`resource.c:522-526`): a waiter sleeps beside a free unit.

Run `oversold` shows that a rollback may take units that are not there
(`resource.c:516`), so the usage exceeds every capacity the resource has had,
against "The usage never exceeds the largest capacity the resource has had"
(`resource.c:891`). A call that holds units waits for more; it is preempted of
all it holds; a bare `resume(0)` wakes it before the interrupt of the preemption
does, it takes a unit that is free, so a holding exists again, and waits on; a
further interrupt then makes it roll back to what it held at first, which it has
lost. The wakeups are of one instant, and priorities of events decide which comes
first.

More behaviours contradict the documentation and are in the model:

- an interrupt with its default signal, -1, is what `acquire_inner` reads as a
  preemption (`resource.c:508`), so the call keeps what it had taken, against
  `docs/reference/modeling.rst:263-264`. No run sends it (the interrupts of the
  runs have another signal, preemptions have this one): the theorems hold for
  interrupts with any integers, -1 included;
- a rollback restores the rank that the call noted (line 517), so a holding that
  tracks its process has the rank from before a `priority_set` made while the call
  waited, against `docs/concepts/entities.rst:196-198`, "`priority_set` re-ranks
  both". `OnlyLowerEvicted` fails then. `ranks` sets priorities, and has neither
  interrupts nor timers that would roll a call back; the theorem `OnlyLowerLose`
  names the condition;
- a process that is preempted while it waits for more, and then interrupted in
  the same instant, rolls back to a holding that no longer exists
  (`resource.c:515`); the model ends there as `"broken"`.

The passing properties are stated so that they hold *with* these behaviours,
never by leaving them out: `CallsAddUp` excuses a call only while its preemption
is on the way, and `capacity` checks `NoStranded` in an instance where every
request is for one unit, so that a waiting call has never taken anything it
could give back silently; the theorem `NobodyStranded` says for which instances
in general.

Other divergences seen while reading, without a run of their own: a new request
takes free room without looking at the queue (`resource.c:466`, against
`modeling.rst:270`); a bare `resume(0)` leaves the timer of the hold it ends
(`nbshim.c:1037`), which ends a later wait early, and no property forbids that;
dropping units on a stop writes no sample (line 188).

### Proofs

All theorems hold for every number of processes and resources and every choice
of requests, capacities, priorities and signals. The assumptions are those
`Resource` names: finitely many processes, numbered; pseudo-processes that are
none of them; naturals and integers where the code has them. They say nothing of
`StopPassesOn`, so all theorems but the last one, `NobodyStranded`, hold for
either behaviour of the engine's stop.

**Units are conserved** (`ResourceProofs`): `TypesHold`, `UnitsAreConserved` and
`TagsAreFaithful`. None of the three is inductive alone. `Conservation` is
strengthened to `Counted`, the same equation said with the set of units each
holder has; a step changes one or two columns of it, and the lemmas on `Units`
(`ColumnSize`, `CountChange`) turn this into arithmetic. That a subtraction stays
above zero needs `Counted`; that an evicted holder is not the caller itself,
whose entry would be overwritten in the same step, needs `CallerRanked`: inside a
call the holding of the caller ranks at the rank of its request, and victims
strictly below it. `CallerRanked` needs `CallKnown` (a process inside a call has
one, a process outside has none) and `OneRuns` (inside a call of p, nobody else
acts). `IInv` is the conjunction.

**Waits are answered** (`ResourceQueueProofs`): `QueueIsFaithful`,
`NobodyIsForgotten`, `CallsAlwaysAddUp`, `HistoryNeverUnderstates`,
`EndedLeaveNothing`, and for steps `GrantsStayCurrent`. The invariant `QInv`
says, on top of `IInv`:

- `Requesting`: an entry is that of the call its process is inside of, with its
  rank, and of the resource it names, before the wait is over;
- `Reached`, per process: one that waits has its entry, its grant, or the
  interrupt of a preemption on its way. A preempted waiter loses its entry with
  the same step that queues the interrupt, so the three cases follow one another
  without a gap; `AddsUp` excuses a call in that last case only;
- `EventsLive`: an event is for a process that has not ended, and is one that its
  state allows; a grant has a key that was given out;
- `DyingEnds`: what is still to be dropped belongs to one process, which has no
  entry and no event;
- `Sampled`: the history's last value is at least the usage. It is not equal: the
  units dropped by a stop are not sampled.

**Nothing is oversold** (`ResourceUnitsProofs`): `NothingIsOversold` for steps,
and `UseStaysWithinLargest`, under `LoudWakes`, that no interrupt or bare resume
carries the success signal. This is what run `oversold` shows to be needed. The
invariant `KInv` says that a call that is not told of a preemption has at least
what it held at the start, so its rollback only gives back: with loud wakes the
first wakeup after a preemption ends the call, and its holding is then gone. The
other steps that take units look at the room first. `UseStaysWithinLargest`
follows since a capacity that shrinks stays below the largest there was.

**Only lower ranks lose** (`OnlyLowerLose`): for steps, under `SteadyRanks`, that
either priorities are not set or no signal makes a call roll back. `TInv` says
that a holding which tracks its process has its priority, and, for the first
case, that the rank a call notes for its rollback is that priority. With both, a
rollback restores a rank from before a `priority_set` (line 517), and a holder
may then lose units to a request below its own priority.

**Nobody is stranded** (`NobodyStranded`): when an instant is over no free unit
is left beside a waiting request, under `LoudEnds`. Each part of that condition
closes one way in which the code gives up a chance and tells nobody:

- requests are for one unit, or no signal makes a call roll back: a call that
  has taken part of what it wants and gives up does not signal
  (`resource.c:522-526`, run `stranded`);
- no wakeup carries `CMB_PROCESS_CANCELLED`, which `wait_placed` does not pass on
  (line 362): such an interrupt, after a grant in the same instant, loses it;
- a process that may be stopped is stopped by an engine that passes its grant on
  (`StopPassesOn`), as one that holds nothing would otherwise be dropped in
  silence.

Without either of the last two TLC finds a stranded waiter in the instance of run
`capacity` as well. `NoStranded` speaks of the ends of instants only, so it says
nothing inductive about the steps in between. The invariant `SInv` does:
`Answered(r)` says that r is full, or nobody is in its room, or it is `Handled`:
somebody is going to look at it. That is a shrinking capacity or a tag to be
dropped, each of which ends in a signal, or an `Opportunity`: a caller whose entry
has left the room and who has not looked yet, from the grant through `woken` and
`settle` up to its next claim. A step that ends an opportunity fills the room
(`Full`: a call goes on without all it wants only when it has taken all there is),
or signals and so hands the chance to the request in front (`SignalAnswers`), or
gives back nothing (`Untaken`: a call of one unit has taken none before it is
done). `SignalAnswers` needs that a room with an entry has one in front
(`FrontOccurs`): the entries are finitely many and no two are of one time. At the
end of an instant no event is due, so by `Reached` every waiter still has its
entry, no opportunity is left, and `Answered` becomes `NoStranded`.

Nothing of this section is only model-checked.
There is no recursion in these modules: units are counted by the cardinality of
a set.

## 4. The trial

### Modules

- `Trial` is the state machine of one trial, from the setup hooks to the cleanup.
- `TrialProps` states its properties, `MCTrial` gives TLC its instance.
- `TrialProofs` proves all of them for every instance.

It composes with the pool through one abstract resource of one unit (`unit`,
`waiting`): enough for a process that ends to hold or await something, and to
hand it to another. What a pool does in detail is `Resource`'s subject; what
matters here is which *structs* a pending event may still reach.

### State and actions

`phase` is the stretch of `run_trial`: hooks of the setup, the event loop, hooks
of the end, and the two ways out, `"over"` and `"abandoned"` (a long jump to the
handler). `events` is the engine's queue with the time of each event; any event
of the present instant may come next, as priorities decide and model code sets
them, except that the stop of the window, which was queued first, never comes
between a deferred start and the start it hands on. `Tick` moves the clock to
the earliest event.

| In the model | In the code |
|---|---|
| `Spawn`, then `Start` | `cpy_model_allocate`, the on_start hooks, and the rest of `cpy_model_start`; other calls, a release of the new model too, may come in between |
| `RunDeferred`, `RunStart` | `deferred_process_start` and the engine's start |
| `Finish`, `Leaves`, `exits_without_sweep` | the return of a process callback, with the engine's exit or with the shortcut that skips its sweeps |
| `Release`, `WithoutStarts` | `cpy_model_release`, `stop_model_process` |
| `Retire`, `FreedBefore`, `kept`, `kept_at` | `retire_spawned_process` and the ring of retired processes |
| `StopProcesses`, `Stopped`, `StartsCancelled` | `stop_processes` and the cancelled starts of spawned models |
| `EndTrial`, `Fail`, `LoopOver`, `CleanUp` | `cpy_end_trial`, `cpy_trial_fail` with the abandonment, the end of the loop, and the cleanup |
| `Interrupt`, `signalled_at` | `cpy_process_interrupt`, `cpy_process_resume`, which note the time for `exits_without_sweep` |
| `TimerSet`, `Hold` | `cpy_process_timer_set`, which replaces all timers of the process, also what an earlier hold left, and `cpy_process_hold`, which adds one |
| `EngineExit`, `Returned`, `PassedOn` | the engine's exit and stop: wakeups are swept, a unit goes to a waiting process; a grant on its way to a process that is stopped is passed on or lost, either of which the engine may do |
| `registry`, `frees` | the engine's list of objects freed on abandonment, and a count of the frees of each struct |

`Code` says which calls the model code of each process, and of hooks and
scheduled functions, makes. A process is reached through the handle that
`this_process()` gave it while it ran (`Known`). Two constants restrict what model code does:
with `LateHandles = FALSE` a handle is no longer used after the instant in which
its process was retired, and with `LateSpawns = FALSE` scheduled functions do not
spawn after the end of the window. They are assumptions about model code, which
nothing in the code enforces; lifting either breaks `NoDangling` or
`NoneOutlivesWindow`. `events` is a set, so wakeups of one kind, process and time
are one.

### Runs

| Run | Instance | Shows |
|---|---|---|
| `trial` | a static process and a spawned model of two; hooks and scheduled functions that spawn, release and fail; warmup 1, duration 1, cooldown 0 | no event refers to a freed struct; every struct freed exactly once on every way out; an exit that skips the sweeps leaves nothing and hands its unit on; nothing of a released model runs again; recording is open in the window and only there; after the stop nobody runs or is about to start; a trial never gets stuck before it is over (deadlock is checked) |

### Bounds, and why they are enough

One spawned model of two processes has each interplay of the lifecycle: a
process that ends by itself, one that is stopped by the release of the other,
one released before its start, one retired while the other's struct waits to be
freed. The static process is the actor from outside whose handles and units the
two share. `MaxTime = 3` reaches one instant past the end of the window at 2,
and delays of 1 put wakeups before, at and after warmup and stop. A model
is spawned once; a second incarnation of it would be another node and other
structs, as nothing is reused.

### Fairness

None: the event loop is a `while` of one thread, and the properties are safety
properties. That it ends depends on model code (a process may hold forever in a
trial without a window).

### What the code does not keep

- `end_trial` clears the event queue and then ends its caller; if the caller
  holds something that is waited for, the grant is queued after the clearing,
  and the loop goes on without the events of its window. `WindowRecorded` and the
  last part of `EndsClean` therefore say nothing of a trial that was ended.
- With `LateHandles = TRUE`, an interrupt through a handle of an earlier instant
  reaches a retired process, and the struct is freed before it arrives, against
  the comment on the ring of the retired ("it can't be reached by any of them").
- With `LateSpawns = TRUE`, what a scheduled function spawns after the stop runs
  on, against "all processes are stopped".

Not in `Trial`: entities other than processes, captures of results, relays of
observers, exhausted inputs, the hash index of nodes, arrays of models and the
doubling of the ring of the retired.

### Proofs

`TrialProofs` proves, for any processes, models, model code, delays and window:
`FreedOnce`, `WindowRecorded`, `EndsClean` and `ReleasedStaysQuiet` of every
trial, `NoDangling` under `~LateHandles`, and `NoneOutlivesWindow` under
`~LateSpawns`. The other assumptions are the named ones of `Trial`: owners are
models, `Hook` and `NoProc` are no processes, times are natural numbers and the
duration is positive. `MaxTime` bounds what TLC explores and plays no part in the
argument.

The invariant `IInv` says, one part each:

- `Pending`: nothing that is pending lies in the past, and all but timers and
  callbacks is of this instant (`InTime`); an event finds its process in the
  state it was made for (`Reaches`: a start one that has not started and was not
  released, a timer one that runs, a grant one that waits, a retirement one that
  ended or was released); the two events of the window are at its bounds
  (`InWindow`).
- `Structs`: a created process is in the registry until it is freed; one of a
  spawned model is in its slot, kept or freed; one in no slot will not run.
  `FreedOnce` follows, for the three ways a struct is freed.
- `Runs`, `StartsOnce`, `StaticProcs`, `Allocations`: only a running process that
  waits for nothing acts; a process has one start; models are started once, by
  the actor that is inside of their start.
- `Window`, `Shut`: which of the window's events are still to come in each state
  of the recording; nothing runs, starts or is half started after the stop.

`NoDangling` itself is not inductive, as a struct is freed while events are
pending. `Harmless` strengthens it to structs that could be freed now: a start or
wakeup is for none that was freed *or was kept at an earlier instant*. A process
that is kept ended (or never began), so it has no timer, wait or start; what is
pending for it is an interrupt or resume, of this instant by `InTime`. `Tick`
needs that nothing of this instant is left, so when the clock has moved on nothing
is pending for it, and the next retirement may free it. This is where
`LateHandles` is needed: a handle used later would add a wakeup for it.

That an exit without the engine's sweeps leaves nothing behind is the lemma
`NothingToSweep`: timers and holdings are excluded by the test, waits and grants
by `Runs`, and interrupts and resumes because `signalled_at` lies before this
instant, while `InTime` says that it does not when one is pending. The four calls
that end processes are instances of one operator, `Ending`, and share their lemmas.

## 5. The optimizer

### Modules

- `Space` is the arithmetic of decisions: domains, lattices, logarithmic
  coordinates, `Decode`, `Encode`, decisions mapped from others, and the values
  that fields are given.
- `Study` is the state machine of `Optimization`; it EXTENDS `Space`.
- `Ledger` is the abstract specification: results are bought once and kept, a
  run buys within its limit, and publishes only what it knows.
- `StudyProps` states the properties and the refinement, `MCStudy` is the instance.
- `StudyProofs` proves all but two of the properties for every instance.

### State and actions

A study is sequential: `phase` is where a call of the user is. `cache` is what the
search seeds showed of each candidate, `paid` how often that was simulated,
`simulated` what the current run spent of its budget, `proposed` its candidates
in the order in which they came up, `history` the rows not marked as cached.
`live` is the dictionary of the user's model, with an entry for each field that
was assigned; a field that was not has the default of its class. `mine` is what
the user made of it by the configuration and by what was assigned or applied
since, and `saved` the copy that `experiment()` puts back.

| In the model | In the code |
|---|---|
| `Evaluate`, `Refuse` | `Optimization.evaluate` at explicit values, and values that it or `experiment()` refuses: all but the root decisions, once each |
| `StartRun`, `Generation`, `SearchStopped`, `Callback`, `MaxIterReached` | `run` up to the end of the search: the objective SciPy calls, the budget before and after a generation, the progress function |
| `Simulate`, `Raises`, `Lose` | `_evaluate` with its cache and `on_failure`, and a batch whose objective raises |
| `ProgressRaises`, `ObjectiveRaises` | a progress function, or the objective of the finalists and of the estimate, that raises |
| `Selection`, `Estimation`, `Return` | finalists on fresh seeds, the estimate of the best, the `Optimum`, applied or not |
| `Edit`, `BeginExperiment`, `EndExperiment` | the user's assignments, and `experiment()` |

SciPy's differential evolution is external: a generation may propose any
vectors, and the search may be found converged after any callback. What a batch
shows of a candidate is any member of `Evaluation`. `Exp` and `Log` are tables
that do not undo each other exactly, as floating point does not.

### Run `study`

Two decisions (an integer on a lattice with a mapped one on another field, and a
logarithmic float) and a plain field with its class's default, three vectors, two per generation, at most two generations, two
replications, one run and one more call, all failure policies, with a budget of
one generation or none. It shows:

- a candidate is simulated on the search seeds once, unless `on_failure="raise"`
  or an error of the objective lost its batch, and the history adds up to what the run says it spent;
- the answer is the best finalist, no other candidate did better in the search,
  and under `"reject"` nothing that failed is published;
- candidates lie in their domains, and a candidate named by the values of its own
  root decisions is the same candidate and hits the cache. The values of an
  `Evaluation` or of the `Optimum` name the mapped decisions as well
  (`Space.values`), and `Space.encode` refuses these (`space.py:121-122`): they can
  be given back as they are only if no decision is mapped, which `ExplicitMeansSame`
  says too;
- an experiment at some values has the study's configuration, and the user's model
  is what the user made of it whenever none is being built, also when one could not
  be built, with no entry more for fields that have the default of their class;
- every call ends (liveness);
- the study implements `Ledger`: a step of the study is a step of the ledger or
  leaves it as it is, under the mapping in `StudyProps` (`known` are the cached
  candidates, `spent` what the run simulated, `open` whether a run is under way).

The bounds: two candidates per generation are the least that can repeat within a
generation, be partly cached, or tie; with three vectors the two generations may
overlap or not; the second call, before or after the run, puts candidates into
the cache from outside or reads them. The lattice and the logarithm give both
kinds of rounding.

### Fairness

`WF_vars(Progress)`: once the user called, the host runs the call to its end; it
is a single thread that waits for nothing. The user's calls are not fair. That a
run ends then needs that generations are counted also when all their candidates
are cached (`Counted`), as SciPy's `maxiter` does.

### Proofs

`StudyProofs` proves, for every decision space, population, number of
generations and replications, outcomes, budgets, policies and calls:

- `Reuse`: `Spec => []PaidOnce`, types included;
- `Answered`: `Spec => []AnswerHolds`;
- `Configuration`: `Spec => []ExperimentFaithful`;
- `Restoration`: `Spec => []ModelRestored`;
- `Bookkeeping`: `Spec => KeepsBooks`, that is, `Study` implements `Ledger`;
- `Invariant`: `Spec => []IInv`, on which all of them rest.

The assumptions are those `Space` and `Study` name: a population and a number of
replications of at least one, something to propose, outcomes whose energy is
below the energy of what is rejected. Nothing is assumed of `Exp` and `Log`.

`IInv` has seven parts, and the properties need each of them:

- `Accounts` is `PaidOnce` made inductive: a candidate that is not in the cache
  was paid for only in batches that were lost, so paying for it once more stays
  within `raised + 1`.
- `Spending`: between runs there is no run, and a run has spent no more than its
  budget. Before the first generation nothing is spent and the budget covers a
  population; after it `Exhausted` was false. In both cases the next population
  still fits, as a batch has no more new candidates than rows (`WithinBudget`).
- `Sound`: what a run proposed is cached, and after a generation somebody is
  eligible. Later generations keep it, since candidates are only appended.
- `Finals`: the chosen finalist is the best of them.
- `Built`: what an Experiment that is being built, or was built, is of.
- `Own`: the model, or while an Experiment is built the copy that was taken before
  the write, is what the user made. `Restoration` says nothing of the copy, and is
  not inductive without this.
- `Types`.

That at most `finalists` are ranked, and nobody better is left out
(`FinalistsBounded`, `FinalistsBest`), is an argument on ranks: `Before` is a
strict linear order of the eligible, the one that comes later has more ahead of
it (`AheadGrows`), so ranks are distinct. The same counting over sets of
positions (`BelowGrows`, `RanksOccur`) shows that `Extended` appends each new
candidate once, and that a history row is marked as not cached once for each
candidate that is simulated (`UncachedCount`).

For the refinement, `StepsOfBooks` states the steps of the ledger in the terms of
the study: `StartRun` opens, `Generation` buys, or closes when it raises or is
hopeless, a good `Estimation` publishes, a bad one, `Return` and a failed
`Selection` close, `Evaluate` buys outside of runs, and the others stutter.

Only model-checked: `ExplicitMeansSame`, which depends on how far `Log` and `Exp`
are from being inverse, and `CallsEnd`, which is liveness.

## 6. The experiment and its inputs

### Modules

- `Draws` says what row a source gives: a function of source, seed, tag and
  length, for each of the bootstraps and fitted sources. Random numbers are a
  table by generator and position, `Raw`; the *order* in which a source takes
  them from it is that of the code, as prefixes depend on it.
- `Experiment` is the state machine of `Experiment.run` and `only`, with the
  native slots (cursor, policy, exhaustion) that its trials read. `Ordered` has
  the two operators on sequences it uses in place of the library's, which the
  prover cannot take apart.
- `ExperimentProps` states the properties, `MCExperiment` is the instance.
- `ExperimentProofs` proves all of them for every instance, two under conditions on
  the reads of the trials.

### State and actions

A call goes through its groups of points by structural option (`Plan`), each in
chunks of replications that fit the memory for rows (`BindChunk`), whose trials
run in any order on the workers (`RunTrial`); then those that ran out are
extended and replayed (`Extend`), and the chunk is collected (`Collect`), which
may raise, go on, or end the call. `cache` holds the rows of each option, the
least recently used first.

A trial is a fixed sequence of reads, of its own fields, of a spawned copy's, of
a time bucket, or a fault; its outcome is what it saw. That is as much of a
trial as its inputs can make a difference to. Extensions are at most two
doublings in the model; the code has six.

### Runs

| Run | Instance | Shows |
|---|---|---|
| `experiment` | five designs (joint sources read at different rates, bounded sources, policies that end a trial, spawned copies, rows that are read round past their end), three replications, common and independent seeds, three memory limits, both failure modes, two calls with and without a selection of trials | each outcome is that of rows long enough from the start, whatever the chunks, evictions, reruns, options and selection; a row is extended no more than it must be; cached rows are right and fit the memory; longer rows begin with the shorter, joint rows stay aligned; reports give the values that were consumed, of a row that was read round those of the first turn |

The bounds: the memory limits are below one row set, so that a call is refused or
chunks have one replication, between, and above all. Two calls show what a cache
filled by one call, with other seeds or another chunk, does to the next.

No fairness: all properties are safety properties.

One thing is not as the documentation has it, and `ReportsExact` says so. For a source
that wraps, `InputRecord.rows` generates a row that was read past its end anew with as
many values as were consumed (`snapshot.py:682-686`): a longer row, which goes on where
the trial had its beginning again, or none if the source may not have that many
(`inputs/sources.py:135-136`). `docs/concepts/results.rst:51` says "Regenerates the exact
values the trial consumed". What does hold, also of such a row, is that its first turn
comes back; and a source that is not prefix-stable gives its values back only when as
many were consumed as were planned. The design `RoundDesign` reads wrapping rows, bounded
and not, and a source that is not prefix-stable, past their planned ends.

Also seen: a spawned model's
copy of an input that has a row (a trace, a bootstrap, a fitted source) replays that row from its
start, the same as any other copy; only a copy of a distribution has a stream of
its own. `docs/concepts/inputs.rst:262-265` says of all inputs that "two spawned
orders don't share values".

### Proofs

`ExperimentProofs` proves, for any designs, structural options, sources and data,
seeds, memory limits, selections of trials and numbers of extensions:

- `CacheIsSound`: `Spec => []CacheSound`, types included;
- `RowsAlwaysAgree`: `Spec => []RowsAgree`;
- `ExtendsLeast`: `Spec => []LeastExtended`;
- `OutcomesAreIdeal`: `Spec => []OutcomesIdeal`, if what a spawned copy reads is
  not of a source that is extended (`CopiesReadOwn`);
- `ReportsAreExact`: `Spec => []ReportsExact`, if no static input that is not a series
  is read by bucket (`Reportable`);
- `ExperimentInvHolds`: `Spec => []ExperimentInv`, on which the first two rest,
  `OutcomesInvHolds`: `Spec => []OutcomesInv`, on which the next two do, and
  `ReportsInvHolds`: `Spec => []ReportsInv`, on which the last does.

Each has the hypothesis `RawAreNatural`: the generators give natural numbers.
(It is a hypothesis and not an `ASSUME`, since it speaks of every seed, tag and
position, which TLC could not enumerate.) The assumptions on constants are what
the code checks when it is given a source or a design: `SourceAssumption`
(`GeneratedRows`, `trace` and the constructors of the bootstraps and fitted
sources), `FieldAssumption`, `DesignAssumption` and `CallAssumption` (points bind
the fields of their option, selections are naturals), and `JointAssumption`:
sources with one tag are members of one `joint_bootstrap`, which resamples all of
them with one block length from panels of one length. TLC evaluates the four on
the instance of the run.

`RowsAgree` is about *draw functions* first. A row of `n` values begins with the
row of `m <= n` values since each value depends on raw numbers that both rows
take at the same places (`BeginsWith`, `RowIs`). That is immediate for the
independent and block bootstraps, and takes an argument where the generator is
used by need: the runs of `stationary_indices` are cut at the end of the row, so
two rows are followed run by run (`FilledIs`, `FilledAgree`), and before the cut
both have had the same runs. For `intermittent` and `sieve` it is the state after
each value (`IntermittentIs`, `SieveIs`). Two joint members take the same indices
of panels of the same length, so their values were observed together
(`JointRows`), also where one has been extended and the other has not.

`CacheSound` needs the way a chunk is planned. `ExperimentInv` says on top of
types:

- `RequestOK`, `GroupsOK`: positions are points of the design with one seed per
  replication; a group has positions of one option, and each once;
- `PlanOK`: `row_groups` has every row that a trial of the group takes, and `size`
  replications of what it has fit the memory;
- `BlocksOK`: a block has the seed and point of its place in the chunk, and its
  rows are draws of their lengths; before it ran they are the rows as planned
  (`AsPlanned`);
- `CachesOK`: a cache has each key once, with the row of that key, and after the
  chunk was bound it fits the memory.

That a cache stays sound is an argument on one lookup: rows that are found move to
the end, the others are appended, and what is trimmed is a prefix (`TrimmedIs`,
`FetchedIs`); a key is appended only if it was not found, but trimming between two
additions may have removed and never adds one. That the rows bound to a chunk fit
is counting: the keys that its blocks are bound to are those of `row_groups` with
a seed of the chunk (`CoveredFits`), a group of common seeds has one row for each
replication and otherwise one for each point and replication, so their lengths
add up to at most `size` times the sum that `_run_single` compared with the limit
(`BoundFits`). The bound of the last, shorter chunk follows from the same sum. The
folds of the model are unrolled step by step first (`AddedFold`, `WithRowsFold`,
`DoubledFold`, `SteppedFold`, `LengthsFold`), with one lemma for each helper and
then one for each action (`PlanKeeps`, `BindKeeps`, `RunTrialKeeps`,
`ExtendKeeps`, `CollectKeeps`, ...).

`OutcomesIdeal` compares two runs of one trial that never both happen: the last
rerun of a block, and the run on rows that were long enough from the start
(`Ideal`). Read by read they are twins (`TwinsGo`): they have seen the same and
their cursors are equal, until the shorter row runs out, and from then on the other
is ahead. That takes rows of which the shorter begins the longer (`RowsForGrow`,
from `RowIs` above) and that only an extended source has rows of two lengths. A
trial that ends on the rows of its last rerun has therefore the outcome of the
longest (`TwinsPlayed`, `PlayedGood`). If it fails since no row may be doubled
again, it had the longest row already and that one runs out too (`TopReached`).
`LeastExtended` follows from the same comparison between a rerun and the run before
it: the row that ran out in the shorter was read behind its end in the longer, so
more than half of what was doubled is consumed, and other rows that were doubled
before are read no less (`Tight`, `ExtendGood`).

`OutcomesInv` carries this from blocks to results. It adds to `ExperimentInv`:

- `BlocksGood`: a block is fresh, or ran out as its rows make it and no row was
  doubled in vain, or ended with a good outcome, one that agrees with `Ideal` and
  is least;
- `ChunksOK`, `PartsOK`: the chunks collected so far, joined, hold the good outcomes of
  the replications before `start`, each at its position's place in the group with
  its position's seed, and the parts those of the groups before (`GatheredGood`,
  `PartGathered`);
- `CoverOK`, `AskedOK`: each position is in a group (`GroupedCover`), and positions
  are the trials asked for: a flattened index is its point and replication
  (`FlatIndex`, `PositionIs`);
- `DoneOK`: when a call is done, what was merged is good at each position
  (`MergedGood`).

`CopiesReadOwn` is needed: when a copy runs out of a row, the code has no slot of
it and doubles every generated row of the point, one that wraps too, and a trial
that reads a wrapping row behind its end then goes on where it had the beginning
before. The comment at `snapshot.py:571-574`, "unchanged prefixes preserve the other
inputs", does not hold of those. Other instances with copies, as the one of the
run, have the property in TLC. `ExtendsLeast` needs no such hypothesis, as the
property is about trials without reads by copies.

`ReportsExact` compares what a trial saw with what is generated again after the
call, from the count it consumed. The two have no rows in common: the report takes a
row of another length, finds the count by the size of the chunks, and has neither
the block nor its rows. `Reportable` says that each field that is not a series is read
by `next`, and its static slot never by a time bucket (`InTurn`). That is how the two
kinds of fields are declared (`Input` has `next`, `Series` has `now` and `at`,
`modeling/__init__.py:47-70`), but the compiler gives either slot both
(`compiler/handles.py:340,365`). `MCExperiment` has `Reportable` as an assumption, which
TLC evaluates: it holds of the designs of the run. Nothing is asked of the sources: what
their reports cannot give back is said by the property itself (`Whole`, `Longer`).

`ReportsInv` adds to `OutcomesInv`:

- `BlocksExact`: a block that has not run is as it was bound, and if a block ended
  well, its outcome regenerates to what it saw (`Exact`). This is shown read by
  read: what a trial was told by a slot is the beginning of what its row or stream
  gives (`Told`, `ToldGoes`), so it lies within the row unless that wraps (`WithinRow`),
  and the row of the consumed length and the one that was read agree as far as both
  go (`RowAgain`, by `RowIs`), which is a turn of a row that was read round;
- `ChunksExact`: every chunk but the one under way has `size` replications, so the
  quotient and the remainder by `size` find each outcome that was collected
  (`CellsJoined`, by `QuotientIs` and `FlatIndex`); no chunk is there yet when the
  size changes (`ReportingStays`);
- `PartsExact`, `DoneExact`: the same of the parts, and of a call that is done, at
  the group and place that own a position (`OwnerIs`).

Nothing of this section is only model-checked.

## 7. Compiled model code

### Modules

- `Classes` is a class as the compiler sees it: `ClassSchema.of`, the order and
  kinds of its fields, its callback slots, `RecordLayout.of` and the offsets.
- `Handles` tables the native function that each verb reaches on each kind of
  handle, and the kinds that each of these was written for (external).
- `Compiled` composes them: the records of a trial, and model code on them.
- `CompiledProps` states the properties, `MCCompiled` is the instance.
- `CompiledProofs` proves all of them for every instance, under two conditions
  on classes that are given below. `Counting` has the facts on
  sequences, sums and finite sets of integers that it shares with `StudyProofs`
  and `ExperimentProofs`.

### State and actions

`heap` are records of words at offsets, `buffers` the arrays, `stores` the models
in stores, `compiled` and `views` the classes that compilation registered. Model
code is *any* well-typed code: it holds `self` and one more value, `other`, and a step
follows a field, narrows an optional, indexes a list, assigns a reference, calls
a method, spawns, releases, puts or gets a model, uses an entity, or touches an
array, each with the check that the compiler emits for it. A failed check
abandons the trial (`"failed"`), and so does a second release of one model. The type of a value is the one the compiler gave
it, so `ViewsSound` relates two independent things: what the type says and what
is at the address.

A record may be missing where no check is: an item of a list is what the list holds, and
`get()` of a store of models whose wait is interrupted, or ended by a timer, returns NULL
(`verbs.c:86-92`, `137-143`), of which the caller makes a record (`handles.py:741-754`).
Such a value is `unchecked`, an observation that only properties read, and so are the
places of entities and arrays inside of it. Taking the place of an entity inside reads
nothing; whatever reads, writes, calls or hands on a missing record reads at address 0,
and the program is `"crashed"` (`UseMissing`). Released arrays have the length -1, but one
of no elements has no buffer, is in no list of the model's arrays, and keeps length 0
(`Dropped`, `trial.c:382-384`).

### Runs

| Run | Instance | Shows |
|---|---|---|
| `compiled` | eleven classes with single and multiple inheritance, overrides and redeclared fields, in five trees, of which the layout refuses the unsound | values are what their types say; records hold what each base declares at that base's offsets; a call runs the method it names; native functions get the entities they were written for; array accesses stay inside live buffers of their own field |
| `missing` | violation | a model that is missing, as an item of a list may be and as an interrupted `get()` gives it, crashes the program when it is used, against "Dereferencing a missing reference abandons the trial instead of crashing" (`docs/architecture/packages.rst:134-135`) |

The bounds: one model is spawned and one stored at a time. Code that holds two
values reaches every pair of types that a cast, an assignment or an argument
relates; a second spawned model would repeat the first. Indices -1, 0 and 1 are
before, in and beyond a list or array of one item.

Also seen: `RecordLayout` accepts a `Ref` that a subclass redeclares to another
class (`layout/__init__.py:137-150` compares kinds and offsets), so a view through
the base would see a record of another class; the instance redeclares only
optionality. And an override is compared with the first base that has the
function and no other (`schema/__init__.py:331-341`), so one merged from two bases
need not take what the second promises.

### Proofs

`CompiledProofs` proves, for any classes, enums, trees, spawned classes, array
lengths and stores:

- `ValuesAreTyped`: `Spec => []ViewsSound`;
- `RecordsAreTyped`: `Spec => []HeapSound`, with the type invariant;
- `CallsRunNamed`: `Spec => []DispatchSound`;
- `NativesGetTheirKind`: `Spec => []KindsMatch`;
- `ElementsAreOwned`: `Spec => []ArraysSafe`.

Each has the hypothesis `KeepsFields /\ KeepsCalls`, defined in `CompiledProps`.
These are what the code does *not* enforce, so the theorems say how much a modeller
must add to what the compiler checks. They are the gaps of the paragraph above: a
class that declares a reference, entity or array again keeps its type, and an
override has the types of every base. `MCCompiled` has them as an assumption, which
TLC evaluates: they hold of the instance. Nothing is assumed of lists and stores: a
value that nobody looked at may be missing, and `ValuesAreTyped` says that this is the
only way in which a value of a type that is not optional may be.

Assumed of the constants are Python's order of bases (`MroAssumption`:
a class first, and the bases of its bases), that no class has the name of one of
cimba's own types, that a `Ref` or list is of models or of entities that can be
stored, and what `Assembly.of` and `_address` leave in a tree (`TreeAssumption`): an object
of a class, whose references are missing or lead to what `check_model` and
`check_entity` accepted. That the offsets of records are sound is not assumed but
proved from `Place`.

The argument has three layers.

- *Classes.* A field of a class is the last declaration of its name at the place
  of the first (`FieldsOf`), and `Record` puts each member after the one before,
  so members never overlap (`RecordSpreads`) and an offset says which field it is
  (`ShownFields`). With `Preserves`, what a base shows is in every subclass at the
  same offset, and with `KeepsSlots` a method has one slot in all of them
  (`SameSlot`).
- *Memory.* `CInv` says of the state what no single property does. `Shaped`:
  records have the words of their own class. `Filled`: references, lists and
  handles are what the record's *own* class declares, from which every base's
  view follows. `Owned`: buffers that are not freed and the words that name them
  are in step, each by its length; this makes an access through a view kept
  across a release safe. `Stocked`: a store has only models of the class of its
  field. `Known`: views are closed under what their fields and functions expose,
  so a step never reaches a class that has not been typed. `Right` is what the
  last step did, and every value in hand is `Sound`.
- *Steps.* One lemma for each action (`FollowKeeps`, `AssignKeeps`, `EnterKeeps`,
  `ReleaseKeeps`, `SpawnKeeps`, `PutKeeps`, ...). Binding a tree and spawning
  both add one record (`RecordAdded`, `FilledAdded`); binding repeats it
  (`BindsOne`), and references may lead to records that are bound later, so
  `Filled` is stated over the classes of the whole tree.

`Registered` is defined as the least set closed under `Exposed`, as the recursion
of `register_reachable_views` computes it, which is what makes `Known` provable
without following the recursion.

## 8. Models, trees and images

### Modules

- `Assembly` EXTENDS `Classes`: host objects, their construction and assignment,
  the tree an experiment takes, its variants, the image and the observations.
- `AssemblyProps` states the properties, `MCAssembly` is the instance.

### State and actions

`objects` is the host's heap: models, entities and lists with what is *set* on
each; class defaults are the first of them (`Templates`). The user constructs,
assigns, extends a list in place, and lets a condition observe a resource;
`Experiment` starts a tree at the root, `Visit` is one visit of `Assembly.of`
(defaults materialised on the owner, entities created, values checked and
frozen, children queued), `Resolve` checks references and takes the tree, then
starts the tree of the next combination of structural options, or is done. A
step that raises leaves on the user's models what it had materialised.

Layout of the image and addresses are operators on a tree, since they change no
state: `RecordOffsets`, `ArrayOffsets`, `AddressOf`, `Observations`.

### Runs

| Run | Instance | Shows |
|---|---|---|
| `models` | a shop with a default desk, a list of desks, references to a desk and to a resource, desks in desks; two edits and two experiments in any order, swept structure on one axis and swept array lengths on another | a tree holds each model once, in one field of one owner; design points run on trees of the same models, with what they bind; references land in their own tree, on a record or entity of the declared class, also after later edits; image regions do not meet; observers watch what they observe on the host, and their own instance's when it was a default; class defaults are never changed |
| `shared` | violation | one resource held by two desks: later observers are subscribed to the wrong entity |

The bounds: two edits around two experiments give each staleness its shape (edit
between build and use, materialised default found again by the second build, a
list that grows after it was frozen, a model moved under two owners).
`MaxObjects` stops construction, not the copies that an experiment makes.

Also seen, and in the model as the code has it: a list `[a, a]` is accepted and
`a` is visited once, where `docs/concepts/models.rst:275` has a model owned once; and
entity attributes are read from the live objects when a snapshot is taken
(`snapshot.py:215-244`), where line 63 says that no live model values are read
after construction.

## 9. What is only model-checked, and what is not modelled

Proved are the thirteen theorems of section 3, the seven of section 4, the six of
section 5, the eight of section 6 and the five of section 7; all other properties
are model-checked on the instances above. The modules use recursive functions and folds and no
`RECURSIVE` operator, and each keeps its assumptions on constants named, so
theorems about them can be added.

What a recursive function computes is proved where the recursion is over the
positions of a sequence: `Counting` gets least natural numbers and finite
unrollings from cardinalities (`LeastNatural`, `UnrollsFurther`), as the library's
induction rules take an operator for a parameter and no installed prover can
instantiate them. In `Experiment`, folds over a sequence of keys or reads are
unrolled in the same way. Recursion over trees of models (`Assembly`) is left to
TLC, and so are liveness (`CallsEnd`), `ExplicitMeansSame` and the properties of
section 8.

Deadlock checking is off in the runs whose system really stops: when the user's
calls, edits or builds, which are bounded, are used up, or when the trial of
compiled code has failed or was refused. `trial` checks it.

Not modelled:

- `acquire_any`: its claims depend on the order in which the engine runs a
  guard's grant hook, which is in the submodule; planned with both orders;
- condition waits, the relays of typed queues and the fractional container's
  transfers: planned;
- the hash index of live nodes and the ring of retired processes, which the
  model has as sets; so the doubling of the ring is not covered;
- emission of entry points and of LLVM code, Numba's own typing, error texts;
- random number generation and distributions, the fitting of sources (choice of
  a period or degree, estimation), results and analysis: numerical;
- symbol registration, diagrams, reports, logging and formatting: no state, or
  no property is about them.
