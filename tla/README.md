# Roxal: a TLA+ model of the runtime's coordination protocols

Roxal is a compiler, bytecode VM and runtime for a language with actors,
futures, dataflow signals and real-time execution, written in C++ (`src/`).
This directory models the parts of the runtime whose correctness depends on how
threads interleave, checks them with TLC on small instances, and proves the
most important results with TLAPS for every instance. Paths below are relative
to `src/`.

## 1. Inventory

### The parts and how they interact

| Part | State it keeps | Operations | Interacts with |
|---|---|---|---|
| **GC coordination** (`compiler/SimpleMarkSweepGC.*`) | request, window, fence and role flags; per-thread mutator contexts; RT section count; deferral depth and latch; retire queue | enterRunning/exitRunning, blockEnter/blockExit, safepoint poll, tryEnterGCSection, requestCollect, collectorThreadMain, setEnabled | every thread of the VM; `gc()` in `ModuleSys`; the VM's sleeps |
| **Mark, sweep, object lifecycle** (`SimpleMarkSweepGC.cpp`, `Object.*`, `Value.cpp`) | reference counts, colours, segments, retire queue | performCollection, decRef, strongRef, freeObjects | runs inside the window GC coordination opens |
| **MVCC snapshots** (`Object.cpp`, `ObjControl.h`) | global write epoch, latest snapshot epoch, epoch tracker; per object write/save epochs and a version chain; per snapshot a token with a clone map | createFrozenSnapshot, the mutators, resolveConstChild, cleanupMVCC, trimVersionChain | actors share the snapshots; collections trim the chains |
| **Stops** (`compiler/debug/StopCoordinator.*`, `DebugWorker.cpp`, `ExecutionDomain.h`) | stopped/forming/pending, owner bits, hold, epoch, release generation; per-thread ownership and acknowledged epoch; the worker's queue | beginStop, ackAndPark, admitOrPark, tryCommitPass, pause/resume/step, host pause and release, exit, begin/end of execution | the interpreter's loop top; the embedding host; the dataflow gate |
| **Threads** (`ThreadManager.cpp`, `Thread.*`) | registry, lifecycle queue | register, snapshot, finalize actor, join | stops (membership), GC (contexts) |
| **Actors, futures** (`Object.cpp` queueCall, `VM.cpp`) | call queues, promises, awaiting threads | call, resolve, await, die | snapshots at the actor boundary |
| **Dataflow** (`dataflow/`) | node graph, signal histories, evaluation mutex | tick, event evaluation, drain | the engine's thread is a permanent GC participant; its gate is part of a stop |
| **Compute server** (`ComputeConnection.*`, `ComputeServer.cpp`) | per end a pending table and a table of local actors; per session a registry | connect, spawn, call, reply, back-channel call, output, disconnect | actors (proxies), futures |
| **Async I/O, callbacks** | a pool; registered callbacks | submit, complete; dispatch, unregister | actors |
| **Embedding, REPL, runs** (`EmbeddedRuntime.cpp`, `ReplSession.cpp`, `VM.cpp`) | staged runs, their phase, sessions | activate, drive a slice, finalize | begins and ends executions of the stop coordinator |
| **Interpreter, compiler, libraries, transports** | the heap; trees; external libraries | sequential | reach the above at safepoints and stop points |

### What is hard

* Lock-free handshakes where each side writes one flag and reads the other's:
  RT sections against the barrier, `requestCollect` against the last deferral
  scope, `beginStop` against a commit or the end of an execution.
* Waits that nobody may leave unnotified: `safepointCv_`, the release
  generation, the worker's hand-over flag.
* Decisions taken from a value that may be stale when used: whether to save a
  version, whether a live object is old enough to clone, whether a queued
  release is still wanted, whether a fence is one's own.
* Real-time threads that may never block, so that others must do their waking.
* Deaths that arrive on two paths (a count reaching zero, the sweep) and must be
  claimed once; batches in which destructors refer to each other's blocks.
* Tables that are filled by one thread and emptied by another when something
  ends: an actor's queue at its exit, a connection's pending calls at its loss.
* Work suspended half-way (a tick at its deadline, a body with a pending future)
  and resumed in a network that has moved on.

### What makes each part correct

* GC: nothing runs during a collection; one collector; no marking during
  reclamation; waiters resume only behind the fence; requests are served; no
  waiter is stranded; `gc()` has collected when it returns; shutdown ends.
* MVCC: a snapshot never shows a later write; the version it needs is found.
* Stops: nothing runs while stopped; the host's hold is released only by the
  host; no parked thread is forgotten; every published stop is resolved.
* Lifecycle: an object dies and is destroyed once, never while a thread can
  reach it; no death path touches a freed block; every death is reclaimed.
* Actors: every queued call is answered although its actor may be stopping;
  an awaiting thread is woken; a combinator is told of each input once; quitting
  and joining end.
* Compute: a call runs on the actor it names; a lost connection fails every
  call in flight and strands none; a call's output precedes its result.
* Dataflow: consumers settle on the latest values; only real failures are
  reported (violated, section 4); a tick that is sliced, suspended or overtaken by a rebuild shows one
  consistent tick and ends.

`PROJECT.json` lists every component and every hazard at its line.

## 2. Modules

| Module | Models |
|---|---|
| `GCBarrier` | the stop-the-world protocol |
| `ObjectHeap` | what the heap promises a program (abstract) |
| `ObjectLifecycle` | reference counts, sweep, retire queue, reclaimer; implements `ObjectHeap` |
| `MvccSnapshot` | frozen snapshots |
| `StopCoordinator` | debugger and host stops of an execution domain |
| `FutureWait` | futures, their waiters, `allof()` and `anyof()` |
| `ActorCalls` | actors' queues, workers, quitting and joining; extends `FutureWait` |
| `ComputeLink` | one connection and its tables of pending calls |
| `ComputeCalls` | remote actors over it; extends `ComputeLink` |
| `DataflowNode` | signals and what one node does (pure operators) |
| `DataflowEngine` | who evaluates which island when; extends `DataflowNode` |
| `*MC` | the small programs TLC runs (`Worlds`) |
| `*Proofs` | the theorems about a module |
| `ObjectLifecycleSteps`, `ComputeCallsSteps` | the invariant of `ObjectLifecycle`, of `ComputeCalls`, and the lemmas the proofs rest on |

`ObjectLifecycle` takes a collection as one critical section of the program:
what makes it so is `GCBarrier`'s `BarrierExclusion` and `NoDrainDuringMark`.

Most modules are parameterised by `Worlds`: a world fixes the threads' programs
and the budget of each thing the environment may do (a loss of the connection,
an exit, a debugger stop, an unavailable resource), and `Init` picks one. One
run thus covers several programs, each small enough to be explored in full.

A definition named `X_Something` under the comment *Seeded fault* is `X` with a
plausible bug. It is used by no specification; `PROJECT.json` pairs each
property with one such fault that must violate it.

### GCBarrier

Variables carry the C++ member they stand for in a comment. One step is one
hold of `mutex_` or one access to an atomic outside it; `mutex_` spans steps
only during a collection (`holder`). `pc[t]` is a thread's place:

* `EnterRunning`, `ExitRunning`, `BlockEnter`, `BlockExit`, `NoParkToggle` are
  the registration and scope operations; `SectionEnter`, `SectionCheck*`,
  `SectionBackOut`, `SectionExit` the count-then-check entry of RT sections.
* `Request*` are the accesses of `requestCollect`, `Scope*` those of
  `~CollectionDeferralScope`; the two form the latch handshake.
* `Poll`, `PollLock`, `ParkWait`, `BarrierStep`, `DrainWait`, `Collect`, `Tail*`
  follow `pollContext`, self-election and its tail included; `Coll*` follow
  `collectorThreadMain`; `Gc*` follow `gc_builtin`.
* Untimed waits put the thread in `sleepers`, which only a notify empties.

Two build profiles are one constant: `Dedicated` TRUE (Linux: collections on
the collector thread) or FALSE (a mutator elects itself, the collector thread
only reclaims). What a collection does to the heap is abstracted to `batch`:
the sweep may find an unreachable set, which must be destroyed.

### MvccSnapshot

An object's state is the number of its writes. A mutation goes through the
steps of a guarded mutator (`ObjList::setElement` is the one mapped; the others
have the same order): lock, save the version, stamp, ensureUnique, write, bump,
unlock. Freezing takes an epoch, publishes it, tracks and counts it
(`SnapClone` to `SnapCount`). A reader resolves a child through the clone map,
the live object or the chain (`Resolve*`); `trimVersionChains` is the
collection's trim. `asOf[s]` records, when `s` takes its epoch, what it must
show.

### StopCoordinator

A section under `controlMutex_` is one action, except `resumeNow`, which clears
`stopped_` first and the publication later (`ReleaseOpen`, `ReleaseBump`): the
lock-free `beginStop` of a trapping thread, of the driver or of a blocking
request can fall in between. `beginStop` is split at each load: `TryAccepting`,
`TryStopped`, `TryForming` for a trap, `Request*` for `requestStop`, `Start*`
for `beginExecution`. `ackAndPark` is `ParkGen`, `ParkBit`, `ParkAck`, `Wake`.
Sliced (RT) threads acknowledge and return `Paused`. A dataflow evaluation is
the place `eval`, which the gate makes a commit wait for. The worker's three
jobs may run in any order, which allows more than its loop does. A commit pass
is one step: an acknowledgement it has seen is not taken back within the epoch.
The debugger's calls come from one controlling thread.

### ObjectHeap and ObjectLifecycle

`ObjectHeap` has two variables: the status of each object (none, live, dead,
gone) and what threads can reach; its steps are birth, death and destruction,
and a dead object is not reachable. `ObjectLifecycle` has strong and weak
counts, fields, the retire queue, the collector and the reclaimer. One step is
one atomic access or one critical section; `todo[a]` is what remains of the call
an actor (thread, reclaimer, lifecycle thread) is in.

* Threads: `New`, `Share`, `Drop`, `Store`/`Put`, `Load`, `SaveVersion`,
  `WeakRef`, `DropWeak`, and `StrongRef`/`TryIncRef`/`Recheck` for
  `Value::strongRef`; `Intern`, `Lookup`, `AllocString`, `PublishString`, `Own`
  for `newObjString`.
* Death: `DecRef`, `Claim` (the exchange on `collecting`), `DropOnce`, `Null`,
  `Retire`; in a collection `Mark`, `Trim`, `Sweep`, `Publish`.
* `VM::freeObjects`: `Drain`, `DropNext` (first pass), `Hold`, `DestroyNext`
  (second pass), `ReleaseHolds`; `FinalizeActor` is the lifecycle thread.

`Heap == INSTANCE ObjectHeap WITH ...` maps an object to dead from the step
that claims its death, and `reachable` to the closure of the Values threads hold.

### FutureWait and ActorCalls

A future is fulfilled in two steps, `set_value` and the wake, and the wake takes
the waiter list under its mutex and delivers outside it (`Deliver`). A waiter
registers, tests again under `sleepMutex` and sleeps; the 1 ms of `wait_for` is
the action `Timeout`, which no property relies on. A combinator is told by the
fulfilling thread or by the thread that wires it (`ProbeSlot`). Programs name a
combinator's future only after `allof()` or `anyof()` returned it (`Building`),
and no two operations make the same call (`Apart`).

`QueueCall`, `Push`, `NotifyQueue` are `queueCall` (`MarshalThrows` its early
failure); `Poll` to `EndWorker` are `Thread::act`, with the drain of calls left
(`CloseQueue`, `DrainOne`), failures of handlers and methods, the debugger's park
and a collection's wake; `Collect`, `Finalize`, `LockJoin`, `SignalQuit`,
`Joined`, `ResetThread`, `DeleteInstance` are the end of an instance, run by the
lifecycle thread and by the thread that ends the script.

### ComputeLink and ComputeCalls

`ComputeLink` is a connection: per end an alive flag, the steps of
`closeSocket` (mark, shut, reject), the frames on their way, and the pending
table (`TakeId`, `Fulfil`, `RejectPending`). A frame is sent whole and arrives in
order or not at all. `ComputeCalls` adds the handshake (`Connect`, `EnterSlot`,
`TakeFuture`), the client's proxy worker (`TakeCall` to `ReturnCall`), the
server's session (`Welcome`, `Spawn`, `Serve`, `Disconnected`, `CleanedUp`,
`Released`), the detached thread per call (`JobQueue`, `JobReply`), the reader of
either end (`Result`, `Output`, `Refer`), the actor's method as a list of
operations (print, keep the argument, call it, await it) and, as environment,
`Leave`, `Drop`, `Forget` and `Crash`. Three things read like part of the protocol
and are not in it, because the code never does them: `BYE` (`sendBye` has no
caller), `ACTOR_DROPPED` (`Thread::join` of a proxy aborts the connection before
the destructor that would send it, `compiler/Thread.cpp:237`), and a second
actor on a connection.

### DataflowNode and DataflowEngine

The network is fixed: an event-driven island s1, s2 -> A -> a -> B -> b, where A
may be asynchronous, and a clocked one, c -> C -> d and c -> P -> p -> Q -> q.
`DataflowNode` has the histories (two samples), the pure gate, the pending
future with its remembered rerun, unavailable bodies with their retry, failures
and suspension at a deadline, as operators on the network's data.
`DataflowEngine` has four threads: the script's sets evaluate in place
(`SetStamp`, `SetStore`, `UpdateAdmit`, `UpdateInPlace`), a foreign thread's only
queue (`UpdateQueue`), the engine drains, polls and retries (`Engine*`), the host
ticks in slices (`Host*`); `EvalNode` is one node under `m_evalMutex`.
`NetworkChange` and `EngineRebuild` change the network without that mutex, as the
run loop does. Assumed of the host: it asks for a tick no faster than the tick
period, and host-driven mode is already latched.

## 3. Runs

| Run | Instance | Shows |
|---|---|---|
| `gc_dedicated` | a mutator that blocks, opens no-park scopes and calls `gc()`; an RT thread with nested sections that also compiles; the GC toggled; 2 requests | `TypeOK`, `BarrierExclusion`, `LatchHasPublisher`, `FenceHolds` |
| `gc_inline` | 2 self-electing mutators, an RT thread, 2 requests | `SingleCollector`, `NoDrainDuringMark` |
| `gc_live` | a mutator that sleeps while Running and calls `gc()`, an RT thread, shutdown; fairness | `GcCollects`, `RequestServed`, `NoThreadStranded`, `CollectorStops` |
| `heap` | a graph with cycles, native state and a version chain; a promise and an actor shared strongly and weakly by 2 threads; 2 threads interning one content; fairness | `TypeOK`, `NoUseAfterFree`, `HeapImplemented` (refinement), `DeathReclaimed` |
| `mv` | 1 owner, 2 objects, 3 writes, 2 snapshots that die, trims, a reader; 2 owners freezing at once, 3 snapshots, rejected writes | `TypeOK`, `SnapshotIsolation`, `VersionFound` |
| `mv_throw` | rejected writes and dying snapshots | **violates** `SnapshotIsolation` |
| `stop` | a parking and a sliced thread under traps, pauses, steps and exit; both over 2 executions with traps and host holds; 1 thread of either kind with the host's pauses as well; 1 thread with fatal errors; 1 thread under requests that overlap; 2 stops; fairness | `TypeOK`, `Frozen`, `HostHeld`, `NoLostRelease`, `StopResolves` |
| `actors` | 5 programs: 2 threads sharing an actor as the process exits; 2 threads awaiting while the debugger stops and a collection wakes; a proc, a function and an event with failures; `allof` and `anyof` over 2 actors; fairness | `TypeOK`, `NoStranded`, `CombinatorRight`, `BrokenOnlyWhenDown`, `CombinatorFires`, `AwaitEnds`, `QuitEnds` |
| `compute` | 7 programs over one connection: back-channel calls in turn and overlapping, an actor kept and forgotten, a refusal, a handshake answered early, with the connection lost at any point; fairness | `TypeOK`, `NoStrandedCall`, `CallRouted`, `OutputBeforeResult`, `CallsEnd`, `SessionEnds` |
| `compute_route` | references that come home | **violates** `CallRouted` |
| `dataflow` | 8 programs: sets by a script or a foreign thread, a rerun, failures and unavailability, the gate, collections, sliced ticks against rebuilds, overruns and errors; fairness | `TypeOK`, `TickCoherent`, `Delivered`, `TicksEnd` |
| `dataflow_outrun` | a foreign thread sets one source four times, A asynchronous | **violates** `FailuresReal` |

### Bounds

`MaxRequests` = 2 lets a request meet the end of the collection before it;
`MaxDepth` = 2 nests sections and registrations. Two mutators are what an
election race needs, and one RT thread what the section handshake needs; for
more threads the theorems of section 5 hold. In the heap, two objects make a
cycle and a third a version; each block is allocated once, so that a use after
free is a state and not a reuse. For MVCC, the interesting cases need two
versions of an object and two snapshots of different age; three snapshots are
used where two owners freeze at once. For stops, two epochs per domain let a
stop begin while the one before is being released; two executions let a hold
outlive the first; every operation at once on two threads is left to the theorems
(the run also checks liveness, and must end); `MaxCommands` = 2 queues a stale release behind a fresh one.
Two calls and two actors are what a drain with a call behind it and a combinator
over different actors need. `MaxId` = 4 ids per end allow two calls with two
back-channel calls; a worker takes no call beyond them. In the dataflow worlds,
two sets of one island exercise the pure gate, the rerun and the drain, and a
fourth lets a remembered rerun leave the history (`Outrun`); two ticks let one be suspended or overtaken
and the next follow. Symmetry is used for snapshots only, in runs without
liveness. Deadlock checking is off: each instance ends when its bounds are
used up, and a script may finish.

### Fairness

* GC: a thread with a step to take takes it; open sections, scopes and safe
  blocks are left again (bounded native code); a mutator polls again and again
  (strong fairness: the interpreter polls at every loop top); the barrier's
  timed re-wakes recur. Nothing is assumed of new requests.
* Heap: a thread ends the call it is in, a collection that began ends, and the
  reclaimer is strongly fair: a collection disables it for a while, and the
  collector's loop drains whenever its queue is not empty
  (`collectorThreadMain`, lines 557-566). Nothing makes a thread drop a Value,
  nor a collection begin.
* Stops: the worker's waits are all timed, so its jobs are weakly fair; threads
  are scheduled, and a running one passes instruction boundaries (strong); the
  driver finishes what it began. Nothing is assumed of debugger or host.
* Actors: threads, workers, deliveries and joiners are scheduled and methods
  end; a debugger stop is released. The 1 ms time-out of waits has no fairness,
  so that a lost wake-up shows; nor have events, exits and the wakes a
  collection sends.
* Compute: both processes keep running (`Step`); losses and crashes have none.
* Dataflow: each thread is scheduled (the run loop's waits are timed), a
  future resolves, a retry falls due, the debugger opens its gate again and a
  collection ends.

## 4. What the violated runs show

* `mv_throw`: `saveVersion` stamps the object before the mutator has checked its
  arguments. After a rejected write the stamp can equal a later snapshot's
  epoch, and the save that snapshot needs is skipped.
* `compute_route`: an actor of the server in a result is sent under its id in
  the connection's table, but a call of it is looked up in the session's
  registry, which numbers from 1 as well; a proxy passed home is likewise
  looked up in the reader's own table first. The call runs on another actor.
* `dataflow_outrun`: an evaluation that waits behind a pending future is made at
  the time it was asked for, not on the current inputs
  (implementation-notes.md:1155-1158, and the comment at `FuncNode.cpp:805`). In
  the trace set 1 is in flight, set 2 asks for the rerun, and sets 3 and 4 are
  stored, their updates still queued, when the future resolves: set 2's time
  precedes the two-sample history, the evaluation throws, and
  `serviceAsyncYields` reports A as failed, and so its owner's run, though no
  body failed. The queued update may still deliver 4 afterwards; the report
  stands.

Other instances of the same modules fail too. They are boundaries of what the
passing runs say, and each was found by TLC with the program described here.

GC, heap and snapshots:

* `RequestServed` fails in the inline profile with the engine's thread as
  participant (`Engine`): a waiter woken after the next request was published
  keeps waiting though no thread holds the collector role, and it is the
  thread that was to guarantee progress (`SimpleMarkSweepGC.cpp:1333`).
* `BarrierExclusion` fails in the inline profile with `CanDisable`:
  `setEnabled(false)` clears the request while an elected thread, its window
  claimed, still waits for a drain; RT sections and parked threads are admitted
  and the collection runs over them (`SimpleMarkSweepGC.cpp:951`).
* `FenceHolds` fails for three inline mutators: the tail of `pollContext` lowers
  whichever fence is up, also another elected thread's.
* `GcCollects` fails when a compilation ends during `gc()` (`Scopers` not empty):
  the latch reads empty between the closing scope's exchange and its
  `requestCollect`, so `gc()` finds nothing to wait for and returns uncollected
  (`ModuleSys.cpp:4835`, against the comment at line 4826). `GcCollectsHolds`
  therefore assumes that nobody compiles.
* Two threads that intern one content may hold two strings of it: the first
  publishes its candidate before any Value owns it, the second takes the count
  of 0 for a dying string and replaces the entry (`Object.cpp:1631`). The
  comment at `Object.cpp:1610` rules out distinct identities.
* `SnapshotIsolation` fails for an object outside `Guarded`: the mutators of
  vectors and matrices take no `CowGuard`.

Stops (`may` is the set of what a world's programs do):

* After `endExecution` a stop can still commit under the join: the gate's test
  and the publication of a stop are separate steps (`StopCoordinator.cpp:127`,
  against the comment at `StopCoordinator.h:361`).
* `HostHeld` fails over two executions with `"exit"`: the command
  `releaseForExit` queued for the first may run in the second and release the
  stop the second began under the host's hold.
* A `completeAsyncStop` that took its epoch before a rebind marks that epoch as
  opened in the new domain, whose epochs start again, and the new stop commits
  without its hold.
* `Frozen` and `HostHeld` fail with `"block"` or `"race"`: between `beginStop`'s
  load of `stopped_` and its exchange of `forming_` another stop may commit; the
  two then overlap, and the withdrawal of one releases the threads of the
  other. With `"fatal"`, a thread may acknowledge a new stop and return at once
  because the release generation it read is the one before; the loop top stops
  it again, `debugFatalStopIfArmed` does not. Both properties and `StopResolves`
  therefore assume `Serialised`, and `Frozen` a world without `"fatal"`.
  `NoLostRelease` does not.
* `Frozen` fails over two executions with `"host"`, for one thread with `"pause"`
  or an RT thread with `"trap"`: a hold placed before the second makes
  `beginExecution` publish a stop (`StartForming`) beside one that is being
  committed or released. The proof of `Frozen` met this first; the property now
  says so.

Actors and compute:

* An event emitted between an idle actor's test of its predicate and its block
  notifies nobody, because `Thread::wake` does not take `queueMutex`: the event
  waits for the next call or collection (`Thread.cpp:927`, against the comment
  at `Thread.cpp:367`).
* When the client goes away during a call, the thread serving it fails to send
  the result, reports that by sending an error, and the exception of that send
  leaves the thread: the process terminates (`ComputeServer.cpp:825`; the notes
  describe teardown of one client's actors, implementation-notes.md:4243).
* A handshake answered between the steps in which `connect` enters and looks up
  its slot is dropped, and `connect` waits for ever (`ComputeConnection.cpp:537`).
  The properties about calls leave out slot 0, which only `connect` uses.
* A back-channel call of an actor the client no longer has is answered by
  rejecting the call of the same id in the client's own table; and the session's
  teardown joins the actor before it closes the connection. `CallsEnd` and
  `SessionEnds` say when, in spite of this, calls and sessions end.

Dataflow:

* With one foreign thread setting one source twice and A asynchronous, B may
  keep the old value for good: `serviceAsyncYields` evaluates downstream at the
  delivered time, its second pass finds the rerun resolved and publishes it at
  a newer time than the one its consumers are evaluated at
  (`DataflowEngine.cpp:2226`, against implementation-notes.md:1159). `Delivered`
  speaks of b only when A is synchronous.
* With the values 1, 0, 1 and A asynchronous, or s1, s2, s1, s1 in one drain and
  A synchronous, `Delivered` fails: an evaluation out of time order fools the
  pure gate (coalescing keeps the first place and the last stamp,
  `DataflowEngine.cpp:1924`).
* With two producers, or a retry between a script's stamp and its store,
  `Delivered` fails: a set stamps before it stores. The passing worlds have one
  producer per island.

Statements of the documentation that are not what the code does, and are not
checked here: `blockEnter` does not take note of a no-park cover
(implementation-notes.md:3673); two readers of one const value may each get a
clone of one child (implementation-notes.md:3912), because the clone map is read
and filled without a lock; interned strings are not roots of a collection
(implementation-notes.md:3532); a dropped proxy does not send `ACTOR_DROPPED`
(implementation-notes.md:4241).

## 5. Proofs

A theorem holds for every value of the constants that satisfies the module's
assumptions: any number of threads, actors, objects or snapshots, any bounds and
any set of worlds. Each proof has the same shape. The property is not inductive;
`Inv` is, as a conjunction of named parts; `InitInv` (or its like) and one lemma
per part show that `Init` gives it and every action keeps it, action by action.
`Inv` was checked by TLC on the instances of the runs before it was proved.

### GCBarrier

`GCBarrierProofs` proves, for every finite set of threads, every assignment of
roles to them, either profile and any bounds (assumption `ConstantsOK` only):

| Theorem | States |
|---|---|
| `TypeCorrect` | `Spec => []TypeOK`: also that no depth, section or window count becomes negative |
| `OneCollector` | `Spec => []SingleCollector` |
| `Exclusion` | `Spec => []BarrierExclusion`, if `CanDisable => Dedicated` |
| `DrainExclusion` | `Spec => []NoDrainDuringMark`, under the same assumption |
| `PublisherExists` | `Spec => []LatchHasPublisher` |
| `FenceOrder` | `Spec => FenceHolds`, if `Dedicated` |
| `GcCollectsHolds` | `Spec => []GcCollects`, if `Dedicated`, nobody compiles and the collector is not disabled (`QuietProfile`) |

Section 4 shows why the assumptions are there: without them TLC finds the
property violated.

None of these is inductive. The argument: the stopped window and the collector
role are claimed together, and `mutex_` is held exactly while a collection marks
(`RoleInv`: `RolesFixed`, `LockIsMark`, `ClaimIsRole`), so one role means one
collector. `rtSectionCount_` counts the threads inside or at the door of a
section (`SectionsCounted`), so the zero the barrier reads means that nobody is
in one. From the claim on, the request stays up, and a raised request turns
back everything that could run (`StoppedWorld`); this is the step that
disabling the GC breaks. For draining, `reclaimDraining_` counts the open
windows (`DrainsCounted`), and only Running threads open one (`PollersRun`),
which the stopped world excludes. For the latch, `deferDepth` counts the open
scopes (`ScopesCounted`): whoever brings it to zero is about to take the latch,
and whoever latches re-reads the depth. For the fence, with the dedicated
collector it is up exactly from the end of a collection until its batch is
destroyed, and nobody is then in the tail of `pollContext`, where it could be
lowered (`FenceIsBatch`): who is there is Running, and the collection ended in a
stopped world. For `gc()`, the caller's request stays up while it runs, because no
collection can finish before it parks, and once it has parked it leaves only
after one has (`GcWaits`, `GcInv`). Each part has a lemma for the steps of
a thread and one for those of the collector and the host, with one proof step
per action.

### StopCoordinator

`StopCoordinatorProofs` assumes `ConstantsOK` only.

| Theorem | States |
|---|---|
| `TypeCorrect` | `Spec => []TypeOK` |
| `NoLostReleaseHolds` | `Spec => []NoLostRelease`, in every world |
| `FrozenHolds` | `Spec => []Frozen`, in the worlds that `Frozen` is about |
| `HostHeldHolds` | `Spec => []HostHeld`, likewise |

For `NoLostRelease`: a thread goes to its park with the generation it read before
it acknowledged (`SeenOK`), and an acknowledgement belongs to a publication
that stays up until a release that bumps (`PublicationInv`, `ParkedInv`,
`OwnedInv`). For `Frozen`: in the serialised worlds a committed stop has the
acknowledgement of every thread that is in the domain (`StopInv`), a thread
that has acknowledged does not run before its generation is released
(`ReturnInv`), a thread that is about to run has looked at a publication that is
gone (`HotInv`), and a hold is released only by its owner (`HoldInv`). `HeldInv`
carries the host's hold over the queued commands: none that is left in the queue
can lift it.

### MvccSnapshot

| Theorem | States |
|---|---|
| `TypeCorrect` | `Spec => []TypeOK` |
| `IsolationHolds` | `Spec => []SnapshotIsolation`, if `Protected` |
| `VersionFoundHolds` | `Spec => []VersionFound`, if `Protected` |

`Protected` says that all objects are guarded and that no world both rejects
writes and drops snapshots: section 4 and `mv_throw` show what happens
otherwise. The set of snapshots is finite, as the live snapshots of a program
are. The heart is `VersionsInv`: for each snapshot whose epoch is taken, either
the object is unchanged since (`CurrentOK`), or its chain has a version not older
than the snapshot's epoch and the least such shows what the snapshot must show
(`ChainOK`). `EpochInv` orders epochs, stamps and versions, `GuardInv` and
`SaveInv` follow a mutator between its save and its write, `LastingInv` says that
the trim's least live epoch is not above a snapshot still being made, `MadeInv`
and `UniqueInv` say which copy a mutator writes, `ReaderInv` what a reader already
has in hand, `CloneInv` what the clone map may hold. That a finite chain has a
least element above an epoch would need induction over data; `WellOrdered` is
carried in the invariant instead.

### ActorCalls and FutureWait

| Theorem | States |
|---|---|
| `TypeCorrect` | `Spec => []TypeOK` |
| `NoStrandedHolds` | `Spec => []NoStranded` |
| `BrokenOnlyWhenDownHolds` | `Spec => []BrokenOnlyWhenDown` |
| `CombinatorRightHolds` | `Spec => []CombinatorRight` |

The assumptions are that threads, workers and calls are different things and that
programs are well formed (`NamesAssumption`, `ActorAssumption`, `Programs`: no
future is made by two operations). A call is in one place at a time: in a
program, queued, in a worker's hands or answered (`CallInv`). `EndInv` follows a
worker's end: once the queue is closed under its mutex no call enters, and what
was in it is drained before the worker is gone; an instance dies only when
nobody refers to it. `BrokenOK` rests on it. For combinators, `CombInv`, `SlotInv`
and `TaskInv` say that a slot is filled once, by the fulfilling thread or the
wiring one, that the count of filled slots is that of the values, and that a
result, once there, is not changed (`Settled`).

### ObjectLifecycle and ObjectHeap

| Theorem | States |
|---|---|
| `TypeCorrect` | `Spec => []TypeOK` |
| `NoUseAfterFreeHolds` | `Spec => []NoUseAfterFree` |
| `HeapImplementedHolds` | `Spec => HeapImplemented` |

The assumptions (`LifecycleAssumption`) are that there are finitely many objects,
that the collector, the reclaimer and the program's threads are different, that
an object has one type, and that only objects which are neither strings nor
actors keep Values in native state (`Object.cpp:7836`).

`ObjectLifecycleSteps` numbers the steps of an operation from its last one, so
that a step keeps its number while earlier ones come and go, and gives for every
kind of step the action that begins it and the one that ends it (`Origin`,
`Persist`). The invariant has 18 parts:

* *Counts.* `StrongInv`: the strong count is the number of Values that threads
  hold, of slots, and of steps in progress that will release one. `WeakInv`: the
  weak count is the number of weak Values, plus one that the strong ones share
  until the destructor has released it, plus one while the batch is held; it is
  zero exactly when there is no block.
* *Deaths.* `LinkInv`, `ClaimsInv`, `RetireInv`: only what nobody owns is being
  claimed, by one actor, and retired once; a claimed object is not promoted.
* *Places.* `PlaceInv`, `BatchInv`: a dead object is in exactly one of the steps
  of the actor that claimed it, the queue, the collector's vector, the batch and
  the finalizer's set; what the reclaimer still has to do for it follows from the
  pass it is in.
* *References.* `RefInv`: the live refer to the live; a dead object refers to
  live ones, or to dead ones that the reclaimer takes no earlier than itself
  (`Behind`). That is why the whole sweep is published at once, and why the
  batch hold lasts over every destructor. `HeldInv`: threads hold the live.
* *Operations.* `DecInv`, `ThreadInv`, `StringInv`, `UnweakInv`: what a step in
  progress names is protected by a count, a claim, the batch hold, or by being a
  string that only its maker knows; `TableInv`: a string in the table is built,
  and has no count left once it is dead.
* *Phases.* `MarkInv`, `PhaseInv`: while the world is stopped the marks are a set
  closed under references that contains the roots.

The refinement needs two facts more: what nobody owns, and what a collection did
not mark, is not in the closure of the roots (`UnownedUnreached`,
`UnmarkedUnreached`), and the destructor of a dead object does not change that
closure (`ReachSame`).

### ComputeCalls and ComputeLink

| Theorem | States |
|---|---|
| `TypeCorrect` | `Spec => []TypeOK` |
| `NoStrandedHolds` | `Spec => []NoStrandedCall` |
| `OutputFirstHolds` | `Spec => []OutputBeforeResult` |
| `OwnResultHolds` | `Spec => []OwnResult`, in every program |
| `CallRoutedHolds` | `Spec => [](Outward => CallRouted)` |

The assumptions are `CallsAssumption` (programs are lists of the operations
above; the client's own actor, when it is called, only prints) and `MaxId`'s. The
scripts, their lengths and the number of losses are arbitrary. `Outward` programs pass
only actors of the client and their methods return none: for others
`compute_route` shows that a call may run on the wrong actor. What remains true of
every program is `OwnResult`: a call runs at most once and its caller gets its own
result.

`ComputeCallsSteps` describes each action once, in terms of the calls, proxies,
slots and frames it changes. The invariant has 17 parts:

* *Stages.* `TypeInv` types every member. `StageInv` follows the script from the
  handshake to its first calls; `DownInv`: an open connection has its process;
  `RefInv`: what calls and proxies refer to exists.
* *Slots.* `IdInv`: an id is given to one call of an end. `SlotInv` and `AnswerInv`:
  a call that waits has its entry in the pending table or a fulfilled promise. The
  entry is made before the frame is sent, and it leaves the table, by an answer or
  by the closing of the connection, only together with its promise.
* *One place.* `FrameInv`, `OnceInv`, `ApartInv`, `SpawnInv`, `JobInv`, `QueueInv`: a
  request is on its way once, or read and with one job, which is queued on one
  actor, running, or answered; its result is on its way after that and carries
  the id of the call.
* *Results.* `TakenInv`: a fulfilled promise holds the result of the call that has
  this id. `TargetInv`: in an `Outward` program a call goes to the actor its reference
  was made from.
* *Prints.* `BackInv`: a back-channel call that has been answered has been served.
  `PrintInv`: a print that has not been delivered is in a frame ahead of the
  result of its call, or, for a back-channel call, of the result of the call it
  was made for.

### Only model-checked

Liveness (outside the prover's reach: `RequestServed`, `NoThreadStranded`,
`CollectorStops`, `DeathReclaimed`, `StopResolves`, `CombinatorFires`, `AwaitEnds`,
`QuitEnds`, `CallsEnd`, `SessionEnds`, `Delivered`, `TicksEnd`); the dataflow
engine: a history is ordered by `setValueAt`, whose two selections are defined by
recursion over a sequence of any length, so that even its `TypeOK` needs induction
over data. `Delivered` speaks of the producers and values of its worlds only: the
limits are in its comment, the instances outside them in section 4.

## 6. Not modelled

Opcode semantics, the compiler, library modules, transports and FFI: sequential
code or adapters to external systems (see `components` in `PROJECT.json`); they
are most of the repository's lines, and miniaudio and the other vendored files
most of the rest. In the modelled parts:

* GC and stops: registration of threads while a stop forms, service threads
  excluded from stops, `resumeForShutdown`, the bookkeeping of steps, the
  Emscripten pump-park, the three-try bound on fatal-error stops (the model
  retries as long as it is refused), the limit of the worker's queue, the wait
  of `gc()` for the lifecycle thread (`waitLifecycleIdle`). A sleeper's last poll
  and its falling asleep are one step.
* Heap: how each object type traces, pinned roots, weak keys of containers, the
  sole-owner fast path of freezing, expiry of weak clone-map entries.
* Actors: service actors, event and signal slots of combinators, a method that
  itself awaits, the pointer `wake()` keeps to an instance being destroyed
  (`Thread.cpp:920`). A worker woken by a collection goes to its poll without
  trying the queue first.
* Compute: chains of servers, shipping of types, methods that raise, the helper
  threads' part in collections, `listen`'s error path.
* Dataflow: background islands, derived and wired signals, chained updates,
  retired nodes, node-overrun attribution, engine-driven ticks, `_dataflow_tick`
  beside a suspended host tick, a collection that interrupts a script's set in
  an RT slice, host context frames, the evaluation of a node at its
  initialization. A signal's store and its consumers' availability, the engine's
  rebuild and the restart of its clock are one step each; after a downstream
  evaluation `serviceAsyncYields` is modelled as polling again at once.

Memory is sequentially consistent: the flags of the handshakes are `seq_cst` or
acquire/release under a lock.

## 7. Plan

1. Proofs: type correctness of the dataflow engine, for histories of bounded length.
2. `AsyncIO` (shutdown with operations in flight) and `CallbackRegistry`
   (unregistering from a callback and against a dispatch).
3. Composition of actor calls with snapshots at the actor boundary, and of
   thread registration with a forming stop.
4. Dataflow: background islands and engine-driven ticks.
