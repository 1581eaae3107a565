----------------------------- MODULE ActorCalls -----------------------------
(***************************************************************************)
(* Actors: the queue of calls, the worker that serves it, and the end of   *)
(* both.                                                                   *)
(*                                                                         *)
(* A script thread queues a call (Object.cpp queueCall) and gets a future, *)
(* or nil when the actor has stopped or the method is a proc.  The actor's *)
(* worker (Thread.cpp act) waits on queueConditionVar, takes one call,     *)
(* handles one pending event, runs the call and fulfils its promise.  It   *)
(* leaves its loop when it is told to quit and has no call, or when        *)
(* something failed, and then answers the calls still queued with nil.     *)
(* An instance nobody refers to any more is handed to the lifecycle thread *)
(* (ThreadManager.cpp finalizeActor), which joins the worker and destroys  *)
(* the instance; the end of the script joins every worker as well.         *)
(*                                                                         *)
(* queueMutex is not a variable: the critical sections of queueCall, join  *)
(* and the worker's last one are single steps, and the one in which the    *)
(* worker tests its wait predicate and then blocks is the stay in          *)
(* "checked", during which nobody else gets the mutex.                     *)
(***************************************************************************)
EXTENDS FutureWait

CONSTANTS
  Worlds,      \* programs: see the assumption below
  Joiners,     \* the lifecycle thread and the thread that ends the script
  Lifecycle,   \* the first of them
  NoCall,
  Nobody

Actors == Workers

ASSUME ActorAssumption ==
  /\ Lifecycle \in Joiners
  /\ NoCall \notin Calls
  /\ Nobody \notin Joiners
  /\ \A w \in Worlds : /\ w.actors \subseteq Actors /\ w.prog \in Programs
                       /\ w.target \in [Calls -> w.actors]
                       /\ w.procs \subseteq Calls
                       /\ w.precise \in BOOLEAN   \* native stacks are not scanned
                       /\ w.ends \in BOOLEAN      \* actors are collected and joined
                       /\ w.outcomes \subseteq {"ok", "exc", "nil", "fail", "throw"}

VARIABLES
  world,      \* the program this behaviour is about: it never changes
  queue,      \* per actor its callQueue
  alive,      \* ActorInstance::alive
  quit,       \* Thread::quit of its worker
  wpc,        \* where the worker is
  cur,        \* callInfo: the call it has taken, with its promise
  events,     \* its pendingEvents
  emitting,   \* an event has been pushed and wake() has not notified yet
  stop,       \* a debugger stop is requested
  left,       \* how many wakes, stops, exits and events may still come
  inst,       \* "live", "dead" (given to the lifecycle thread), "destroyed"
  attached,   \* ActorInstance::thread is set
  joinable,   \* Thread::osthread is set
  joinLock,   \* who holds Thread::joinMutex_
  jpc,        \* per joiner and actor how far it is
  jinst       \* per joiner and actor: it has the raw instance pointer

workVars == <<queue, alive, quit, wpc, cur, events>>
envVars == <<emitting, stop, left>>
joinVars == <<inst, attached, joinable, joinLock, jpc, jinst>>
vars == <<waitVars, world, workVars, envVars, joinVars>>

Target(c) == world.target[c]

Init ==
  /\ world \in Worlds
  /\ prog = world.prog
  /\ WaitInit
  /\ queue = [a \in Actors |-> <<>>]
  /\ alive = [a \in Actors |-> a \in world.actors]   \* act(), before it spawns
  /\ quit = [a \in Actors |-> FALSE]
  /\ wpc = [a \in Actors |-> IF a \in world.actors THEN "poll" ELSE "ended"]
  /\ cur = [a \in Actors |-> NoCall]
  /\ events = [a \in Actors |-> 0]
  /\ emitting = [a \in Actors |-> FALSE]
  /\ stop = FALSE
  /\ left = [wakes |-> world.wakes, stops |-> world.stops, exits |-> world.exits,
             events |-> world.events]
  /\ inst = [a \in Actors |-> IF a \in world.actors THEN "live" ELSE "destroyed"]
  /\ attached = [a \in Actors |-> a \in world.actors]
  /\ joinable = [a \in Actors |-> a \in world.actors]
  /\ joinLock = [a \in Actors |-> Nobody]
  /\ jpc = [j \in Joiners |-> [a \in Actors |-> IF a \in world.actors THEN "idle" ELSE "done"]]
  /\ jinst = [j \in Joiners |-> [a \in Actors |-> FALSE]]

MutexFree(a) == wpc[a] # "checked"
Notified(a) == [wpc EXCEPT ![a] = IF @ = "blocked" THEN "check" ELSE @]

----------------------------------------------------------------------------
(* queueCall, on the calling thread. *)

(* The first test of alive, and the promise. *)
QueueCall(t) ==
  /\ At(t, "ready", "call")
  /\ LET c == Op(t).c IN
     IF ~alive[Target(c)]
     THEN Finish(t) /\ UNCHANGED result
     ELSE /\ pc' = [pc EXCEPT ![t] = "marshal"]
          /\ result' = [result EXCEPT ![c] = IF c \in world.procs THEN Absent ELSE None]
          /\ UNCHANGED prog
  /\ UNCHANGED <<lists, todo, comb, down, world, workVars, envVars, joinVars>>

(* An argument that may not cross throws, into the script. *)
MarshalThrows(t) ==
  /\ At(t, "marshal", "call")
  /\ result' = [result EXCEPT ![Op(t).c] = Absent]
  /\ Finish(t)
  /\ UNCHANGED <<lists, todo, comb, down, world, workVars, envVars, joinVars>>

(* Seeded fault: the second test is left out. *)
Push_NoRetest(t) ==
  /\ At(t, "marshal", "call")
  /\ LET a == Target(Op(t).c) IN
       MutexFree(a) /\ queue' = [queue EXCEPT ![a] = Append(@, Op(t).c)]
  /\ pc' = [pc EXCEPT ![t] = "notify"]
  /\ UNCHANGED <<prog, result, lists, todo, comb, down, world, alive, quit, wpc, cur,
                 events, envVars, joinVars>>

(* The arguments are marshalled outside queueMutex: the actor may have     *)
(* stopped meanwhile, and is tested again under the mutex.                 *)
Push(t) ==
  /\ At(t, "marshal", "call")
  /\ LET c == Op(t).c
         a == Target(c)
     IN /\ MutexFree(a)
        /\ IF alive[a]
           THEN /\ queue' = [queue EXCEPT ![a] = Append(@, c)]
                /\ pc' = [pc EXCEPT ![t] = "notify"]
                /\ UNCHANGED <<prog, result>>
           ELSE /\ result' = [result EXCEPT ![c] = Absent]
                /\ Finish(t)
                /\ UNCHANGED queue
  /\ UNCHANGED <<lists, todo, comb, down, world, alive, quit, wpc, cur, events,
                 envVars, joinVars>>

(* Seeded fault: the worker is not notified. *)
NotifyQueue_None(t) ==
  /\ At(t, "notify", "call")
  /\ Finish(t)
  /\ UNCHANGED <<result, lists, todo, comb, down, world, workVars, envVars, joinVars>>

NotifyQueue(t) ==
  /\ At(t, "notify", "call")
  /\ wpc' = Notified(Target(Op(t).c))
  /\ Finish(t)
  /\ UNCHANGED <<result, lists, todo, comb, down, world, queue, alive, quit, cur,
                 events, envVars, joinVars>>

----------------------------------------------------------------------------
(* The worker's loop. *)

Worker(a, where) == wpc[a] = where /\ todo[a] = <<>>
Go(a, where) == wpc' = [wpc EXCEPT ![a] = where]

(* The previous call is let go of before the thread may park. *)
Poll(a) ==
  /\ Worker(a, "poll")
  /\ cur' = [cur EXCEPT ![a] = NoCall]
  /\ Go(a, "check")
  /\ UNCHANGED <<waitVars, world, queue, alive, quit, events, envVars, joinVars>>

(* What queueConditionVar waits for. *)
WaitPredicate(a) == quit[a] \/ queue[a] # <<>> \/ events[a] > 0 \/ stop

(* Seeded fault: quit ends the loop although a call has been taken. *)
Check_QuitFirst(a) ==
  /\ Worker(a, "check")
  /\ IF ~WaitPredicate(a)
     THEN Go(a, "checked") /\ UNCHANGED <<cur, queue>>
     ELSE LET takes == ~stop /\ queue[a] # <<>> IN
          /\ cur' = [cur EXCEPT ![a] = IF takes THEN Head(queue[a]) ELSE NoCall]
          /\ queue' = [queue EXCEPT ![a] = IF takes THEN Tail(@) ELSE @]
          /\ Go(a, IF quit[a] THEN "close" ELSE "dispatch")
  /\ UNCHANGED <<waitVars, world, alive, quit, events, envVars, joinVars>>

(* Test the predicate and, where it holds, do the rest of the same         *)
(* critical section: take a call unless a debugger stop holds them back;   *)
(* quit without one ends the loop.                                         *)
Check(a) ==
  /\ Worker(a, "check")
  /\ IF ~WaitPredicate(a)
     THEN Go(a, "checked") /\ UNCHANGED <<cur, queue>>
     ELSE LET takes == ~stop /\ queue[a] # <<>> IN
          /\ cur' = [cur EXCEPT ![a] = IF takes THEN Head(queue[a]) ELSE NoCall]
          /\ queue' = [queue EXCEPT ![a] = IF takes THEN Tail(@) ELSE @]
          /\ Go(a, IF quit[a] /\ ~takes THEN "close" ELSE "dispatch")
  /\ UNCHANGED <<waitVars, world, alive, quit, events, envVars, joinVars>>

Block(a) ==
  /\ Worker(a, "checked")
  /\ Go(a, "blocked")
  /\ UNCHANGED <<waitVars, world, queue, alive, quit, cur, events, envVars, joinVars>>

(* A collection's request ends the wait too, and so do spurious wakes. *)
GcWake(a) ==
  /\ Worker(a, "blocked") /\ left.wakes > 0
  /\ left' = [left EXCEPT !.wakes = @ - 1]
  /\ Go(a, "poll")
  /\ UNCHANGED <<waitVars, world, queue, alive, quit, cur, events, emitting, stop, joinVars>>

(* Park for a debugger stop, with no call in hand. *)
ActorPark(a) ==
  /\ Worker(a, "dispatch") /\ stop /\ cur[a] = NoCall
  /\ Go(a, "parked")
  /\ UNCHANGED <<waitVars, world, queue, alive, quit, cur, events, envVars, joinVars>>

ActorResume(a) ==
  /\ Worker(a, "parked") /\ ~stop
  /\ Go(a, "poll")
  /\ UNCHANGED <<waitVars, world, queue, alive, quit, cur, events, envVars, joinVars>>

Dispatching(a) == Worker(a, "dispatch") /\ ~(stop /\ cur[a] = NoCall)

(* The instance died or an exit is requested: the loop ends, whatever call *)
(* has been taken.                                                         *)
DispatchQuits(a) ==
  /\ Dispatching(a)
  /\ inst[a] # "live" \/ down = "exit"
  /\ quit' = [quit EXCEPT ![a] = TRUE]
  /\ Go(a, "close")
  /\ UNCHANGED <<waitVars, world, queue, alive, cur, events, envVars, joinVars>>

(* Seeded fault: the count of pending events goes below zero. *)
Dispatch_Uncounted(a) ==
  /\ Dispatching(a) /\ inst[a] = "live" /\ down # "exit"
  /\ events' = [events EXCEPT ![a] = @ - 1]
  /\ Go(a, IF cur[a] = NoCall THEN "poll" ELSE "run")
  /\ UNCHANGED <<waitVars, world, queue, alive, quit, cur, envVars, joinVars>>

(* processPendingEvents handles at most one event.  An exception a handler *)
(* does not catch fails the program and ends the loop.                     *)
Dispatch(a) ==
  /\ Dispatching(a) /\ inst[a] = "live" /\ down # "exit"
  /\ events' = [events EXCEPT ![a] = IF @ > 0 THEN @ - 1 ELSE 0]
  /\ Go(a, IF cur[a] = NoCall THEN "poll" ELSE "run")
  /\ UNCHANGED <<waitVars, world, queue, alive, quit, cur, envVars, joinVars>>

HandlerFails(a) ==
  /\ Dispatching(a) /\ inst[a] = "live" /\ down # "exit" /\ events[a] > 0
  /\ events' = [events EXCEPT ![a] = @ - 1]
  /\ quit' = [quit EXCEPT ![a] = TRUE]
  /\ Go(a, "close")
  /\ down' = IF down = "no" THEN "error" ELSE down
  /\ UNCHANGED <<prog, pc, result, lists, todo, comb, world, queue, alive, cur,
                 envVars, joinVars>>

----------------------------------------------------------------------------
(* The call itself.  A proc has no promise; where there is one it is set   *)
(* and cleared, and its future's waiters are woken.                        *)

Answer(a, c, v) ==
  IF c \in world.procs THEN UNCHANGED <<result, todo>>
  ELSE /\ result' = [result EXCEPT ![c] = v]
       /\ todo' = [todo EXCEPT ![a] = <<WakeTask(c)>>]

(* The method returns, or raises an exception, which is forwarded to the   *)
(* future or, for a proc, reported; a native that throws answers nil.  The *)
(* actor keeps serving.                                                    *)
RunCall(a) ==
  /\ Worker(a, "run")
  /\ \/ "ok" \in world.outcomes /\ Answer(a, cur[a], Ok(cur[a]))
     \/ "exc" \in world.outcomes /\ Answer(a, cur[a], Exc(cur[a]))
     \/ "nil" \in world.outcomes /\ Answer(a, cur[a], Nil)
  /\ Go(a, "poll")
  /\ UNCHANGED <<prog, pc, lists, comb, down, world, queue, alive, quit, cur, events,
                 envVars, joinVars>>

(* execute() failed with no exception to forward: the program is failing.  *)
RunFails(a) ==
  /\ Worker(a, "run") /\ "fail" \in world.outcomes
  /\ Answer(a, cur[a], Nil)
  /\ cur' = [cur EXCEPT ![a] = NoCall]
  /\ quit' = [quit EXCEPT ![a] = TRUE]
  /\ Go(a, "close")
  /\ down' = IF down = "no" THEN "error" ELSE down
  /\ UNCHANGED <<prog, pc, lists, comb, world, queue, alive, events, envVars, joinVars>>

(* The result cannot be handed over (a clone throws): the outer handler    *)
(* answers the call and fails the program.  alive stays set and the queue  *)
(* is not drained.                                                         *)
RunThrows(a) ==
  /\ Worker(a, "run") /\ "throw" \in world.outcomes
  /\ \E v \in {Exc(cur[a]), Nil} : Answer(a, cur[a], v)
  /\ cur' = [cur EXCEPT ![a] = NoCall]
  /\ Go(a, "ended")
  /\ down' = IF down = "no" THEN "error" ELSE down
  /\ UNCHANGED <<prog, pc, lists, comb, world, queue, alive, quit, events,
                 envVars, joinVars>>

----------------------------------------------------------------------------
(* The worker's end. *)

(* alive is cleared under queueMutex ... *)
CloseQueue(a) ==
  /\ Worker(a, "close")
  /\ alive' = [alive EXCEPT ![a] = FALSE]
  /\ Go(a, "drain")
  /\ UNCHANGED <<waitVars, world, queue, quit, cur, events, envVars, joinVars>>

(* ... then what is queued is answered with nil, one call at a time. *)
DrainOne(a) ==
  /\ Worker(a, "drain") /\ queue[a] # <<>>
  /\ queue' = [queue EXCEPT ![a] = Tail(@)]
  /\ Answer(a, Head(queue[a]), Nil)
  /\ UNCHANGED <<prog, pc, lists, comb, down, world, alive, quit, wpc, cur, events,
                 envVars, joinVars>>

(* The call that was taken and not run is destroyed with its promise. *)
Abandon(c) == IF c = NoCall \/ c \in world.procs \/ Ready(result[c]) THEN result
              ELSE [result EXCEPT ![c] = Broken]

EndWorker(a) ==
  /\ Worker(a, "drain") /\ queue[a] = <<>>
  /\ result' = Abandon(cur[a])
  /\ cur' = [cur EXCEPT ![a] = NoCall]
  /\ Go(a, "ended")
  /\ UNCHANGED <<prog, pc, lists, todo, comb, down, world, queue, alive, quit, events,
                 envVars, joinVars>>

----------------------------------------------------------------------------
(* What else happens to an actor. *)

(* An event is pushed; then Thread::wake notifies, without queueMutex. *)
Emit(a) ==
  /\ left.events > 0 /\ ~emitting[a] /\ inst[a] = "live" /\ wpc[a] # "ended"
  /\ left' = [left EXCEPT !.events = @ - 1]
  /\ events' = [events EXCEPT ![a] = @ + 1]
  /\ emitting' = [emitting EXCEPT ![a] = TRUE]
  /\ UNCHANGED <<waitVars, world, queue, alive, quit, wpc, cur, stop, joinVars>>

WakeActor(a) ==
  /\ emitting[a]
  /\ emitting' = [emitting EXCEPT ![a] = FALSE]
  /\ wpc' = Notified(a)
  /\ UNCHANGED <<waitVars, world, queue, alive, quit, cur, events, stop, left, joinVars>>

DebugStop ==
  /\ left.stops > 0 /\ ~stop
  /\ stop' = TRUE
  /\ left' = [left EXCEPT !.stops = @ - 1]
  /\ UNCHANGED <<waitVars, world, workVars, emitting, joinVars>>

DebugRelease ==
  /\ stop /\ stop' = FALSE
  /\ UNCHANGED <<waitVars, world, workVars, emitting, left, joinVars>>

RequestExit ==
  /\ left.exits > 0 /\ down = "no"
  /\ down' = "exit"
  /\ left' = [left EXCEPT !.exits = @ - 1]
  /\ UNCHANGED <<prog, pc, result, lists, todo, comb, world, workVars, emitting, stop,
                 joinVars>>

(* A thread refers to an actor until it has queued its last call to it. *)
Refers(t, a) == \E i \in DOMAIN prog[t] : prog[t][i].op = "call" /\ Target(prog[t][i].c) = a

(* Nobody refers to the instance and no call of it is in hand.  Queued     *)
(* calls refer to their receiver, so with calls in the queue only a        *)
(* collection finds it dead, which needs the worker at its poll; and the   *)
(* worker's stack holds the instance's address, so that happens only where *)
(* stacks are not scanned (wasm, ROXAL_GC_CONSERVATIVE=0).  dropReferences *)
(* then empties the queue and answers nobody.                              *)
Collect(a) ==
  /\ world.ends /\ inst[a] = "live" /\ cur[a] = NoCall
  /\ wpc[a] \notin {"run", "close", "drain"} /\ todo[a] = <<>>
  /\ \A t \in Threads : ~Refers(t, a)
  /\ queue[a] # <<>> => (world.precise /\ wpc[a] = "poll") \/ wpc[a] = "ended"
  /\ inst' = [inst EXCEPT ![a] = "dead"]
  /\ queue' = [queue EXCEPT ![a] = <<>>]
  /\ result' = [f \in Futures |->
       IF f \in Range(queue[a]) \ world.procs THEN Broken ELSE result[f]]
  /\ UNCHANGED <<prog, pc, lists, todo, comb, down, world, alive, quit, wpc, cur,
                 events, envVars, attached, joinable, joinLock, jpc, jinst>>

----------------------------------------------------------------------------
(* Joining: finalizeActor on the lifecycle thread, joinAllThreads at the   *)
(* end of the script.                                                      *)

JoinGo(j, a, where) == jpc' = [jpc EXCEPT ![j][a] = where]

(* finalizeActor reads the instance's thread under queueMutex.  No thread: *)
(* somebody else has joined it, and the instance is destroyed at once.     *)
Finalize(a) ==
  /\ inst[a] = "dead" /\ jpc[Lifecycle][a] = "idle" /\ MutexFree(a)
  /\ JoinGo(Lifecycle, a, IF attached[a] THEN "lock" ELSE "delete")
  /\ jinst' = [jinst EXCEPT ![Lifecycle][a] = TRUE]
  /\ UNCHANGED <<waitVars, world, workVars, envVars, inst, attached, joinable, joinLock>>

(* The end of the script joins what it knows.  actorInstanceRaw is null    *)
(* once the worker has ended; a live instance is then found through the    *)
(* weak Value.                                                             *)
JoinAll(j, a) ==
  /\ world.ends /\ j # Lifecycle /\ jpc[j][a] = "idle"
  /\ \A t \in Threads : prog[t] = <<>>
  /\ JoinGo(j, a, "lock")
  /\ jinst' = [jinst EXCEPT ![j][a] = wpc[a] # "ended"]
  /\ UNCHANGED <<waitVars, world, workVars, envVars, inst, attached, joinable, joinLock>>

(* joinMutex_: the loser finds the thread joined and returns. *)
LockJoin(j, a) ==
  /\ jpc[j][a] = "lock" /\ joinLock[a] = Nobody
  /\ IF joinable[a]
     THEN /\ JoinGo(j, a, "signal")
          /\ joinLock' = [joinLock EXCEPT ![a] = j]
          /\ jinst' = [jinst EXCEPT ![j][a] = @ \/ inst[a] = "live"]
     ELSE /\ JoinGo(j, a, IF j = Lifecycle THEN "delete" ELSE "done")
          /\ UNCHANGED <<joinLock, jinst>>
  /\ UNCHANGED <<waitVars, world, workVars, envVars, inst, attached, joinable>>

(* Seeded fault: quit is set and notified without queueMutex. *)
SignalQuit_NoMutex(j, a) ==
  /\ jpc[j][a] = "signal"
  /\ quit' = [quit EXCEPT ![a] = TRUE]
  /\ wpc' = IF jinst[j][a] THEN Notified(a) ELSE wpc
  /\ JoinGo(j, a, "join")
  /\ UNCHANGED <<waitVars, world, queue, alive, cur, events, envVars, inst, attached,
                 joinable, joinLock, jinst>>

(* quit is set and notified under queueMutex, where there is an instance. *)
SignalQuit(j, a) ==
  /\ jpc[j][a] = "signal"
  /\ jinst[j][a] => MutexFree(a)
  /\ quit' = [quit EXCEPT ![a] = TRUE]
  /\ wpc' = IF jinst[j][a] THEN Notified(a) ELSE wpc
  /\ JoinGo(j, a, "join")
  /\ UNCHANGED <<waitVars, world, queue, alive, cur, events, envVars, inst, attached,
                 joinable, joinLock, jinst>>

(* osthread->join() returns when the worker's function has. *)
Joined(j, a) ==
  /\ jpc[j][a] = "join" /\ wpc[a] = "ended" /\ todo[a] = <<>>
  /\ joinable' = [joinable EXCEPT ![a] = FALSE]
  /\ JoinGo(j, a, "reset")
  /\ UNCHANGED <<waitVars, world, workVars, envVars, inst, attached, joinLock, jinst>>

(* The back-reference is cleared while joinMutex_ is still held. *)
ResetThread(j, a) ==
  /\ jpc[j][a] = "reset"
  /\ attached' = [attached EXCEPT ![a] = IF jinst[j][a] THEN FALSE ELSE @]
  /\ joinLock' = [joinLock EXCEPT ![a] = Nobody]
  /\ JoinGo(j, a, IF j = Lifecycle THEN "delete" ELSE "done")
  /\ UNCHANGED <<waitVars, world, workVars, envVars, inst, joinable, jinst>>

DeleteInstance(a) ==
  /\ jpc[Lifecycle][a] = "delete"
  /\ inst' = [inst EXCEPT ![a] = "destroyed"]
  /\ JoinGo(Lifecycle, a, "done")
  /\ UNCHANGED <<waitVars, world, workVars, envVars, attached, joinable, joinLock, jinst>>

----------------------------------------------------------------------------
CallStep(t) == QueueCall(t) \/ Push(t) \/ NotifyQueue(t)

WorkerStep(a) ==
  \/ Poll(a) \/ Check(a) \/ Block(a) \/ ActorPark(a) \/ ActorResume(a)
  \/ DispatchQuits(a) \/ Dispatch(a) \/ HandlerFails(a)
  \/ RunCall(a) \/ RunFails(a) \/ RunThrows(a)
  \/ CloseQueue(a) \/ DrainOne(a) \/ EndWorker(a)

JoinStep(j, a) ==
  \/ LockJoin(j, a) \/ SignalQuit(j, a) \/ Joined(j, a) \/ ResetThread(j, a)

Finalizer(a) == Finalize(a) \/ JoinStep(Lifecycle, a) \/ DeleteInstance(a)

Next ==
  \/ WaitNext /\ UNCHANGED <<world, workVars, envVars, joinVars>>
  \/ \E t \in Threads : CallStep(t) \/ MarshalThrows(t)
  \/ \E a \in Actors : WorkerStep(a) \/ GcWake(a) \/ Emit(a) \/ WakeActor(a) \/ Collect(a)
  \/ DebugStop \/ DebugRelease \/ RequestExit
  \/ \E a \in Actors : Finalizer(a)
  \/ \E j \in Joiners \ {Lifecycle}, a \in Actors : JoinAll(j, a) \/ JoinStep(j, a)

Spec == Init /\ [][Next]_vars

(* Every thread that can run runs, and a debugger stop is released.  The   *)
(* 1 ms of a wait is not relied on: Timeout has no fairness.               *)
Fairness ==
  /\ \A t \in Threads : WF_vars((ThreadStep(t) /\ UNCHANGED <<world, workVars, envVars, joinVars>>)
                                \/ CallStep(t))
  /\ \A p \in Procs : WF_vars(Deliver(p) /\ UNCHANGED <<world, workVars, envVars, joinVars>>)
  /\ \A a \in Actors : WF_vars(WorkerStep(a)) /\ WF_vars(WakeActor(a)) /\ WF_vars(Finalizer(a))
  /\ \A j \in Joiners, a \in Actors : WF_vars(JoinAll(j, a)) /\ WF_vars(JoinStep(j, a))
  /\ WF_vars(DebugRelease)

FairSpec == Spec /\ Fairness

----------------------------------------------------------------------------
(* Properties. *)

Results == {Absent, None, Nil, Broken} \cup {Ok(c) : c \in Calls} \cup {Exc(c) : c \in Calls}

TypeOK ==
  /\ pc \in [Threads -> {"ready", "register", "recheck", "asleep", "wire", "probe",
                         "marshal", "notify"}]
  /\ \A c \in Calls : result[c] \in Results
  /\ threadWaiters \in [Futures -> SUBSET Threads]
  /\ slotWaiters \in [Futures -> SUBSET (Threads \X Nat)]
  /\ down \in {"no", "exit", "error"}
  /\ queue \in [Actors -> Seq(Calls)]
  /\ alive \in [Actors -> BOOLEAN] /\ quit \in [Actors -> BOOLEAN]
  /\ wpc \in [Actors -> {"poll", "check", "checked", "blocked", "parked", "dispatch",
                         "run", "close", "drain", "ended"}]
  /\ cur \in [Actors -> Calls \cup {NoCall}]
  /\ events \in [Actors -> Nat] /\ emitting \in [Actors -> BOOLEAN]
  /\ inst \in [Actors -> {"live", "dead", "destroyed"}]
  /\ jpc \in [Joiners -> [Actors -> {"idle", "lock", "signal", "join", "reset",
                                     "delete", "done"}]]

(* No call is left in the queue of a worker that has ended, however the    *)
(* call raced its end: whoever queued it would wait for ever.  (The outer  *)
(* handler of act() leaves alive set: there the program is failing.)       *)
NoStranded ==
  \A a \in Actors : wpc[a] = "ended" /\ ~alive[a] => queue[a] = <<>>

(* A call's promise is destroyed unfulfilled only when the program is      *)
(* going down, or when its actor was collected with the call in its queue, *)
(* which needs a precise collector.                                        *)
BrokenOnlyWhenDown ==
  \A c \in Calls : result[c] = Broken => down # "no" \/ world.precise

(* A thread that awaits a call's future stops waiting, with no help of the *)
(* timeout, unless its promise was broken.                                 *)
AwaitEnds ==
  \A t \in Threads :
    (pc[t] = "asleep" /\ ~world.precise /\ down = "no") ~> (pc[t] # "asleep" \/ down # "no")

(* A worker that is told to quit ends: neither finalizer nor shutdown      *)
(* waits for ever.                                                         *)
QuitEnds == \A a \in Actors : quit[a] ~> wpc[a] = "ended"

=============================================================================
