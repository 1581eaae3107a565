------------------------------ MODULE GCBarrier ------------------------------
(***************************************************************************)
(* The stop-the-world protocol of SimpleMarkSweepGC: mutator contexts that *)
(* park at safepoints, the collector that waits for them, RT yield         *)
(* sections that gate it without ever blocking, safe-block and no-park     *)
(* scopes, compilation scopes that latch requests, the reclaim fence, and  *)
(* the reclaimer that destroys retired objects between collections.        *)
(*                                                                         *)
(* One step is one hold of mutex_ or one access to an atomic outside it.   *)
(* mutex_ is held across steps only by a collection (holder).  A thread    *)
(* asleep in an untimed wait on safepointCv_ is in sleepers until someone  *)
(* notifies; timed waits wake by themselves and are never in sleepers.     *)
(***************************************************************************)
EXTENDS Integers, FiniteSets

CONSTANTS
  Threads,      \* physical threads with a MutatorContext
  Coll,         \* the collector/reclaimer thread (never registered)
  None,         \* no thread
  Mutators,     \* threads that register (enterRunning) and enter blocking regions
  RT,           \* threads that drive RT yield sections
  Scopers,      \* threads that compile under a CollectionDeferralScope
  NoParkers,    \* threads that open GCNoParkScopes
  GcCallers,    \* threads whose script calls gc()
  Engine,       \* the dataflow engine's thread: registered for good, never blocks
  Sleepy,       \* threads that sleep while Running (an idle actor's queue wait)
  Dedicated,    \* ROXAL_GC_DEDICATED_THREAD: collections run on Coll
  CanDisable,   \* the host calls setEnabled(false)
  CanStop,      \* the VM shuts down and stops the collector thread
  MaxDepth,     \* bound on nested enterRunning / yield sections per thread
  MaxRequests   \* bound on the number of requestCollect calls

ASSUME ConstantsOK ==
  /\ IsFiniteSet(Threads)
  /\ Coll \notin Threads /\ None \notin Threads /\ Coll # None
  /\ Mutators \subseteq Threads /\ RT \subseteq Threads /\ Scopers \subseteq Threads
  /\ NoParkers \subseteq Threads /\ GcCallers \subseteq Threads
  /\ Sleepy \subseteq Threads /\ Engine \subseteq Threads
  /\ Dedicated \in BOOLEAN /\ CanDisable \in BOOLEAN /\ CanStop \in BOOLEAN
  /\ MaxDepth \in Nat \ {0} /\ MaxRequests \in Nat

VARIABLES
  requested,        \* collectionRequested_
  inProgress,       \* collectionInProgress_
  worldStopped,     \* worldStopped_
  externalActive,   \* externalCollectorActive_
  fence,            \* reclaimInProgress_
  collections,      \* statsCollections_
  enabled,          \* gcEnabled_
  dedicatedActive,  \* dedicatedCollectorActive_
  stop,             \* collectorState_->stop
  hostPc,           \* where the host is in setEnabled
  deferDepth,       \* collectionDeferralDepth_
  deferredPending,  \* deferredCollectionPending_
  deferredWake,     \* deferredGCWakePending_
  requests,         \* requestCollect calls so far (bound)
  rtCount,          \* rtSectionCount_
  draining,         \* reclaimDraining_
  refDead,          \* the retire queue holds refcount-dead objects
  batch,            \* per agent: its sweep's unreachable set
  freer,            \* holder of freeObjectsMutex_
  ctx,              \* MutatorContext::state
  depth,            \* MutatorContext::runningDepth
  prior,            \* pollContext's local prior
  noPark,           \* tlGCNoParkDepth_ > 0
  section,          \* tlGCYieldSectionDepth_
  scoped,           \* the thread has a CollectionDeferralScope open
  gcBase,           \* collections when the thread called gc(), -1 outside
  gcLast,           \* gc() is in its last safepoint
  asleep,           \* Running threads asleep outside safepointCv_
  sleepers,         \* threads asleep on safepointCv_ with no timeout
  holder,           \* who holds mutex_ across steps
  pc, cpc           \* program counters

gcVars     == <<requested, inProgress, worldStopped, externalActive, fence, collections>>
roleVars   == <<enabled, dedicatedActive, stop, hostPc>>
latchVars  == <<deferDepth, deferredPending, deferredWake, requests>>
drainVars  == <<draining, refDead, batch, freer>>
localVars  == <<noPark, section, scoped, gcBase, gcLast>>
ctxVars    == <<ctx, depth, prior>>
waitVars   == <<asleep, sleepers>>
vars == <<gcVars, roleVars, latchVars, rtCount, drainVars, localVars, ctxVars,
          waitVars, holder, pc, cpc>>

Agents == Threads \union {Coll}

State == {"Inactive", "Running", "Parked", "SafeBlocked"}

RequestPC == {"rqEnabled", "rqDepth", "rqLatch", "rqRecheck", "rqTake", "rqPublish", "rqWake"}
ParkedPC  == {"parkWait", "barrier", "drainWait", "collecting"}
SectionPC == {"rtCheck", "rtCheck2", "rtBackOut"}
PC == {"user", "enterWait", "blocked", "exitWait", "scTake", "gcLoop", "gcRet", "pollLock",
       "tail", "tailFree", "tailFreeing", "tailFence"}
      \union RequestPC \union ParkedPC \union SectionPC
CollPC == {"idle", "drain", "draining", "drained", "barrier", "collecting",
           "reclaim", "reclaiming", "reclaimed", "gone"}

FlagsOK ==
  /\ requested \in BOOLEAN /\ inProgress \in BOOLEAN /\ worldStopped \in BOOLEAN
  /\ externalActive \in BOOLEAN /\ fence \in BOOLEAN /\ collections \in Nat
  /\ enabled \in BOOLEAN /\ dedicatedActive \in BOOLEAN /\ stop \in BOOLEAN
  /\ hostPc \in {"on", "clear", "off"}
  /\ deferDepth \in Int /\ deferredPending \in BOOLEAN /\ deferredWake \in BOOLEAN
  /\ requests \in Nat /\ rtCount \in Int

DrainOK ==
  /\ draining \in Int /\ refDead \in BOOLEAN
  /\ batch \in [Agents -> {"none", "held", "queued"}]
  /\ freer \in Agents \union {None}

LocalOK ==
  /\ ctx \in [Threads -> State] /\ depth \in [Threads -> Nat]
  /\ prior \in [Threads -> State]
  /\ noPark \in [Threads -> BOOLEAN] /\ section \in [Threads -> Nat]
  /\ scoped \in [Threads -> BOOLEAN] /\ gcBase \in [Threads -> Int]
  /\ gcLast \in [Threads -> BOOLEAN]
  /\ asleep \in SUBSET Threads /\ sleepers \in SUBSET Threads

PlaceOK ==
  /\ holder \in Agents \union {None}
  /\ pc \in [Threads -> PC] /\ cpc \in CollPC

(* Every variable keeps its type; in particular no depth, section or count of
   requests goes negative however enterRunning/exitRunning, safe blocks and
   sections nest. *)
TypeOK == FlagsOK /\ DrainOK /\ LocalOK /\ PlaceOK

(* startCollectorThread has run; only the engine's thread is registered. *)
Init ==
  /\ requested = FALSE /\ inProgress = FALSE /\ worldStopped = FALSE
  /\ externalActive = FALSE /\ fence = FALSE /\ collections = 0
  /\ enabled = TRUE /\ dedicatedActive = Dedicated /\ stop = FALSE
  /\ hostPc = "on"
  /\ deferDepth = 0 /\ deferredPending = FALSE /\ deferredWake = FALSE
  /\ requests = 0 /\ rtCount = 0
  /\ draining = 0 /\ refDead = FALSE
  /\ batch = [a \in Agents |-> "none"] /\ freer = None
  /\ ctx = [t \in Threads |-> IF t \in Engine THEN "Running" ELSE "Inactive"]
  /\ depth = [t \in Threads |-> IF t \in Engine THEN 1 ELSE 0]
  /\ prior = [t \in Threads |-> "Inactive"]
  /\ noPark = [t \in Threads |-> FALSE] /\ section = [t \in Threads |-> 0]
  /\ scoped = [t \in Threads |-> FALSE] /\ gcBase = [t \in Threads |-> -1]
  /\ gcLast = [t \in Threads |-> FALSE]
  /\ asleep = {} /\ sleepers = {} /\ holder = None
  /\ pc = [t \in Threads |-> "user"] /\ cpc = "idle"

-----------------------------------------------------------------------------
Goto(t, l)  == pc' = [pc EXCEPT ![t] = l]
Unlocked    == holder = None
Awake(t)    == t \notin sleepers /\ t \notin asleep
NotifyAll   == sleepers' = {}
WakeAllThreads == asleep' = {}

(* A thread in user code: not asleep, not inside a GC call, not joined. *)
AtUser(t)   == pc[t] = "user" /\ Awake(t) /\ ~stop /\ gcBase[t] = -1

anyRunning  == \E t \in Threads : ctx[t] = "Running"
(* Seeded fault: the barrier forgets the RT sections. *)
BarrierOpen_NoSections == ~anyRunning

BarrierOpen == ~anyRunning /\ rtCount = 0
WorldBusy   == worldStopped \/ inProgress
SomeoneElseCollects == dedicatedActive \/ externalActive
hasRetired  == refDead \/ \E a \in Agents : batch[a] = "queued"

-----------------------------------------------------------------------------
(* Registration and blocking regions *)

BecomeRunning(t) ==
  /\ depth' = [depth EXCEPT ![t] = @ + 1]
  /\ ctx' = IF depth[t] = 0 THEN [ctx EXCEPT ![t] = "Running"] ELSE ctx
  /\ Goto(t, "user")
  /\ NotifyAll

(* Only the 0 -> 1 transition waits out a collection. *)
EnterRunning(t) ==
  /\ AtUser(t) /\ t \in Mutators /\ Unlocked /\ depth[t] < MaxDepth
  /\ IF depth[t] = 0 /\ WorldBusy
     THEN /\ Goto(t, "enterWait")
          /\ sleepers' = sleepers \union {t}
          /\ UNCHANGED <<depth, ctx>>
     ELSE BecomeRunning(t)
  /\ UNCHANGED <<gcVars, roleVars, latchVars, rtCount, drainVars, localVars, prior, asleep, holder, cpc>>

EnterWait(t) ==
  /\ pc[t] = "enterWait" /\ Awake(t) /\ Unlocked
  /\ IF WorldBusy
     THEN /\ sleepers' = sleepers \union {t}
          /\ UNCHANGED <<depth, ctx, pc>>
     ELSE BecomeRunning(t)
  /\ UNCHANGED <<gcVars, roleVars, latchVars, rtCount, drainVars, localVars, prior, asleep, holder, cpc>>

(* Seeded fault: the depth is decremented without looking at it. *)
ExitRunning_Unbalanced(t) ==
  /\ AtUser(t) /\ Unlocked /\ t \notin Engine
  /\ depth' = [depth EXCEPT ![t] = @ - 1]
  /\ ctx' = IF depth[t] = 1 THEN [ctx EXCEPT ![t] = "Inactive"] ELSE ctx
  /\ NotifyAll
  /\ UNCHANGED <<gcVars, roleVars, latchVars, rtCount, drainVars, localVars, prior, asleep, holder, pc, cpc>>

ExitRunning(t) ==
  /\ AtUser(t) /\ Unlocked /\ depth[t] > IF t \in Engine THEN 1 ELSE 0
  /\ depth' = [depth EXCEPT ![t] = @ - 1]
  /\ ctx' = IF depth[t] = 1 THEN [ctx EXCEPT ![t] = "Inactive"] ELSE ctx
  /\ NotifyAll
  /\ UNCHANGED <<gcVars, roleVars, latchVars, rtCount, drainVars, localVars, prior, asleep, holder, pc, cpc>>

(* blockEnter declares the context SafeBlocked whatever scopes are open. *)
BlockEnter(t) ==
  /\ AtUser(t) /\ Unlocked /\ section[t] = 0 /\ t \in Mutators \ Engine
  /\ ctx' = [ctx EXCEPT ![t] = "SafeBlocked"]
  /\ Goto(t, "blocked")
  /\ NotifyAll
  /\ UNCHANGED <<gcVars, roleVars, latchVars, rtCount, drainVars, localVars, depth, prior, asleep, holder, cpc>>

BlockExit(t) ==
  /\ pc[t] \in {"blocked", "exitWait"} /\ Awake(t) /\ Unlocked
  /\ IF WorldBusy
     THEN /\ Goto(t, "exitWait")
          /\ sleepers' = sleepers \union {t}
          /\ UNCHANGED ctx
     ELSE /\ ctx' = [ctx EXCEPT ![t] = IF depth[t] > 0 THEN "Running" ELSE "Inactive"]
          /\ Goto(t, "user")
          /\ UNCHANGED sleepers
  /\ UNCHANGED <<gcVars, roleVars, latchVars, rtCount, drainVars, localVars, depth, prior, asleep, holder, cpc>>

NoParkToggle(t) ==
  /\ AtUser(t) /\ t \in NoParkers
  /\ noPark' = [noPark EXCEPT ![t] = ~@]
  /\ UNCHANGED <<gcVars, roleVars, latchVars, rtCount, drainVars, ctxVars, waitVars,
                 section, scoped, gcBase, gcLast, holder, pc, cpc>>

(* The dispatch loop polls before it sleeps, so a thread falls asleep only
   when no request was visible. *)
Sleep(t) ==
  /\ AtUser(t) /\ t \in Sleepy /\ ctx[t] = "Running" /\ section[t] = 0 /\ ~requested
  /\ asleep' = asleep \union {t}
  /\ UNCHANGED <<gcVars, roleVars, latchVars, rtCount, drainVars, localVars, ctxVars,
                 sleepers, holder, pc, cpc>>

(* Something other than the GC (a message, a deadline) wakes the thread. *)
Wake(t) ==
  /\ t \in asleep
  /\ asleep' = asleep \ {t}
  /\ UNCHANGED <<gcVars, roleVars, latchVars, rtCount, drainVars, localVars, ctxVars,
                 sleepers, holder, pc, cpc>>

-----------------------------------------------------------------------------
(* RT yield sections: tryEnterGCSection publishes its count, then checks *)

SectionEnter(t) ==
  /\ AtUser(t) /\ t \in RT /\ section[t] < MaxDepth
  /\ IF section[t] > 0
     THEN /\ section' = [section EXCEPT ![t] = @ + 1]
          /\ UNCHANGED <<rtCount, pc>>
     ELSE /\ rtCount' = rtCount + 1
          /\ Goto(t, "rtCheck")
          /\ UNCHANGED section
  /\ UNCHANGED <<gcVars, roleVars, latchVars, drainVars, ctxVars, waitVars,
                 noPark, scoped, gcBase, gcLast, holder, cpc>>

SectionCheckRequested(t) ==
  /\ pc[t] = "rtCheck"
  /\ Goto(t, IF requested THEN "rtBackOut" ELSE "rtCheck2")
  /\ UNCHANGED <<gcVars, roleVars, latchVars, rtCount, drainVars, localVars, ctxVars,
                 waitVars, holder, cpc>>

SectionCheckInProgress(t) ==
  /\ pc[t] = "rtCheck2"
  /\ IF inProgress
     THEN /\ Goto(t, "rtBackOut")
          /\ UNCHANGED section
     ELSE /\ Goto(t, "user")
          /\ section' = [section EXCEPT ![t] = 1]
  /\ UNCHANGED <<gcVars, roleVars, latchVars, rtCount, drainVars, ctxVars, waitVars,
                 noPark, scoped, gcBase, gcLast, holder, cpc>>

SectionBackOut(t) ==
  /\ pc[t] = "rtBackOut"
  /\ rtCount' = rtCount - 1
  /\ Goto(t, "user")
  /\ UNCHANGED <<gcVars, roleVars, latchVars, drainVars, localVars, ctxVars, waitVars, holder, cpc>>

SectionExit(t) ==
  /\ AtUser(t) /\ section[t] > 0
  /\ section' = [section EXCEPT ![t] = @ - 1]
  /\ rtCount' = IF section[t] = 1 THEN rtCount - 1 ELSE rtCount
  /\ UNCHANGED <<gcVars, roleVars, latchVars, drainVars, ctxVars, waitVars,
                 noPark, scoped, gcBase, gcLast, holder, pc, cpc>>

-----------------------------------------------------------------------------
(* requestCollect, and the deferral scope whose last exit publishes *)

RequestReturn(t) == Goto(t, IF gcBase[t] >= 0 THEN "gcLoop" ELSE "user")

(* An allocation crosses the auto-trigger threshold. *)
RequestCall(t) ==
  /\ AtUser(t) /\ requests < MaxRequests
  /\ requests' = requests + 1
  /\ Goto(t, "rqEnabled")
  /\ UNCHANGED <<gcVars, roleVars, deferDepth, deferredPending, deferredWake, rtCount, drainVars,
                 localVars, ctxVars, waitVars, holder, cpc>>

RequestEnabled(t) ==
  /\ pc[t] = "rqEnabled"
  /\ IF enabled THEN Goto(t, "rqDepth") ELSE RequestReturn(t)
  /\ UNCHANGED <<gcVars, roleVars, latchVars, rtCount, drainVars, localVars, ctxVars,
                 waitVars, holder, cpc>>

RequestDepth(t) ==
  /\ pc[t] = "rqDepth"
  /\ Goto(t, IF deferDepth > 0 THEN "rqLatch" ELSE "rqPublish")
  /\ UNCHANGED <<gcVars, roleVars, latchVars, rtCount, drainVars, localVars, ctxVars,
                 waitVars, holder, cpc>>

(* Seeded fault: the requester latches and returns without looking again. *)
RequestLatch_NoRecheck(t) ==
  /\ pc[t] = "rqLatch"
  /\ deferredPending' = TRUE
  /\ RequestReturn(t)
  /\ UNCHANGED <<gcVars, roleVars, deferDepth, deferredWake, requests, rtCount, drainVars,
                 localVars, ctxVars, waitVars, holder, cpc>>

RequestLatch(t) ==
  /\ pc[t] = "rqLatch"
  /\ deferredPending' = TRUE
  /\ Goto(t, "rqRecheck")
  /\ UNCHANGED <<gcVars, roleVars, deferDepth, deferredWake, requests, rtCount, drainVars,
                 localVars, ctxVars, waitVars, holder, cpc>>

RequestRecheck(t) ==
  /\ pc[t] = "rqRecheck"
  /\ IF deferDepth > 0 THEN RequestReturn(t) ELSE Goto(t, "rqTake")
  /\ UNCHANGED <<gcVars, roleVars, latchVars, rtCount, drainVars, localVars, ctxVars,
                 waitVars, holder, cpc>>

RequestTake(t) ==
  /\ pc[t] = "rqTake"
  /\ IF deferredPending THEN Goto(t, "rqPublish") ELSE RequestReturn(t)
  /\ deferredPending' = FALSE
  /\ UNCHANGED <<gcVars, roleVars, deferDepth, deferredWake, requests, rtCount, drainVars,
                 localVars, ctxVars, waitVars, holder, cpc>>

RequestPublish(t) ==
  /\ pc[t] = "rqPublish"
  /\ requested' = TRUE
  /\ Goto(t, "rqWake")
  /\ UNCHANGED <<inProgress, worldStopped, externalActive, fence, collections, roleVars,
                 latchVars, rtCount, drainVars, localVars, ctxVars, waitVars, holder, cpc>>

(* wakeAllThreadsForGC takes sleep mutexes, so an RT section defers it. *)
RequestWake(t) ==
  /\ pc[t] = "rqWake"
  /\ IF section[t] > 0
     THEN deferredWake' = TRUE /\ UNCHANGED asleep
     ELSE WakeAllThreads /\ UNCHANGED deferredWake
  /\ RequestReturn(t)
  /\ UNCHANGED <<gcVars, roleVars, deferDepth, deferredPending, requests, rtCount, drainVars,
                 localVars, ctxVars, sleepers, holder, cpc>>

ScopeEnter(t) ==
  /\ AtUser(t) /\ t \in Scopers /\ ~scoped[t]
  /\ scoped' = [scoped EXCEPT ![t] = TRUE]
  /\ deferDepth' = deferDepth + 1
  /\ UNCHANGED <<gcVars, roleVars, deferredPending, deferredWake, requests, rtCount, drainVars,
                 ctxVars, waitVars, noPark, section, gcBase, gcLast, holder, pc, cpc>>

ScopeExit(t) ==
  /\ AtUser(t) /\ scoped[t]
  /\ scoped' = [scoped EXCEPT ![t] = FALSE]
  /\ deferDepth' = deferDepth - 1
  /\ IF deferDepth = 1 THEN Goto(t, "scTake") ELSE UNCHANGED pc
  /\ UNCHANGED <<gcVars, roleVars, deferredPending, deferredWake, requests, rtCount, drainVars,
                 ctxVars, waitVars, noPark, section, gcBase, gcLast, holder, cpc>>

ScopeTake(t) ==
  /\ pc[t] = "scTake"
  /\ Goto(t, IF deferredPending THEN "rqEnabled" ELSE "user")
  /\ deferredPending' = FALSE
  /\ UNCHANGED <<gcVars, roleVars, deferDepth, deferredWake, requests, rtCount, drainVars,
                 localVars, ctxVars, waitVars, holder, cpc>>

-----------------------------------------------------------------------------
(* pollContext: park, then wait out another's collection or self-elect *)

(* safepoint() is reached from execute() and from external participants, both
   inside enterRunning. *)
MayPark(t) ==
  /\ ctx[t] = "Running" /\ enabled /\ requested
  /\ section[t] = 0 /\ ~noPark[t]

PollEnter(t) ==
  /\ MayPark(t)
  /\ Goto(t, "pollLock")
  /\ deferredWake' = FALSE
  /\ IF deferredWake THEN WakeAllThreads ELSE UNCHANGED asleep
  /\ UNCHANGED <<gcVars, roleVars, deferDepth, deferredPending, requests, rtCount, drainVars,
                 ctxVars, sleepers, noPark, section, scoped, gcBase, holder, cpc>>

Poll(t) ==
  /\ AtUser(t)
  /\ PollEnter(t)
  /\ UNCHANGED gcLast

PollReturn(t) ==
  Goto(t, IF gcBase[t] < 0 THEN "user" ELSE IF gcLast[t] THEN "gcRet" ELSE "gcLoop")

(* Unlock, restoring the state the context had before it parked. *)
Unpark(t) ==
  /\ ctx' = [ctx EXCEPT ![t] = prior[t]]
  /\ Goto(t, "tail")
  /\ NotifyAll

PollLock(t) ==
  /\ pc[t] = "pollLock" /\ Unlocked
  /\ IF requested
     THEN /\ prior' = [prior EXCEPT ![t] = ctx[t]]
          /\ ctx' = [ctx EXCEPT ![t] = "Parked"]
          /\ Goto(t, IF SomeoneElseCollects THEN "parkWait" ELSE "barrier")
          /\ NotifyAll
     ELSE /\ PollReturn(t)
          /\ UNCHANGED <<ctx, prior, sleepers>>
  /\ UNCHANGED <<gcVars, roleVars, latchVars, rtCount, drainVars, localVars, depth, asleep, holder, cpc>>

(* Seeded fault: waiters do not wait out the reclamation. *)
ParkWait_NoFence(t) ==
  /\ pc[t] = "parkWait" /\ Awake(t) /\ Unlocked
  /\ IF requested
     THEN /\ sleepers' = sleepers \union {t}
          /\ UNCHANGED <<ctx, pc>>
     ELSE Unpark(t)
  /\ UNCHANGED <<gcVars, roleVars, latchVars, rtCount, drainVars, localVars, depth, prior, asleep,
                 holder, cpc>>

ParkWait(t) ==
  /\ pc[t] = "parkWait" /\ Awake(t) /\ Unlocked
  /\ IF requested \/ fence
     THEN /\ sleepers' = sleepers \union {t}
          /\ UNCHANGED <<ctx, pc>>
     ELSE Unpark(t)
  /\ UNCHANGED <<gcVars, roleVars, latchVars, rtCount, drainVars, localVars, depth, prior, asleep,
                 holder, cpc>>

(* Claiming the window and the role is one decision under mutex_; the mark
   starts only when no drain is in flight. *)
StartMark(a) ==
  /\ inProgress' = TRUE
  /\ holder' = a

(* Seeded fault: the role is published only once the drain wait is over. *)
BarrierStep_LateRole(t) ==
  /\ pc[t] = "barrier" /\ Unlocked
  /\ \/ /\ ~requested
        /\ Unpark(t)
        /\ UNCHANGED <<inProgress, worldStopped, externalActive, holder>>
     \/ /\ requested /\ SomeoneElseCollects
        /\ Goto(t, "parkWait")
        /\ UNCHANGED <<inProgress, worldStopped, externalActive, holder, ctx, sleepers>>
     \/ /\ requested /\ ~SomeoneElseCollects /\ BarrierOpen
        /\ worldStopped' = TRUE /\ externalActive' = (draining = 0)
        /\ IF draining = 0
           THEN StartMark(t) /\ Goto(t, "collecting")
           ELSE UNCHANGED <<inProgress, holder>> /\ Goto(t, "drainWait")
        /\ UNCHANGED <<ctx, sleepers>>
  /\ UNCHANGED <<requested, fence, collections, roleVars, latchVars, rtCount, drainVars, localVars,
                 depth, prior, asleep, cpc>>

BarrierStep(t) ==
  /\ pc[t] = "barrier" /\ Unlocked
  /\ \/ /\ ~requested
        /\ Unpark(t)
        /\ UNCHANGED <<inProgress, worldStopped, externalActive, holder>>
     \/ /\ requested /\ SomeoneElseCollects
        /\ Goto(t, "parkWait")
        /\ UNCHANGED <<inProgress, worldStopped, externalActive, holder, ctx, sleepers>>
     \/ /\ requested /\ ~SomeoneElseCollects /\ BarrierOpen
        /\ worldStopped' = TRUE /\ externalActive' = TRUE
        /\ IF draining = 0
           THEN StartMark(t) /\ Goto(t, "collecting")
           ELSE UNCHANGED <<inProgress, holder>> /\ Goto(t, "drainWait")
        /\ UNCHANGED <<ctx, sleepers>>
  /\ UNCHANGED <<requested, fence, collections, roleVars, latchVars, rtCount, drainVars, localVars,
                 depth, prior, asleep, cpc>>

(* waitForRunningAtBarrier: whoever waits for Running threads wakes everyone
   again each time its wait times out. *)
(* Seeded fault: the barrier waits unattended. *)
Rewake_Never == deferredWake' = FALSE /\ UNCHANGED asleep

Rewake == deferredWake' = FALSE /\ WakeAllThreads

HeldUpByRunning == requested /\ anyRunning /\ rtCount = 0

BarrierRewake(t) ==
  /\ pc[t] = "barrier" /\ Unlocked /\ ~SomeoneElseCollects /\ HeldUpByRunning
  /\ Rewake
  /\ UNCHANGED <<gcVars, roleVars, deferDepth, deferredPending, requests, rtCount, drainVars,
                 localVars, ctxVars, sleepers, holder, pc, cpc>>

DrainWait(t) ==
  /\ pc[t] = "drainWait" /\ Unlocked /\ draining = 0
  /\ StartMark(t) /\ Goto(t, "collecting")
  /\ UNCHANGED <<requested, worldStopped, externalActive, fence, collections, roleVars, latchVars,
                 rtCount, drainVars, localVars, ctxVars, waitVars, cpc>>

(* Seeded fault: the request drops without the fence going up. *)
FinishCollection_NoFence(a) ==
  /\ inProgress' = FALSE /\ worldStopped' = FALSE /\ externalActive' = FALSE
  /\ fence' = fence /\ requested' = FALSE
  /\ collections' = collections + 1
  /\ batch' \in {[batch EXCEPT ![a] = "held"], batch}
  /\ holder' = None

(* The end of performCollection and what its caller publishes before it
   releases mutex_: the fence goes up before the request drops.  A sweep may
   find nothing. *)
FinishCollection(a) ==
  /\ inProgress' = FALSE /\ worldStopped' = FALSE /\ externalActive' = FALSE
  /\ fence' = TRUE /\ requested' = FALSE
  /\ collections' = collections + 1
  /\ batch' \in {[batch EXCEPT ![a] = "held"], batch}
  /\ holder' = None

Collect(t) ==
  /\ pc[t] = "collecting"
  /\ FinishCollection(t)
  /\ Unpark(t)
  /\ UNCHANGED <<roleVars, latchVars, rtCount, draining, refDead, freer, localVars, depth, prior,
                 asleep, cpc>>

-----------------------------------------------------------------------------
(* Retirement and freeObjects *)

(* A refcount reaches zero and the object is queued; the empty -> non-empty
   transition notifies unless the thread is inside an RT section. *)
Retire(t) ==
  /\ AtUser(t) /\ (ctx[t] = "Running" \/ section[t] > 0) /\ ~refDead
  /\ refDead' = TRUE
  /\ IF ~hasRetired /\ section[t] = 0 THEN NotifyAll ELSE UNCHANGED sleepers
  /\ UNCHANGED <<gcVars, roleVars, latchVars, rtCount, draining, batch, freer, localVars, ctxVars,
                 asleep, holder, pc, cpc>>

reclaimBegin == draining' = draining + 1

reclaimEnd ==
  /\ draining' = draining - 1
  /\ IF draining = 1 THEN NotifyAll ELSE UNCHANGED sleepers

(* freeObjects, split at its two ends: it serialises on freeObjectsMutex_ and
   drains until the queue is empty, whoever queued the objects. *)
FreeBegin(a) ==
  /\ freer = None /\ freer' = a
  /\ reclaimBegin

FreeEnd(a) ==
  /\ freer = a /\ freer' = None
  /\ refDead' = FALSE
  /\ batch' = [b \in Agents |-> IF batch[b] = "queued" THEN "none" ELSE batch[b]]
  /\ reclaimEnd

(* retireObjects publishes a whole sweep with one CAS. *)
TailRetire(t) ==
  /\ pc[t] = "tail"
  /\ IF batch[t] = "held"
     THEN /\ batch' = [batch EXCEPT ![t] = "queued"]
          /\ IF ~hasRetired THEN NotifyAll ELSE UNCHANGED sleepers
          /\ Goto(t, "tailFree")
     ELSE /\ Goto(t, "tailFence")
          /\ UNCHANGED <<batch, sleepers>>
  /\ UNCHANGED <<gcVars, roleVars, latchVars, rtCount, draining, refDead, freer, localVars, ctxVars,
                 asleep, holder, cpc>>

TailFree(t) ==
  /\ pc[t] = "tailFree"
  /\ FreeBegin(t)
  /\ Goto(t, "tailFreeing")
  /\ UNCHANGED <<gcVars, roleVars, latchVars, rtCount, refDead, batch, localVars, ctxVars, waitVars,
                 holder, cpc>>

TailFreed(t) ==
  /\ pc[t] = "tailFreeing"
  /\ FreeEnd(t)
  /\ Goto(t, "tailFence")
  /\ UNCHANGED <<gcVars, roleVars, latchVars, rtCount, localVars, ctxVars, asleep, holder, cpc>>

(* The end of pollContext drops the fence whenever it is up. *)
TailFence(t) ==
  /\ pc[t] = "tailFence"
  /\ fence' = FALSE
  /\ IF fence THEN NotifyAll ELSE UNCHANGED sleepers
  /\ PollReturn(t)
  /\ UNCHANGED <<requested, inProgress, worldStopped, externalActive, collections, roleVars,
                 latchVars, rtCount, drainVars, localVars, ctxVars, asleep, holder, cpc>>

-----------------------------------------------------------------------------
(* gc(): request, wait out a latched request, then one last safepoint *)

GcCall(t) ==
  /\ AtUser(t) /\ t \in GcCallers /\ ctx[t] = "Running" /\ section[t] = 0 /\ ~noPark[t]
  /\ ~scoped[t] /\ requests < MaxRequests
  /\ requests' = requests + 1
  /\ gcBase' = [gcBase EXCEPT ![t] = collections]
  /\ Goto(t, "rqEnabled")
  /\ UNCHANGED <<gcVars, roleVars, deferDepth, deferredPending, deferredWake, rtCount, drainVars,
                 ctxVars, waitVars, noPark, section, scoped, gcLast, holder, cpc>>

(* While a request is latched gc() parks for a collection in flight; with
   none in flight it sleeps a millisecond and looks again, which changes
   nothing. *)
GcLoopPark(t) ==
  /\ pc[t] = "gcLoop" /\ deferredPending
  /\ PollEnter(t)
  /\ UNCHANGED gcLast

GcLastPoll(t) ==
  /\ pc[t] = "gcLoop" /\ ~deferredPending
  /\ gcLast' = [gcLast EXCEPT ![t] = TRUE]
  /\ \/ PollEnter(t)
     \/ /\ ~MayPark(t)
        /\ Goto(t, "gcRet")
        /\ UNCHANGED <<gcVars, roleVars, latchVars, rtCount, drainVars, ctxVars, waitVars, noPark,
                       section, scoped, gcBase, holder, cpc>>

GcReturn(t) ==
  /\ pc[t] = "gcRet"
  /\ Goto(t, "user")
  /\ gcBase' = [gcBase EXCEPT ![t] = -1]
  /\ gcLast' = [gcLast EXCEPT ![t] = FALSE]
  /\ UNCHANGED <<gcVars, roleVars, latchVars, rtCount, drainVars, ctxVars, waitVars, noPark,
                 section, scoped, holder, cpc>>

-----------------------------------------------------------------------------
(* collectorThreadMain *)

(* Seeded fault: the thread stays until the retire queue is empty. *)
CollStop_WhenDrained ==
  /\ cpc = "idle" /\ Unlocked /\ stop /\ ~hasRetired
  /\ cpc' = "gone"
  /\ UNCHANGED <<gcVars, roleVars, latchVars, rtCount, drainVars, localVars, ctxVars, waitVars,
                 holder, pc>>

CollStop ==
  /\ cpc = "idle" /\ Unlocked /\ stop
  /\ cpc' = "gone"
  /\ UNCHANGED <<gcVars, roleVars, latchVars, rtCount, drainVars, localVars, ctxVars, waitVars,
                 holder, pc>>

(* Seeded fault: the drain window opens only inside freeObjects. *)
CollDrain_LateWindow ==
  /\ cpc = "idle" /\ Unlocked /\ ~stop
  /\ ~(Dedicated /\ requested) /\ hasRetired /\ ~inProgress
  /\ cpc' = "drain"
  /\ UNCHANGED <<gcVars, roleVars, latchVars, rtCount, drainVars, localVars, ctxVars,
                 waitVars, holder, pc>>

(* Between collections the thread drains the retire queue, and opens the
   drain window before it releases mutex_. *)
CollDrain ==
  /\ cpc = "idle" /\ Unlocked /\ ~stop
  /\ ~(Dedicated /\ requested) /\ hasRetired /\ ~inProgress
  /\ reclaimBegin
  /\ cpc' = "drain"
  /\ UNCHANGED <<gcVars, roleVars, latchVars, rtCount, refDead, batch, freer, localVars, ctxVars,
                 waitVars, holder, pc>>

CollFree ==
  /\ cpc = "drain"
  /\ FreeBegin(Coll)
  /\ cpc' = "draining"
  /\ UNCHANGED <<gcVars, roleVars, latchVars, rtCount, refDead, batch, localVars, ctxVars, waitVars,
                 holder, pc>>

CollFreed ==
  /\ cpc \in {"draining", "reclaiming"}
  /\ FreeEnd(Coll)
  /\ cpc' = IF cpc = "draining" THEN "drained" ELSE "reclaimed"
  /\ UNCHANGED <<gcVars, roleVars, latchVars, rtCount, localVars, ctxVars, asleep, holder, pc>>

CollDrained ==
  /\ cpc = "drained" /\ Unlocked
  /\ reclaimEnd
  /\ cpc' = "idle"
  /\ UNCHANGED <<gcVars, roleVars, latchVars, rtCount, refDead, batch, freer, localVars, ctxVars,
                 asleep, holder, pc>>

CollBarrier ==
  /\ Unlocked
  /\ \/ /\ cpc = "idle" /\ ~stop /\ Dedicated /\ requested
        /\ cpc' = "barrier"
        /\ UNCHANGED <<inProgress, worldStopped, externalActive, holder>>
     \/ /\ cpc = "barrier" /\ (stop \/ ~requested)
        /\ cpc' = "idle"
        /\ UNCHANGED <<inProgress, worldStopped, externalActive, holder>>
     \/ /\ cpc = "barrier" /\ ~stop /\ requested /\ BarrierOpen
        /\ worldStopped' = TRUE /\ externalActive' = TRUE
        /\ StartMark(Coll)
        /\ cpc' = "collecting"
  /\ UNCHANGED <<requested, fence, collections, roleVars, latchVars, rtCount, drainVars, localVars,
                 ctxVars, waitVars, pc>>

CollRewake ==
  /\ cpc = "barrier" /\ Unlocked /\ ~stop /\ HeldUpByRunning
  /\ Rewake
  /\ UNCHANGED <<gcVars, roleVars, deferDepth, deferredPending, requests, rtCount, drainVars,
                 localVars, ctxVars, sleepers, holder, pc, cpc>>

CollCollect ==
  /\ cpc = "collecting"
  /\ FinishCollection(Coll)
  /\ cpc' = "reclaim"
  /\ UNCHANGED <<roleVars, latchVars, rtCount, draining, refDead, freer, localVars, ctxVars, waitVars,
                 pc>>

(* retireObjects, then freeObjects, outside mutex_ *)
CollReclaim ==
  /\ cpc = "reclaim"
  /\ FreeBegin(Coll)
  /\ batch' = [batch EXCEPT ![Coll] = IF @ = "held" THEN "queued" ELSE @]
  /\ IF batch[Coll] = "held" /\ ~hasRetired THEN NotifyAll ELSE UNCHANGED sleepers
  /\ cpc' = "reclaiming"
  /\ UNCHANGED <<gcVars, roleVars, latchVars, rtCount, refDead, localVars, ctxVars, asleep, holder,
                 pc>>

(* Seeded fault: the fence drops without a notify. *)
CollFenceDown_Silent ==
  /\ cpc = "reclaimed" /\ Unlocked
  /\ fence' = FALSE
  /\ cpc' = "idle"
  /\ UNCHANGED <<requested, inProgress, worldStopped, externalActive, collections, roleVars,
                 latchVars, rtCount, drainVars, localVars, ctxVars, waitVars, holder, pc>>

CollFenceDown ==
  /\ cpc = "reclaimed" /\ Unlocked
  /\ fence' = FALSE
  /\ NotifyAll
  /\ cpc' = "idle"
  /\ UNCHANGED <<requested, inProgress, worldStopped, externalActive, collections, roleVars,
                 latchVars, rtCount, drainVars, localVars, ctxVars, asleep, holder, pc>>

-----------------------------------------------------------------------------
(* The host: setEnabled, and the collector's shutdown *)

SetDisabled ==
  /\ CanDisable /\ hostPc = "on" /\ ~stop
  /\ enabled' = FALSE /\ hostPc' = "clear"
  /\ UNCHANGED <<gcVars, dedicatedActive, stop, latchVars, rtCount, drainVars, localVars, ctxVars,
                 waitVars, holder, pc, cpc>>

DisableClear ==
  /\ hostPc = "clear" /\ Unlocked
  /\ requested' = FALSE
  /\ hostPc' = "off"
  /\ NotifyAll
  /\ UNCHANGED <<inProgress, worldStopped, externalActive, fence, collections, enabled,
                 dedicatedActive, stop, latchVars, rtCount, drainVars, localVars, ctxVars, asleep,
                 holder, pc, cpc>>

SetEnabled ==
  /\ hostPc = "off" /\ ~stop
  /\ enabled' = TRUE /\ hostPc' = "on"
  /\ UNCHANGED <<gcVars, dedicatedActive, stop, latchVars, rtCount, drainVars, localVars, ctxVars,
                 waitVars, holder, pc, cpc>>

(* VM::shutdown stops the collector after requestExit has joined every VM
   thread: no context is Running and no section is open. *)
StopCollector ==
  /\ CanStop /\ ~stop /\ Unlocked /\ hostPc # "clear"
  /\ \A t \in Threads : pc[t] = "user" /\ depth[t] = 0 /\ section[t] = 0 /\ ~scoped[t]
  /\ stop' = TRUE /\ dedicatedActive' = FALSE /\ requested' = FALSE
  /\ NotifyAll
  /\ UNCHANGED <<inProgress, worldStopped, externalActive, fence, collections, enabled, hostPc,
                 latchVars, rtCount, drainVars, localVars, ctxVars, asleep, holder, pc, cpc>>

-----------------------------------------------------------------------------
(* The steps a thread takes once it is inside a GC call. *)
ThreadStep(t) ==
  \/ EnterWait(t)
  \/ SectionCheckRequested(t) \/ SectionCheckInProgress(t) \/ SectionBackOut(t)
  \/ RequestEnabled(t) \/ RequestDepth(t) \/ RequestLatch(t) \/ RequestRecheck(t)
  \/ RequestTake(t) \/ RequestPublish(t) \/ RequestWake(t) \/ ScopeTake(t)
  \/ PollLock(t) \/ ParkWait(t) \/ BarrierStep(t) \/ DrainWait(t) \/ Collect(t)
  \/ TailRetire(t) \/ TailFree(t) \/ TailFreed(t) \/ TailFence(t)
  \/ GcLoopPark(t) \/ GcLastPoll(t) \/ GcReturn(t)

(* What the program a thread runs decides to do. *)
UserStep(t) ==
  \/ EnterRunning(t) \/ ExitRunning(t) \/ BlockEnter(t) \/ BlockExit(t)
  \/ NoParkToggle(t) \/ Sleep(t) \/ Wake(t)
  \/ SectionEnter(t) \/ SectionExit(t)
  \/ RequestCall(t) \/ GcCall(t) \/ ScopeEnter(t) \/ ScopeExit(t)
  \/ Poll(t) \/ Retire(t)

CollStep ==
  \/ CollStop \/ CollDrain \/ CollFree \/ CollFreed \/ CollDrained
  \/ CollBarrier \/ CollCollect \/ CollReclaim \/ CollFenceDown

HostStep == SetDisabled \/ DisableClear \/ SetEnabled \/ StopCollector

Next ==
  \/ \E t \in Threads : ThreadStep(t) \/ UserStep(t) \/ BarrierRewake(t)
  \/ CollStep \/ CollRewake
  \/ HostStep

Spec == Init /\ [][Next]_vars

(***************************************************************************)
(* A thread inside a GC call keeps going; yield sections, no-park covers   *)
(* and compilation scopes are bounded; timed waits time out (weak          *)
(* fairness).  execute() polls on entry and once per opcode, so a thread   *)
(* that is Running again and again with a request visible polls; and the   *)
(* barrier's timed wait looks again and again, so it eventually finds a    *)
(* moment at which no refused RT entry holds the count up (strong          *)
(* fairness).  Nothing forces a program to request, to register, to leave  *)
(* a blocking call or to wake up.                                          *)
(***************************************************************************)
Fairness ==
  /\ \A t \in Threads :
       /\ WF_vars(ThreadStep(t)) /\ SF_vars(BarrierRewake(t))
       /\ WF_vars(SectionExit(t)) /\ WF_vars(ScopeExit(t))
       /\ WF_vars(noPark[t] /\ NoParkToggle(t))
       /\ WF_vars(pc[t] = "exitWait" /\ BlockExit(t))
       /\ SF_vars(Poll(t)) /\ SF_vars(BarrierStep(t))
  /\ WF_vars(CollStep) /\ SF_vars(CollRewake) /\ SF_vars(CollBarrier)

FairSpec == Spec /\ Fairness

-----------------------------------------------------------------------------
Collectors == {t \in Threads : pc[t] \in {"drainWait", "collecting"}}
              \union (IF cpc = "collecting" THEN {Coll} ELSE {})

(* While performCollection marks and sweeps, no context is Running and no
   thread is inside an RT yield section: the barrier's admission decision
   still holds however threads register, unblock or enter sections after it
   (enterRunning, blockExit, tryEnterGCSection). *)
BarrierExclusion ==
  inProgress => \A t \in Threads : ctx[t] # "Running" /\ section[t] = 0

(* At most one thread holds the collector role, also when several threads
   self-elected and wait at the barrier together (pollContext's re-check). *)
SingleCollector == \A a, b \in Collectors : a = b

(* Marking and freeObjects exclude each other: dropReferences never resets a
   container the mark is tracing (reclaimDraining_, collectorThreadMain). *)
NoDrainDuringMark == inProgress => freer = None /\ draining = 0

(* A mutator that waited for another thread's collection resumes only when
   every swept batch has been destroyed (the reclaim fence). *)
FenceHolds ==
  [][\A t \in Threads : pc[t] = "parkWait" /\ pc'[t] = "tail"
       => \A a \in Agents : batch[a] = "none"]_vars

(* A request latched while a compilation scope was open always has someone
   who will still publish it once the last scope is gone (the Dekker pairing
   of requestCollect and ~CollectionDeferralScope). *)
LatchHasPublisher ==
  deferredPending /\ deferDepth = 0
    => \E t \in Threads : pc[t] \in {"scTake", "rqRecheck", "rqTake"}

(* When gc() returns, a collection that was not yet finished when it was
   called has finished and its garbage is destroyed (gc_builtin). *)
GcCollects ==
  \A t \in Threads : pc[t] = "gcRet"
    => collections > gcBase[t] /\ \A a \in Agents : batch[a] = "none"

(* Every published request is served: no interleaving of sleeping Running
   threads, deferred wakes, RT sections and the reclaim fence leaves the
   barrier waiting for ever (waitForRunningAtBarrier). *)
RequestServed == requested ~> ~requested

(* No thread stays for ever in an untimed wait on safepointCv_: each wait's
   condition is cleared and somebody notifies after clearing it. *)
NoThreadStranded ==
  \A t \in Threads :
    pc[t] \in {"parkWait", "enterWait", "exitWait"}
      ~> pc[t] \notin {"parkWait", "enterWait", "exitWait"}

(* stopCollectorThread's join returns. *)
CollectorStops == stop ~> cpc = "gone"

-----------------------------------------------------------------------------
(* The parts of the inductive invariant behind BarrierExclusion,
   SingleCollector and NoDrainDuringMark. *)

InSection == {t \in Threads : section[t] > 0 \/ pc[t] \in SectionPC}

(* rtSectionCount_ counts the threads inside or at the door of a section. *)
SectionsCounted ==
  /\ rtCount = Cardinality(InSection)
  /\ \A t \in Threads : pc[t] \in SectionPC => section[t] = 0

(* Who may collect is fixed by the profile: Coll or a self-elected thread. *)
RolesFixed ==
  /\ hostPc # "on" => CanDisable
  /\ Dedicated => dedicatedActive \/ stop
  /\ stop => \A t \in Threads : pc[t] = "user"
  /\ Dedicated => \A t \in Threads : pc[t] \notin {"barrier", "drainWait", "collecting"}
  /\ ~Dedicated => cpc \notin {"barrier", "collecting", "reclaim", "reclaiming", "reclaimed"}

(* mutex_ is held for as long as, and only while, a collection marks. *)
LockIsMark ==
  /\ inProgress <=> holder # None
  /\ \A t \in Threads : pc[t] = "collecting" <=> holder = t
  /\ cpc = "collecting" <=> holder = Coll

(* The stopped window and the collector role are claimed together. *)
ClaimIsRole ==
  /\ worldStopped <=> Collectors # {}
  /\ externalActive <=> worldStopped

(* The window opens on a stopped world and the request keeps it stopped. *)
StoppedWorld ==
  worldStopped =>
    /\ requested
    /\ \A t \in Threads : ctx[t] # "Running" /\ section[t] = 0 /\ pc[t] # "rtCheck2"

(* A thread about to park, or past its wait, is Running. *)
PollersRun ==
  \A t \in Threads :
    /\ pc[t] \in {"pollLock", "tail", "tailFree", "tailFreeing", "tailFence"} => ctx[t] = "Running"
    /\ pc[t] \in ParkedPC => prior[t] = "Running"

CollWindows == IF cpc = "draining" THEN 2 ELSE IF cpc \in {"drain", "drained", "reclaiming"} THEN 1 ELSE 0

(* reclaimDraining_ counts the open windows, and freeObjectsMutex_ its owner. *)
DrainsCounted ==
  /\ draining = CollWindows + IF freer \in Threads THEN 1 ELSE 0
  /\ \A t \in Threads : pc[t] = "tailFreeing" <=> freer = t
  /\ cpc \in {"draining", "reclaiming"} <=> freer = Coll

OpenScopes == {t \in Threads : scoped[t]}

(* deferDepth counts the open compilation scopes. *)
ScopesCounted == deferDepth = Cardinality(OpenScopes)

(* With the dedicated collector only Coll has a batch, the fence is up from
   the end of its collection until the batch is destroyed, and nobody is on
   its way to lower the fence meanwhile. *)
FenceIsBatch ==
  Dedicated =>
    /\ \A t \in Threads : batch[t] = "none"
    /\ batch[Coll] = "held" => cpc = "reclaim"
    /\ batch[Coll] = "queued" => cpc = "reclaiming"
    /\ fence <=> cpc \in {"reclaim", "reclaiming", "reclaimed"}
    /\ fence => \A t \in Threads : pc[t] \notin {"tail", "tailFree", "tailFreeing", "tailFence"}

GcPC == {"rqEnabled", "rqDepth", "rqPublish", "rqWake", "gcLoop", "pollLock", "parkWait",
         "tail", "tailFence", "gcRet"}

(* gc() of a Running thread: its request stays up until a collection has
   finished that it waited for, and it returns behind the fence. *)
GcWaits(t) ==
  /\ pc[t] \in GcPC /\ collections >= gcBase[t] /\ section[t] = 0 /\ ~noPark[t]
  /\ pc[t] # "parkWait" => ctx[t] = "Running"
  /\ pc[t] \in {"rqWake", "gcLoop", "pollLock"} => requested
  /\ pc[t] = "parkWait" => requested \/ collections > gcBase[t]
  /\ pc[t] \in {"tail", "tailFence", "gcRet"} => collections > gcBase[t] /\ ~fence
  /\ pc[t] \in {"pollLock", "parkWait", "tail", "tailFence"} => gcLast[t]

(* Where nobody compiles and the collector is never disabled. *)
GcInv ==
  /\ enabled /\ deferDepth = 0 /\ ~deferredPending
  /\ \A t \in Threads : /\ ~scoped[t] /\ pc[t] # "rqLatch"
                        /\ gcBase[t] >= 0 => GcWaits(t)
                        /\ pc[t] \in {"gcLoop", "gcRet"} => gcBase[t] >= 0

RoleInv == RolesFixed /\ LockIsMark /\ ClaimIsRole /\ SingleCollector
StopInv == TypeOK /\ RoleInv /\ SectionsCounted /\ StoppedWorld
DrainInv == PollersRun /\ DrainsCounted /\ NoDrainDuringMark
LatchInv == ScopesCounted /\ LatchHasPublisher

=============================================================================
