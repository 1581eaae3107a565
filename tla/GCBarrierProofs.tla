-------------------------- MODULE GCBarrierProofs --------------------------
(***************************************************************************)
(* Proofs, for every set of threads and every profile, of the safety       *)
(* properties of GCBarrier.                                                *)
(***************************************************************************)
EXTENDS GCBarrier, FiniteSetTheorems, TLAPS

-----------------------------------------------------------------------------
(* Types *)

(* What the end of performCollection assigns has its type. *)
LEMMA FinishType ==
  ASSUME TypeOK, NEW a \in Agents, FinishCollection(a)
  PROVE  /\ requested' \in BOOLEAN /\ inProgress' \in BOOLEAN /\ worldStopped' \in BOOLEAN
         /\ externalActive' \in BOOLEAN /\ fence' \in BOOLEAN /\ collections' \in Nat
         /\ batch' \in [Agents -> {"none", "held", "queued"}]
         /\ holder' \in Agents \union {None}
  <1>1. collections' \in Nat
    BY DEF TypeOK, FlagsOK, FinishCollection
  <1>2. batch' \in [Agents -> {"none", "held", "queued"}]
    BY DEF TypeOK, DrainOK, FinishCollection
  <1> QED
    BY <1>1, <1>2 DEF FinishCollection

(* What the end of freeObjects assigns has its type. *)
LEMMA FreeEndType ==
  ASSUME TypeOK, NEW a \in Agents, FreeEnd(a)
  PROVE  DrainOK' /\ sleepers' \in SUBSET Threads
  <1>1. batch' \in [Agents -> {"none", "held", "queued"}]
    BY DEF TypeOK, DrainOK, FreeEnd
  <1>2. draining' \in Int /\ sleepers' \in SUBSET Threads
    BY DEF TypeOK, DrainOK, LocalOK, FreeEnd, reclaimEnd, NotifyAll
  <1>3. freer' \in Agents \union {None} /\ refDead' \in BOOLEAN
    BY DEF FreeEnd
  <1> QED
    BY <1>1, <1>2, <1>3 DEF DrainOK

(* A thread's steps keep the types. *)
LEMMA ThreadType ==
  ASSUME TypeOK,
         NEW t \in Threads, ThreadStep(t) \/ UserStep(t) \/ BarrierRewake(t)
  PROVE  TypeOK'
  <1> USE ConstantsOK DEF TypeOK, FlagsOK, DrainOK, LocalOK, PlaceOK, Agents, State, PC,
         RequestPC, ParkedPC, SectionPC, CollPC, gcVars, roleVars, latchVars, drainVars,
         localVars, ctxVars, waitVars, Goto, Unlocked, Awake, NotifyAll, WakeAllThreads, AtUser,
         anyRunning, BarrierOpen, WorldBusy, SomeoneElseCollects, hasRetired, BecomeRunning,
         RequestReturn, MayPark, PollEnter, PollReturn, Unpark, StartMark, Rewake,
         HeldUpByRunning, reclaimBegin, reclaimEnd, FreeBegin
  <1>1. CASE EnterWait(t)
    BY <1>1 DEF EnterWait
  <1>2. CASE SectionCheckRequested(t)
    BY <1>2 DEF SectionCheckRequested
  <1>3. CASE SectionCheckInProgress(t)
    BY <1>3 DEF SectionCheckInProgress
  <1>4. CASE SectionBackOut(t)
    BY <1>4 DEF SectionBackOut
  <1>5. CASE RequestEnabled(t)
    BY <1>5 DEF RequestEnabled
  <1>6. CASE RequestDepth(t)
    BY <1>6 DEF RequestDepth
  <1>7. CASE RequestLatch(t)
    BY <1>7 DEF RequestLatch
  <1>8. CASE RequestRecheck(t)
    BY <1>8 DEF RequestRecheck
  <1>9. CASE RequestTake(t)
    <2>1. FlagsOK'
      BY <1>9, ZenonT(120) DEF RequestTake
    <2>2. DrainOK'
      BY <1>9 DEF RequestTake
    <2>3. LocalOK'
      BY <1>9 DEF RequestTake
    <2>4. PlaceOK'
      BY <1>9 DEF RequestTake
    <2> QED
      BY <2>1, <2>2, <2>3, <2>4
  <1>10. CASE RequestPublish(t)
    BY <1>10 DEF RequestPublish
  <1>11. CASE RequestWake(t)
    <2>1. FlagsOK'
      BY <1>11, ZenonT(120) DEF RequestWake
    <2>2. DrainOK'
      BY <1>11 DEF RequestWake
    <2>3. LocalOK'
      BY <1>11 DEF RequestWake
    <2>4. PlaceOK'
      BY <1>11 DEF RequestWake
    <2> QED
      BY <2>1, <2>2, <2>3, <2>4
  <1>12. CASE ScopeTake(t)
    <2>1. FlagsOK'
      BY <1>12, ZenonT(120) DEF ScopeTake
    <2>2. DrainOK'
      BY <1>12 DEF ScopeTake
    <2>3. LocalOK'
      BY <1>12 DEF ScopeTake
    <2>4. PlaceOK'
      BY <1>12 DEF ScopeTake
    <2> QED
      BY <2>1, <2>2, <2>3, <2>4
  <1>13. CASE PollLock(t)
    BY <1>13 DEF PollLock
  <1>14. CASE ParkWait(t)
    BY <1>14 DEF ParkWait
  <1>15. CASE BarrierStep(t)
    <2>1. FlagsOK'
      BY <1>15, ZenonT(120) DEF BarrierStep
    <2>2. DrainOK'
      BY <1>15 DEF BarrierStep
    <2>3. LocalOK'
      BY <1>15 DEF BarrierStep
    <2>4. PlaceOK'
      BY <1>15 DEF BarrierStep
    <2> QED
      BY <2>1, <2>2, <2>3, <2>4
  <1>16. CASE DrainWait(t)
    BY <1>16 DEF DrainWait
  <1>17. CASE Collect(t)
    <2>1. FlagsOK'
      BY <1>17, FinishType DEF Collect
    <2>2. DrainOK'
      BY <1>17, FinishType DEF Collect
    <2>3. LocalOK'
      BY <1>17 DEF Collect
    <2>4. PlaceOK'
      BY <1>17, FinishType DEF Collect
    <2> QED
      BY <2>1, <2>2, <2>3, <2>4
  <1>18. CASE TailRetire(t)
    BY <1>18 DEF TailRetire
  <1>19. CASE TailFree(t)
    BY <1>19 DEF TailFree
  <1>20. CASE TailFreed(t)
    <2>1. FlagsOK'
      BY <1>20 DEF TailFreed
    <2>2. DrainOK'
      BY <1>20, FreeEndType DEF TailFreed
    <2>3. LocalOK'
      BY <1>20, FreeEndType DEF TailFreed
    <2>4. PlaceOK'
      BY <1>20 DEF TailFreed
    <2> QED
      BY <2>1, <2>2, <2>3, <2>4
  <1>21. CASE TailFence(t)
    <2>1. FlagsOK'
      BY <1>21, ZenonT(120) DEF TailFence
    <2>2. DrainOK'
      BY <1>21 DEF TailFence
    <2>3. LocalOK'
      BY <1>21 DEF TailFence
    <2>4. PlaceOK'
      BY <1>21 DEF TailFence
    <2> QED
      BY <2>1, <2>2, <2>3, <2>4
  <1>22. CASE GcLoopPark(t)
    <2>1. FlagsOK'
      BY <1>22 DEF GcLoopPark
    <2>2. DrainOK'
      BY <1>22 DEF GcLoopPark
    <2>3. LocalOK'
      BY <1>22 DEF GcLoopPark
    <2>4. PlaceOK'
      BY <1>22 DEF GcLoopPark
    <2> QED
      BY <2>1, <2>2, <2>3, <2>4
  <1>23. CASE GcLastPoll(t)
    <2>1. FlagsOK'
      BY <1>23, ZenonT(120) DEF GcLastPoll
    <2>2. DrainOK'
      BY <1>23 DEF GcLastPoll
    <2>3. LocalOK'
      BY <1>23 DEF GcLastPoll
    <2>4. PlaceOK'
      BY <1>23 DEF GcLastPoll
    <2> QED
      BY <2>1, <2>2, <2>3, <2>4
  <1>24. CASE GcReturn(t)
    BY <1>24 DEF GcReturn
  <1>25. CASE EnterRunning(t)
    BY <1>25 DEF EnterRunning
  <1>26. CASE ExitRunning(t)
    BY <1>26 DEF ExitRunning
  <1>27. CASE BlockEnter(t)
    BY <1>27 DEF BlockEnter
  <1>28. CASE BlockExit(t)
    BY <1>28 DEF BlockExit
  <1>29. CASE NoParkToggle(t)
    BY <1>29 DEF NoParkToggle
  <1>30. CASE Sleep(t)
    BY <1>30 DEF Sleep
  <1>31. CASE Wake(t)
    BY <1>31 DEF Wake
  <1>32. CASE SectionEnter(t)
    BY <1>32 DEF SectionEnter
  <1>33. CASE SectionExit(t)
    BY <1>33 DEF SectionExit
  <1>34. CASE RequestCall(t)
    BY <1>34 DEF RequestCall
  <1>35. CASE GcCall(t)
    BY <1>35 DEF GcCall
  <1>36. CASE ScopeEnter(t)
    BY <1>36 DEF ScopeEnter
  <1>37. CASE ScopeExit(t)
    BY <1>37 DEF ScopeExit
  <1>38. CASE Poll(t)
    <2>1. FlagsOK'
      BY <1>38 DEF Poll
    <2>2. DrainOK'
      BY <1>38 DEF Poll
    <2>3. LocalOK'
      BY <1>38 DEF Poll
    <2>4. PlaceOK'
      BY <1>38 DEF Poll
    <2> QED
      BY <2>1, <2>2, <2>3, <2>4
  <1>39. CASE Retire(t)
    BY <1>39 DEF Retire
  <1>40. CASE BarrierRewake(t)
    <2>1. FlagsOK'
      BY <1>40 DEF BarrierRewake
    <2>2. DrainOK'
      BY <1>40 DEF BarrierRewake
    <2>3. LocalOK'
      BY <1>40 DEF BarrierRewake
    <2>4. PlaceOK'
      BY <1>40 DEF BarrierRewake
    <2> QED
      BY <2>1, <2>2, <2>3, <2>4
  <1> QED
    BY <1>1, <1>2, <1>3, <1>4, <1>5, <1>6, <1>7, <1>8, <1>9, <1>10, <1>11, <1>12, <1>13, <1>14,
           <1>15, <1>16, <1>17, <1>18, <1>19, <1>20, <1>21, <1>22, <1>23, <1>24, <1>25, <1>26,
           <1>27, <1>28, <1>29, <1>30, <1>31, <1>32, <1>33, <1>34, <1>35, <1>36, <1>37, <1>38,
           <1>39, <1>40 DEF ThreadStep, UserStep

(* The collector's and the host's steps keep the types. *)
LEMMA OtherType ==
  ASSUME TypeOK,
         CollStep \/ CollRewake \/ HostStep
  PROVE  TypeOK'
  <1> USE ConstantsOK DEF TypeOK, FlagsOK, DrainOK, LocalOK, PlaceOK, Agents, State, PC,
         RequestPC, ParkedPC, SectionPC, CollPC, gcVars, roleVars, latchVars, drainVars,
         localVars, ctxVars, waitVars, Goto, Unlocked, Awake, NotifyAll, WakeAllThreads, AtUser,
         anyRunning, BarrierOpen, WorldBusy, SomeoneElseCollects, hasRetired, BecomeRunning,
         RequestReturn, MayPark, PollEnter, PollReturn, Unpark, StartMark, Rewake,
         HeldUpByRunning, reclaimBegin, reclaimEnd, FreeBegin
  <1>1. CASE CollStop
    <2>1. FlagsOK'
      BY <1>1 DEF CollStop
    <2>2. DrainOK'
      BY <1>1 DEF CollStop
    <2>3. LocalOK'
      BY <1>1 DEF CollStop
    <2>4. PlaceOK'
      BY <1>1 DEF CollStop
    <2> QED
      BY <2>1, <2>2, <2>3, <2>4
  <1>2. CASE CollDrain
    <2>1. FlagsOK'
      BY <1>2 DEF CollDrain
    <2>2. DrainOK'
      BY <1>2 DEF CollDrain
    <2>3. LocalOK'
      BY <1>2 DEF CollDrain
    <2>4. PlaceOK'
      BY <1>2 DEF CollDrain
    <2> QED
      BY <2>1, <2>2, <2>3, <2>4
  <1>3. CASE CollFree
    <2>1. FlagsOK'
      BY <1>3 DEF CollFree
    <2>2. DrainOK'
      BY <1>3 DEF CollFree
    <2>3. LocalOK'
      BY <1>3 DEF CollFree
    <2>4. PlaceOK'
      BY <1>3 DEF CollFree
    <2> QED
      BY <2>1, <2>2, <2>3, <2>4
  <1>4. CASE CollFreed
    <2>1. FlagsOK'
      BY <1>4 DEF CollFreed
    <2>2. DrainOK'
      BY <1>4, FreeEndType DEF CollFreed
    <2>3. LocalOK'
      BY <1>4, FreeEndType DEF CollFreed
    <2>4. PlaceOK'
      BY <1>4 DEF CollFreed
    <2> QED
      BY <2>1, <2>2, <2>3, <2>4
  <1>5. CASE CollDrained
    <2>1. FlagsOK'
      BY <1>5 DEF CollDrained
    <2>2. DrainOK'
      BY <1>5 DEF CollDrained
    <2>3. LocalOK'
      BY <1>5 DEF CollDrained
    <2>4. PlaceOK'
      BY <1>5 DEF CollDrained
    <2> QED
      BY <2>1, <2>2, <2>3, <2>4
  <1>6. CASE CollBarrier
    <2>1. FlagsOK'
      BY <1>6, ZenonT(120) DEF CollBarrier
    <2>2. DrainOK'
      BY <1>6 DEF CollBarrier
    <2>3. LocalOK'
      BY <1>6 DEF CollBarrier
    <2>4. PlaceOK'
      BY <1>6 DEF CollBarrier
    <2> QED
      BY <2>1, <2>2, <2>3, <2>4
  <1>7. CASE CollCollect
    <2>1. FlagsOK'
      BY <1>7, FinishType DEF CollCollect
    <2>2. DrainOK'
      BY <1>7, FinishType DEF CollCollect
    <2>3. LocalOK'
      BY <1>7 DEF CollCollect
    <2>4. PlaceOK'
      BY <1>7, FinishType DEF CollCollect
    <2> QED
      BY <2>1, <2>2, <2>3, <2>4
  <1>8. CASE CollReclaim
    <2>1. FlagsOK'
      BY <1>8 DEF CollReclaim
    <2>2. DrainOK'
      BY <1>8 DEF CollReclaim
    <2>3. LocalOK'
      BY <1>8 DEF CollReclaim
    <2>4. PlaceOK'
      BY <1>8 DEF CollReclaim
    <2> QED
      BY <2>1, <2>2, <2>3, <2>4
  <1>9. CASE CollFenceDown
    <2>1. FlagsOK'
      BY <1>9, ZenonT(120) DEF CollFenceDown
    <2>2. DrainOK'
      BY <1>9 DEF CollFenceDown
    <2>3. LocalOK'
      BY <1>9 DEF CollFenceDown
    <2>4. PlaceOK'
      BY <1>9 DEF CollFenceDown
    <2> QED
      BY <2>1, <2>2, <2>3, <2>4
  <1>10. CASE CollRewake
    <2>1. FlagsOK'
      BY <1>10 DEF CollRewake
    <2>2. DrainOK'
      BY <1>10 DEF CollRewake
    <2>3. LocalOK'
      BY <1>10 DEF CollRewake
    <2>4. PlaceOK'
      BY <1>10 DEF CollRewake
    <2> QED
      BY <2>1, <2>2, <2>3, <2>4
  <1>11. CASE SetDisabled
    <2>1. FlagsOK'
      BY <1>11 DEF SetDisabled
    <2>2. DrainOK'
      BY <1>11 DEF SetDisabled
    <2>3. LocalOK'
      BY <1>11 DEF SetDisabled
    <2>4. PlaceOK'
      BY <1>11 DEF SetDisabled
    <2> QED
      BY <2>1, <2>2, <2>3, <2>4
  <1>12. CASE DisableClear
    <2>1. FlagsOK'
      BY <1>12 DEF DisableClear
    <2>2. DrainOK'
      BY <1>12 DEF DisableClear
    <2>3. LocalOK'
      BY <1>12 DEF DisableClear
    <2>4. PlaceOK'
      BY <1>12 DEF DisableClear
    <2> QED
      BY <2>1, <2>2, <2>3, <2>4
  <1>13. CASE SetEnabled
    <2>1. FlagsOK'
      BY <1>13 DEF SetEnabled
    <2>2. DrainOK'
      BY <1>13 DEF SetEnabled
    <2>3. LocalOK'
      BY <1>13 DEF SetEnabled
    <2>4. PlaceOK'
      BY <1>13 DEF SetEnabled
    <2> QED
      BY <2>1, <2>2, <2>3, <2>4
  <1>14. CASE StopCollector
    <2>1. FlagsOK'
      BY <1>14 DEF StopCollector
    <2>2. DrainOK'
      BY <1>14 DEF StopCollector
    <2>3. LocalOK'
      BY <1>14 DEF StopCollector
    <2>4. PlaceOK'
      BY <1>14 DEF StopCollector
    <2> QED
      BY <2>1, <2>2, <2>3, <2>4
  <1> QED
    BY <1>1, <1>2, <1>3, <1>4, <1>5, <1>6, <1>7, <1>8, <1>9, <1>10, <1>11, <1>12, <1>13, <1>14
           DEF CollStep, HostStep

(* The initial state has the types. *)
LEMMA InitType == Init => TypeOK
  <1> SUFFICES ASSUME Init PROVE TypeOK
    OBVIOUS
  <1>1. FlagsOK
    <2>1. /\ requested \in BOOLEAN /\ inProgress \in BOOLEAN /\ worldStopped \in BOOLEAN
          /\ externalActive \in BOOLEAN /\ fence \in BOOLEAN
          /\ enabled \in BOOLEAN /\ dedicatedActive \in BOOLEAN /\ stop \in BOOLEAN
          /\ deferredPending \in BOOLEAN /\ deferredWake \in BOOLEAN
      BY ConstantsOK, Zenon DEF Init
    <2>2. /\ collections \in Nat /\ deferDepth \in Int /\ requests \in Nat /\ rtCount \in Int
          /\ hostPc \in {"on", "clear", "off"}
      BY DEF Init
    <2> QED
      BY <2>1, <2>2 DEF FlagsOK
  <1>2. DrainOK
    <2>1. draining \in Int /\ batch \in [Agents -> {"none", "held", "queued"}]
          /\ freer \in Agents \union {None}
       BY DEF Init
    <2>2. refDead \in BOOLEAN
      BY Zenon DEF Init
    <2> QED
      BY <2>1, <2>2 DEF DrainOK
  <1>3. LocalOK
    BY ConstantsOK DEF Init, LocalOK, State
  <1>4. PlaceOK
    BY DEF Init, PlaceOK, PC, CollPC
  <1> QED
    BY <1>1, <1>2, <1>3, <1>4 DEF TypeOK


(* Every step keeps the types. *)
LEMMA NextType == TypeOK /\ [Next]_vars => TypeOK'
  <1> SUFFICES ASSUME TypeOK, [Next]_vars PROVE TypeOK'
    OBVIOUS
  <1>1. CASE UNCHANGED vars
    BY <1>1 DEF TypeOK, FlagsOK, DrainOK, LocalOK, PlaceOK, vars, gcVars, roleVars, latchVars,
           drainVars, localVars, ctxVars, waitVars
  <1>2. CASE Next
    BY <1>2, ThreadType, OtherType DEF Next
  <1> QED
    BY <1>1, <1>2

(* Type correctness: no sequence of registrations, safe blocks, sections,
   scopes and collections drives a depth or a counter out of its range
   (exitRunning and exitGCSection test what they decrement). *)
THEOREM TypeCorrect == Spec => []TypeOK
  BY InitType, NextType, PTL DEF Spec

-----------------------------------------------------------------------------
(* One collector *)

(* A thread's steps keep the roles apart. *)
LEMMA ThreadRole ==
  ASSUME TypeOK, RoleInv,
         NEW t \in Threads, ThreadStep(t) \/ UserStep(t) \/ BarrierRewake(t)
  PROVE  RoleInv'
  <1> USE ConstantsOK DEF TypeOK, FlagsOK, DrainOK, LocalOK, PlaceOK, Agents, RoleInv,
         RolesFixed, LockIsMark, ClaimIsRole, SingleCollector, Collectors, gcVars, roleVars,
         latchVars, drainVars, localVars, ctxVars, waitVars, Goto, Unlocked, Awake, NotifyAll,
         WakeAllThreads, AtUser, anyRunning, BarrierOpen, WorldBusy, SomeoneElseCollects,
         hasRetired, BecomeRunning, RequestReturn, MayPark, PollEnter, PollReturn, Unpark,
         StartMark, Rewake, HeldUpByRunning, FinishCollection, reclaimBegin, reclaimEnd,
         FreeBegin, FreeEnd
  <1>1. CASE EnterWait(t)
    BY <1>1 DEF EnterWait
  <1>2. CASE SectionCheckRequested(t)
    BY <1>2 DEF SectionCheckRequested
  <1>3. CASE SectionCheckInProgress(t)
    BY <1>3 DEF SectionCheckInProgress
  <1>4. CASE SectionBackOut(t)
    BY <1>4 DEF SectionBackOut
  <1>5. CASE RequestEnabled(t)
    BY <1>5 DEF RequestEnabled
  <1>6. CASE RequestDepth(t)
    BY <1>6 DEF RequestDepth
  <1>7. CASE RequestLatch(t)
    BY <1>7 DEF RequestLatch
  <1>8. CASE RequestRecheck(t)
    BY <1>8 DEF RequestRecheck
  <1>9. CASE RequestTake(t)
    BY <1>9 DEF RequestTake
  <1>10. CASE RequestPublish(t)
    BY <1>10 DEF RequestPublish
  <1>11. CASE RequestWake(t)
    BY <1>11 DEF RequestWake
  <1>12. CASE ScopeTake(t)
    BY <1>12 DEF ScopeTake
  <1>13. CASE PollLock(t)
    BY <1>13 DEF PollLock
  <1>14. CASE ParkWait(t)
    BY <1>14 DEF ParkWait
  <1>15. CASE BarrierStep(t)
    BY <1>15 DEF BarrierStep
  <1>16. CASE DrainWait(t)
    BY <1>16 DEF DrainWait
  <1>17. CASE Collect(t)
    BY <1>17 DEF Collect
  <1>18. CASE TailRetire(t)
    BY <1>18 DEF TailRetire
  <1>19. CASE TailFree(t)
    BY <1>19 DEF TailFree
  <1>20. CASE TailFreed(t)
    BY <1>20 DEF TailFreed
  <1>21. CASE TailFence(t)
    BY <1>21 DEF TailFence
  <1>22. CASE GcLoopPark(t)
    BY <1>22 DEF GcLoopPark
  <1>23. CASE GcLastPoll(t)
    BY <1>23 DEF GcLastPoll
  <1>24. CASE GcReturn(t)
    BY <1>24 DEF GcReturn
  <1>25. CASE EnterRunning(t)
    BY <1>25 DEF EnterRunning
  <1>26. CASE ExitRunning(t)
    BY <1>26 DEF ExitRunning
  <1>27. CASE BlockEnter(t)
    BY <1>27 DEF BlockEnter
  <1>28. CASE BlockExit(t)
    BY <1>28 DEF BlockExit
  <1>29. CASE NoParkToggle(t)
    BY <1>29 DEF NoParkToggle
  <1>30. CASE Sleep(t)
    BY <1>30 DEF Sleep
  <1>31. CASE Wake(t)
    BY <1>31 DEF Wake
  <1>32. CASE SectionEnter(t)
    BY <1>32 DEF SectionEnter
  <1>33. CASE SectionExit(t)
    BY <1>33 DEF SectionExit
  <1>34. CASE RequestCall(t)
    BY <1>34 DEF RequestCall
  <1>35. CASE GcCall(t)
    BY <1>35 DEF GcCall
  <1>36. CASE ScopeEnter(t)
    BY <1>36 DEF ScopeEnter
  <1>37. CASE ScopeExit(t)
    BY <1>37 DEF ScopeExit
  <1>38. CASE Poll(t)
    BY <1>38 DEF Poll
  <1>39. CASE Retire(t)
    BY <1>39 DEF Retire
  <1>40. CASE BarrierRewake(t)
    BY <1>40 DEF BarrierRewake
  <1> QED
    BY <1>1, <1>2, <1>3, <1>4, <1>5, <1>6, <1>7, <1>8, <1>9, <1>10, <1>11, <1>12, <1>13, <1>14,
           <1>15, <1>16, <1>17, <1>18, <1>19, <1>20, <1>21, <1>22, <1>23, <1>24, <1>25, <1>26,
           <1>27, <1>28, <1>29, <1>30, <1>31, <1>32, <1>33, <1>34, <1>35, <1>36, <1>37, <1>38,
           <1>39, <1>40 DEF ThreadStep, UserStep

(* The collector's and the host's steps keep the roles apart. *)
LEMMA OtherRole ==
  ASSUME TypeOK, RoleInv,
         CollStep \/ CollRewake \/ HostStep
  PROVE  RoleInv'
  <1> USE ConstantsOK DEF TypeOK, FlagsOK, DrainOK, LocalOK, PlaceOK, Agents, RoleInv,
         RolesFixed, LockIsMark, ClaimIsRole, SingleCollector, Collectors, gcVars, roleVars,
         latchVars, drainVars, localVars, ctxVars, waitVars, Goto, Unlocked, Awake, NotifyAll,
         WakeAllThreads, AtUser, anyRunning, BarrierOpen, WorldBusy, SomeoneElseCollects,
         hasRetired, BecomeRunning, RequestReturn, MayPark, PollEnter, PollReturn, Unpark,
         StartMark, Rewake, HeldUpByRunning, FinishCollection, reclaimBegin, reclaimEnd,
         FreeBegin, FreeEnd
  <1>1. CASE CollStop
    BY <1>1 DEF CollStop
  <1>2. CASE CollDrain
    BY <1>2 DEF CollDrain
  <1>3. CASE CollFree
    BY <1>3 DEF CollFree
  <1>4. CASE CollFreed
    BY <1>4 DEF CollFreed
  <1>5. CASE CollDrained
    BY <1>5 DEF CollDrained
  <1>6. CASE CollBarrier
    BY <1>6 DEF CollBarrier
  <1>7. CASE CollCollect
    BY <1>7 DEF CollCollect
  <1>8. CASE CollReclaim
    BY <1>8 DEF CollReclaim
  <1>9. CASE CollFenceDown
    BY <1>9 DEF CollFenceDown
  <1>10. CASE CollRewake
    BY <1>10 DEF CollRewake
  <1>11. CASE SetDisabled
    BY <1>11 DEF SetDisabled
  <1>12. CASE DisableClear
    BY <1>12 DEF DisableClear
  <1>13. CASE SetEnabled
    BY <1>13 DEF SetEnabled
  <1>14. CASE StopCollector
    BY <1>14 DEF StopCollector
  <1> QED
    BY <1>1, <1>2, <1>3, <1>4, <1>5, <1>6, <1>7, <1>8, <1>9, <1>10, <1>11, <1>12, <1>13, <1>14
           DEF CollStep, HostStep

(* Initially nobody collects. *)
LEMMA InitRole == Init => RoleInv
  BY ConstantsOK DEF Init, Agents, RoleInv, RolesFixed, LockIsMark, ClaimIsRole, SingleCollector, Collectors

(* Every step keeps the roles apart. *)
LEMMA NextRole == TypeOK /\ RoleInv /\ [Next]_vars => RoleInv'
  <1> SUFFICES ASSUME TypeOK /\ RoleInv, [Next]_vars PROVE RoleInv'
    OBVIOUS
  <1>1. CASE UNCHANGED vars
    BY <1>1 DEF RoleInv, RolesFixed, LockIsMark, ClaimIsRole, SingleCollector, Collectors, vars,
           gcVars, roleVars, latchVars, drainVars, localVars, ctxVars, waitVars
  <1>2. CASE Next
    BY <1>2, ThreadRole, OtherRole DEF Next
  <1> QED
    BY <1>1, <1>2

(* However many threads self-elect at the barrier together, and whichever
   profile is built, at most one of them collects (pollContext re-checks the
   role under mutex_ when it claims the window). *)
THEOREM OneCollector == Spec => []SingleCollector
  <1>1. Init => TypeOK /\ RoleInv
    BY InitType, InitRole
  <1>2. TypeOK /\ RoleInv /\ [Next]_vars => (TypeOK /\ RoleInv)'
    BY NextType, NextRole
  <1>3. RoleInv => SingleCollector
    BY DEF RoleInv
  <1> QED
    BY <1>1, <1>2, <1>3, PTL DEF Spec

-----------------------------------------------------------------------------
(* The world stays stopped *)

(* The threads in or at the door of a section are finitely many. *)
LEMMA SectionsFinite == IsFiniteSet(InSection)
  BY ConstantsOK, FS_Subset DEF InSection

(* A zero count means that nobody is in a section or about to enter one. *)
LEMMA NoSections ==
  ASSUME TypeOK, SectionsCounted, rtCount = 0
  PROVE  \A t \in Threads : section[t] = 0 /\ pc[t] \notin SectionPC
  <1>1. InSection = {}
    BY SectionsFinite, FS_EmptySet DEF SectionsCounted
  <1> QED
    BY <1>1 DEF InSection, TypeOK, LocalOK

(* A thread that joins InSection adds one to its size. *)
LEMMA SectionJoins ==
  ASSUME NEW t \in Threads, t \notin InSection, InSection' = InSection \union {t}
  PROVE  Cardinality(InSection') = Cardinality(InSection) + 1
  BY SectionsFinite, FS_AddElement

(* A thread that leaves InSection takes one from its size. *)
LEMMA SectionLeaves ==
  ASSUME NEW t \in Threads, t \in InSection, InSection' = InSection \ {t}
  PROVE  Cardinality(InSection') = Cardinality(InSection) - 1
  BY SectionsFinite, FS_RemoveElement

(* A thread's steps keep rtSectionCount_ equal to the number of sections. *)
LEMMA ThreadSections ==
  ASSUME TypeOK, SectionsCounted,
         NEW t \in Threads, ThreadStep(t) \/ UserStep(t) \/ BarrierRewake(t)
  PROVE  SectionsCounted'
  <1> USE ConstantsOK DEF TypeOK, FlagsOK, DrainOK, LocalOK, PlaceOK, Agents, SectionsCounted,
         SectionPC, InSection, gcVars, roleVars, latchVars, drainVars, localVars, ctxVars,
         waitVars, Goto, Unlocked, Awake, NotifyAll, WakeAllThreads, AtUser, anyRunning,
         BarrierOpen, WorldBusy, SomeoneElseCollects, hasRetired, BecomeRunning, RequestReturn,
         MayPark, PollEnter, PollReturn, Unpark, StartMark, Rewake, HeldUpByRunning,
         FinishCollection, reclaimBegin, reclaimEnd, FreeBegin, FreeEnd
  <1>1. CASE EnterWait(t)
    BY <1>1, ZenonT(120) DEF EnterWait
  <1>2. CASE SectionCheckRequested(t)
    BY <1>2 DEF SectionCheckRequested
  <1>3. CASE SectionCheckInProgress(t)
    <2>1. InSection' = InSection
      BY <1>3 DEF SectionCheckInProgress
    <2> QED
      BY <1>3, <2>1, ZenonT(120) DEF SectionCheckInProgress
  <1>4. CASE SectionBackOut(t)
    <2>1. t \in InSection /\ InSection' = InSection \ {t}
      BY <1>4 DEF SectionBackOut
    <2>2. rtCount' = Cardinality(InSection')
      <3> HIDE DEF InSection
      <3> QED BY <1>4, <2>1, SectionLeaves DEF SectionBackOut
    <2> QED
      BY <1>4, <2>2 DEF SectionBackOut
  <1>5. CASE RequestEnabled(t)
    BY <1>5, ZenonT(120) DEF RequestEnabled
  <1>6. CASE RequestDepth(t)
    BY <1>6 DEF RequestDepth
  <1>7. CASE RequestLatch(t)
    BY <1>7 DEF RequestLatch
  <1>8. CASE RequestRecheck(t)
    BY <1>8, ZenonT(120) DEF RequestRecheck
  <1>9. CASE RequestTake(t)
    BY <1>9, ZenonT(120) DEF RequestTake
  <1>10. CASE RequestPublish(t)
    BY <1>10 DEF RequestPublish
  <1>11. CASE RequestWake(t)
    BY <1>11 DEF RequestWake
  <1>12. CASE ScopeTake(t)
    BY <1>12 DEF ScopeTake
  <1>13. CASE PollLock(t)
    BY <1>13, ZenonT(120) DEF PollLock
  <1>14. CASE ParkWait(t)
    BY <1>14, ZenonT(120) DEF ParkWait
  <1>15. CASE BarrierStep(t)
    <2>1. InSection' = InSection
      BY <1>15 DEF BarrierStep
    <2> QED
      BY <1>15, <2>1, ZenonT(120) DEF BarrierStep
  <1>16. CASE DrainWait(t)
    BY <1>16 DEF DrainWait
  <1>17. CASE Collect(t)
    BY <1>17 DEF Collect
  <1>18. CASE TailRetire(t)
    BY <1>18, ZenonT(120) DEF TailRetire
  <1>19. CASE TailFree(t)
    BY <1>19 DEF TailFree
  <1>20. CASE TailFreed(t)
    BY <1>20 DEF TailFreed
  <1>21. CASE TailFence(t)
    BY <1>21 DEF TailFence
  <1>22. CASE GcLoopPark(t)
    BY <1>22 DEF GcLoopPark
  <1>23. CASE GcLastPoll(t)
    <2>1. InSection' = InSection
      BY <1>23 DEF GcLastPoll
    <2> QED
      BY <1>23, <2>1, ZenonT(120) DEF GcLastPoll
  <1>24. CASE GcReturn(t)
    BY <1>24 DEF GcReturn
  <1>25. CASE EnterRunning(t)
    BY <1>25 DEF EnterRunning
  <1>26. CASE ExitRunning(t)
    BY <1>26 DEF ExitRunning
  <1>27. CASE BlockEnter(t)
    BY <1>27 DEF BlockEnter
  <1>28. CASE BlockExit(t)
    BY <1>28, ZenonT(120) DEF BlockExit
  <1>29. CASE NoParkToggle(t)
    BY <1>29 DEF NoParkToggle
  <1>30. CASE Sleep(t)
    BY <1>30 DEF Sleep
  <1>31. CASE Wake(t)
    BY <1>31 DEF Wake
  <1>32. CASE SectionEnter(t)
    <2>1. CASE section[t] > 0
      <3>1. InSection' = InSection
        BY <1>32, <2>1 DEF SectionEnter
      <3> QED
        BY <1>32, <2>1, <3>1 DEF SectionEnter
    <2>2. CASE ~(section[t] > 0)
      <3>1. t \notin InSection /\ InSection' = InSection \union {t}
        BY <1>32, <2>2 DEF SectionEnter
      <3>2. rtCount' = Cardinality(InSection')
        <4> HIDE DEF InSection
        <4> QED BY <1>32, <2>2, <3>1, SectionJoins DEF SectionEnter
      <3> QED
        BY <1>32, <2>2, <3>2 DEF SectionEnter
    <2> QED
      BY <2>1, <2>2
  <1>33. CASE SectionExit(t)
    <2>1. CASE section[t] # 1
      <3>1. InSection' = InSection
        BY <1>33, <2>1 DEF SectionExit
      <3> QED
        BY <1>33, <2>1, <3>1 DEF SectionExit
    <2>2. CASE section[t] = 1
      <3>1. t \in InSection /\ InSection' = InSection \ {t}
        BY <1>33, <2>2 DEF SectionExit
      <3>2. rtCount' = Cardinality(InSection')
        <4> HIDE DEF InSection
        <4> QED BY <1>33, <2>2, <3>1, SectionLeaves DEF SectionExit
      <3> QED
        BY <1>33, <2>2, <3>2 DEF SectionExit
    <2> QED
      BY <2>1, <2>2
  <1>34. CASE RequestCall(t)
    BY <1>34 DEF RequestCall
  <1>35. CASE GcCall(t)
    BY <1>35 DEF GcCall
  <1>36. CASE ScopeEnter(t)
    BY <1>36 DEF ScopeEnter
  <1>37. CASE ScopeExit(t)
    <2>1. InSection' = InSection
      BY <1>37 DEF ScopeExit
    <2> QED
      BY <1>37, <2>1, ZenonT(120) DEF ScopeExit
  <1>38. CASE Poll(t)
    BY <1>38 DEF Poll
  <1>39. CASE Retire(t)
    BY <1>39 DEF Retire
  <1>40. CASE BarrierRewake(t)
    BY <1>40 DEF BarrierRewake
  <1> QED
    BY <1>1, <1>2, <1>3, <1>4, <1>5, <1>6, <1>7, <1>8, <1>9, <1>10, <1>11, <1>12, <1>13, <1>14,
           <1>15, <1>16, <1>17, <1>18, <1>19, <1>20, <1>21, <1>22, <1>23, <1>24, <1>25, <1>26,
           <1>27, <1>28, <1>29, <1>30, <1>31, <1>32, <1>33, <1>34, <1>35, <1>36, <1>37, <1>38,
           <1>39, <1>40 DEF ThreadStep, UserStep

(* So do the collector's and the host's. *)
LEMMA OtherSections ==
  ASSUME TypeOK, SectionsCounted,
         CollStep \/ CollRewake \/ HostStep
  PROVE  SectionsCounted'
  <1> USE ConstantsOK DEF TypeOK, FlagsOK, DrainOK, LocalOK, PlaceOK, Agents, SectionsCounted,
         SectionPC, InSection, gcVars, roleVars, latchVars, drainVars, localVars, ctxVars,
         waitVars, Goto, Unlocked, Awake, NotifyAll, WakeAllThreads, AtUser, anyRunning,
         BarrierOpen, WorldBusy, SomeoneElseCollects, hasRetired, BecomeRunning, RequestReturn,
         MayPark, PollEnter, PollReturn, Unpark, StartMark, Rewake, HeldUpByRunning,
         FinishCollection, reclaimBegin, reclaimEnd, FreeBegin, FreeEnd
  <1>1. CASE CollStop
    BY <1>1 DEF CollStop
  <1>2. CASE CollDrain
    BY <1>2 DEF CollDrain
  <1>3. CASE CollFree
    BY <1>3 DEF CollFree
  <1>4. CASE CollFreed
    BY <1>4 DEF CollFreed
  <1>5. CASE CollDrained
    BY <1>5 DEF CollDrained
  <1>6. CASE CollBarrier
    BY <1>6 DEF CollBarrier
  <1>7. CASE CollCollect
    BY <1>7 DEF CollCollect
  <1>8. CASE CollReclaim
    BY <1>8 DEF CollReclaim
  <1>9. CASE CollFenceDown
    BY <1>9 DEF CollFenceDown
  <1>10. CASE CollRewake
    BY <1>10 DEF CollRewake
  <1>11. CASE SetDisabled
    BY <1>11 DEF SetDisabled
  <1>12. CASE DisableClear
    BY <1>12 DEF DisableClear
  <1>13. CASE SetEnabled
    BY <1>13 DEF SetEnabled
  <1>14. CASE StopCollector
    BY <1>14 DEF StopCollector
  <1> QED
    BY <1>1, <1>2, <1>3, <1>4, <1>5, <1>6, <1>7, <1>8, <1>9, <1>10, <1>11, <1>12, <1>13, <1>14
           DEF CollStep, HostStep

(* Initially no section is open. *)
LEMMA InitSections == Init => SectionsCounted
  <1> SUFFICES ASSUME Init PROVE SectionsCounted
    OBVIOUS
  <1>1. InSection = {}
    BY DEF Init, InSection, SectionPC
  <1> QED
    BY <1>1, FS_EmptySet DEF Init, SectionsCounted, SectionPC

(* Every step keeps the section count. *)
LEMMA NextSections == TypeOK /\ SectionsCounted /\ [Next]_vars => SectionsCounted'
  <1> SUFFICES ASSUME TypeOK /\ SectionsCounted, [Next]_vars PROVE SectionsCounted'
    OBVIOUS
  <1>1. CASE UNCHANGED vars
    BY <1>1 DEF SectionsCounted, InSection, vars, gcVars, roleVars, latchVars, drainVars,
           localVars, ctxVars, waitVars
  <1>2. CASE Next
    BY <1>2, ThreadSections, OtherSections DEF Next
  <1> QED
    BY <1>1, <1>2

(* A thread's steps keep the world stopped once the window is claimed. *)
LEMMA ThreadStopped ==
  ASSUME TypeOK, RoleInv, SectionsCounted, StoppedWorld, CanDisable => Dedicated,
         NEW t \in Threads, ThreadStep(t) \/ UserStep(t) \/ BarrierRewake(t)
  PROVE  StoppedWorld'
  <1> USE ConstantsOK DEF TypeOK, FlagsOK, DrainOK, LocalOK, PlaceOK, Agents, RoleInv,
         RolesFixed, LockIsMark, ClaimIsRole, Collectors, StoppedWorld, SectionPC, gcVars,
         roleVars, latchVars, drainVars, localVars, ctxVars, waitVars, Goto, Unlocked, Awake,
         NotifyAll, WakeAllThreads, AtUser, anyRunning, BarrierOpen, WorldBusy,
         SomeoneElseCollects, hasRetired, BecomeRunning, RequestReturn, MayPark, PollEnter,
         PollReturn, Unpark, StartMark, Rewake, HeldUpByRunning, FinishCollection, reclaimBegin,
         reclaimEnd, FreeBegin, FreeEnd
  <1>1. CASE EnterWait(t)
    BY <1>1 DEF EnterWait
  <1>2. CASE SectionCheckRequested(t)
    BY <1>2 DEF SectionCheckRequested
  <1>3. CASE SectionCheckInProgress(t)
    BY <1>3 DEF SectionCheckInProgress
  <1>4. CASE SectionBackOut(t)
    BY <1>4 DEF SectionBackOut
  <1>5. CASE RequestEnabled(t)
    BY <1>5 DEF RequestEnabled
  <1>6. CASE RequestDepth(t)
    BY <1>6 DEF RequestDepth
  <1>7. CASE RequestLatch(t)
    BY <1>7 DEF RequestLatch
  <1>8. CASE RequestRecheck(t)
    BY <1>8 DEF RequestRecheck
  <1>9. CASE RequestTake(t)
    BY <1>9 DEF RequestTake
  <1>10. CASE RequestPublish(t)
    BY <1>10 DEF RequestPublish
  <1>11. CASE RequestWake(t)
    BY <1>11 DEF RequestWake
  <1>12. CASE ScopeTake(t)
    BY <1>12 DEF ScopeTake
  <1>13. CASE PollLock(t)
    BY <1>13 DEF PollLock
  <1>14. CASE ParkWait(t)
    BY <1>14 DEF ParkWait
  <1>15. CASE BarrierStep(t)
    BY <1>15, NoSections, ZenonT(120) DEF BarrierStep
  <1>16. CASE DrainWait(t)
    BY <1>16 DEF DrainWait
  <1>17. CASE Collect(t)
    BY <1>17 DEF Collect
  <1>18. CASE TailRetire(t)
    BY <1>18 DEF TailRetire
  <1>19. CASE TailFree(t)
    BY <1>19 DEF TailFree
  <1>20. CASE TailFreed(t)
    BY <1>20 DEF TailFreed
  <1>21. CASE TailFence(t)
    BY <1>21 DEF TailFence
  <1>22. CASE GcLoopPark(t)
    BY <1>22 DEF GcLoopPark
  <1>23. CASE GcLastPoll(t)
    <2>1. CASE PollEnter(t)
      BY <1>23, <2>1 DEF GcLastPoll
    <2>2. CASE Goto(t, "gcRet") /\ UNCHANGED <<gcVars, ctxVars, section>>
      BY <2>2
    <2> QED
      BY <1>23, <2>1, <2>2 DEF GcLastPoll
  <1>24. CASE GcReturn(t)
    BY <1>24 DEF GcReturn
  <1>25. CASE EnterRunning(t)
    BY <1>25 DEF EnterRunning
  <1>26. CASE ExitRunning(t)
    BY <1>26 DEF ExitRunning
  <1>27. CASE BlockEnter(t)
    BY <1>27 DEF BlockEnter
  <1>28. CASE BlockExit(t)
    BY <1>28 DEF BlockExit
  <1>29. CASE NoParkToggle(t)
    BY <1>29 DEF NoParkToggle
  <1>30. CASE Sleep(t)
    BY <1>30 DEF Sleep
  <1>31. CASE Wake(t)
    BY <1>31 DEF Wake
  <1>32. CASE SectionEnter(t)
    BY <1>32 DEF SectionEnter
  <1>33. CASE SectionExit(t)
    BY <1>33 DEF SectionExit
  <1>34. CASE RequestCall(t)
    BY <1>34 DEF RequestCall
  <1>35. CASE GcCall(t)
    BY <1>35 DEF GcCall
  <1>36. CASE ScopeEnter(t)
    BY <1>36 DEF ScopeEnter
  <1>37. CASE ScopeExit(t)
    BY <1>37 DEF ScopeExit
  <1>38. CASE Poll(t)
    BY <1>38 DEF Poll
  <1>39. CASE Retire(t)
    BY <1>39 DEF Retire
  <1>40. CASE BarrierRewake(t)
    BY <1>40 DEF BarrierRewake
  <1> QED
    BY <1>1, <1>2, <1>3, <1>4, <1>5, <1>6, <1>7, <1>8, <1>9, <1>10, <1>11, <1>12, <1>13, <1>14,
           <1>15, <1>16, <1>17, <1>18, <1>19, <1>20, <1>21, <1>22, <1>23, <1>24, <1>25, <1>26,
           <1>27, <1>28, <1>29, <1>30, <1>31, <1>32, <1>33, <1>34, <1>35, <1>36, <1>37, <1>38,
           <1>39, <1>40 DEF ThreadStep, UserStep

(* So do the collector's and the host's. *)
LEMMA OtherStopped ==
  ASSUME TypeOK, RoleInv, SectionsCounted, StoppedWorld, CanDisable => Dedicated,
         CollStep \/ CollRewake \/ HostStep
  PROVE  StoppedWorld'
  <1> USE ConstantsOK DEF TypeOK, FlagsOK, DrainOK, LocalOK, PlaceOK, Agents, RoleInv,
         RolesFixed, LockIsMark, ClaimIsRole, Collectors, StoppedWorld, SectionPC, gcVars,
         roleVars, latchVars, drainVars, localVars, ctxVars, waitVars, Goto, Unlocked, Awake,
         NotifyAll, WakeAllThreads, AtUser, anyRunning, BarrierOpen, WorldBusy,
         SomeoneElseCollects, hasRetired, BecomeRunning, RequestReturn, MayPark, PollEnter,
         PollReturn, Unpark, StartMark, Rewake, HeldUpByRunning, FinishCollection, reclaimBegin,
         reclaimEnd, FreeBegin, FreeEnd
  <1>1. CASE CollStop
    BY <1>1 DEF CollStop
  <1>2. CASE CollDrain
    BY <1>2 DEF CollDrain
  <1>3. CASE CollFree
    BY <1>3 DEF CollFree
  <1>4. CASE CollFreed
    BY <1>4 DEF CollFreed
  <1>5. CASE CollDrained
    BY <1>5 DEF CollDrained
  <1>6. CASE CollBarrier
    BY <1>6, NoSections DEF CollBarrier
  <1>7. CASE CollCollect
    BY <1>7 DEF CollCollect
  <1>8. CASE CollReclaim
    BY <1>8 DEF CollReclaim
  <1>9. CASE CollFenceDown
    BY <1>9 DEF CollFenceDown
  <1>10. CASE CollRewake
    BY <1>10 DEF CollRewake
  <1>11. CASE SetDisabled
    BY <1>11 DEF SetDisabled
  <1>12. CASE DisableClear
    <2>1. Dedicated /\ ~inProgress
      BY <1>12 DEF DisableClear
    <2>2. ~worldStopped
      BY <1>12, <2>1 DEF DisableClear
    <2> QED
      BY <1>12, <2>2 DEF DisableClear
  <1>13. CASE SetEnabled
    BY <1>13 DEF SetEnabled
  <1>14. CASE StopCollector
    BY <1>14 DEF StopCollector
  <1> QED
    BY <1>1, <1>2, <1>3, <1>4, <1>5, <1>6, <1>7, <1>8, <1>9, <1>10, <1>11, <1>12, <1>13, <1>14
           DEF CollStep, HostStep

(* Every step keeps the world stopped. *)
LEMMA NextStopped == TypeOK /\ RoleInv /\ SectionsCounted /\ (CanDisable => Dedicated) /\ StoppedWorld /\ [Next]_vars => StoppedWorld'
  <1> SUFFICES ASSUME TypeOK /\ RoleInv /\ SectionsCounted /\ (CanDisable => Dedicated) /\ StoppedWorld, [Next]_vars PROVE StoppedWorld'
    OBVIOUS
  <1>1. CASE UNCHANGED vars
    BY <1>1 DEF StoppedWorld, vars, gcVars, roleVars, latchVars, drainVars, localVars, ctxVars,
           waitVars
  <1>2. CASE Next
    BY <1>2, ThreadStopped, OtherStopped DEF Next
  <1> QED
    BY <1>1, <1>2

(* The invariant holds throughout, unless an inline build disables the GC. *)
LEMMA StopInvariant ==
  ASSUME CanDisable => Dedicated
  PROVE  Spec => []StopInv
  <1>1. Init => StopInv
    <2>1. Init => StoppedWorld
      BY DEF Init, StoppedWorld
    <2> QED
      BY <2>1, InitType, InitRole, InitSections DEF StopInv
  <1>2. StopInv /\ [Next]_vars => StopInv'
    BY NextType, NextRole, NextSections, NextStopped DEF StopInv
  <1> QED
    BY <1>1, <1>2, PTL DEF Spec

(* Stop-the-world: while a collection marks and sweeps, no context runs and
   no RT section is open, for any number of threads.  The inline profile with
   a host that disables the GC is excluded: there the property fails
   (gc_disable_inline). *)
THEOREM Exclusion ==
  ASSUME CanDisable => Dedicated
  PROVE  Spec => []BarrierExclusion
  <1>1. StopInv => BarrierExclusion
    <2>1. StopInv /\ inProgress => worldStopped
      BY DEF StopInv, TypeOK, PlaceOK, Agents, RoleInv, LockIsMark, ClaimIsRole, Collectors
    <2> QED
      BY <2>1 DEF StopInv, StoppedWorld, BarrierExclusion
  <1> QED
    BY <1>1, StopInvariant, PTL

-----------------------------------------------------------------------------
(* Marking and draining *)

(* A thread that parks or resumes is a Running one. *)
LEMMA ThreadPollers ==
  ASSUME TypeOK, PollersRun,
         NEW t \in Threads, ThreadStep(t) \/ UserStep(t) \/ BarrierRewake(t)
  PROVE  PollersRun'
  <1> USE ConstantsOK DEF TypeOK, FlagsOK, DrainOK, LocalOK, PlaceOK, Agents, PollersRun,
         ParkedPC, gcVars, roleVars, latchVars, drainVars, localVars, ctxVars, waitVars, Goto,
         Unlocked, Awake, NotifyAll, WakeAllThreads, AtUser, anyRunning, BarrierOpen, WorldBusy,
         SomeoneElseCollects, hasRetired, BecomeRunning, RequestReturn, MayPark, PollEnter,
         PollReturn, Unpark, StartMark, Rewake, HeldUpByRunning, FinishCollection, reclaimBegin,
         reclaimEnd, FreeBegin, FreeEnd
  <1>1. CASE EnterWait(t)
    BY <1>1 DEF EnterWait
  <1>2. CASE SectionCheckRequested(t)
    BY <1>2 DEF SectionCheckRequested
  <1>3. CASE SectionCheckInProgress(t)
    BY <1>3 DEF SectionCheckInProgress
  <1>4. CASE SectionBackOut(t)
    BY <1>4 DEF SectionBackOut
  <1>5. CASE RequestEnabled(t)
    BY <1>5 DEF RequestEnabled
  <1>6. CASE RequestDepth(t)
    BY <1>6 DEF RequestDepth
  <1>7. CASE RequestLatch(t)
    BY <1>7 DEF RequestLatch
  <1>8. CASE RequestRecheck(t)
    BY <1>8 DEF RequestRecheck
  <1>9. CASE RequestTake(t)
    BY <1>9 DEF RequestTake
  <1>10. CASE RequestPublish(t)
    BY <1>10 DEF RequestPublish
  <1>11. CASE RequestWake(t)
    BY <1>11 DEF RequestWake
  <1>12. CASE ScopeTake(t)
    BY <1>12 DEF ScopeTake
  <1>13. CASE PollLock(t)
    BY <1>13 DEF PollLock
  <1>14. CASE ParkWait(t)
    BY <1>14 DEF ParkWait
  <1>15. CASE BarrierStep(t)
    BY <1>15 DEF BarrierStep
  <1>16. CASE DrainWait(t)
    BY <1>16 DEF DrainWait
  <1>17. CASE Collect(t)
    BY <1>17 DEF Collect
  <1>18. CASE TailRetire(t)
    BY <1>18 DEF TailRetire
  <1>19. CASE TailFree(t)
    BY <1>19 DEF TailFree
  <1>20. CASE TailFreed(t)
    BY <1>20 DEF TailFreed
  <1>21. CASE TailFence(t)
    BY <1>21 DEF TailFence
  <1>22. CASE GcLoopPark(t)
    BY <1>22 DEF GcLoopPark
  <1>23. CASE GcLastPoll(t)
    BY <1>23 DEF GcLastPoll
  <1>24. CASE GcReturn(t)
    BY <1>24 DEF GcReturn
  <1>25. CASE EnterRunning(t)
    BY <1>25 DEF EnterRunning
  <1>26. CASE ExitRunning(t)
    BY <1>26 DEF ExitRunning
  <1>27. CASE BlockEnter(t)
    BY <1>27 DEF BlockEnter
  <1>28. CASE BlockExit(t)
    BY <1>28 DEF BlockExit
  <1>29. CASE NoParkToggle(t)
    BY <1>29 DEF NoParkToggle
  <1>30. CASE Sleep(t)
    BY <1>30 DEF Sleep
  <1>31. CASE Wake(t)
    BY <1>31 DEF Wake
  <1>32. CASE SectionEnter(t)
    BY <1>32 DEF SectionEnter
  <1>33. CASE SectionExit(t)
    BY <1>33 DEF SectionExit
  <1>34. CASE RequestCall(t)
    BY <1>34 DEF RequestCall
  <1>35. CASE GcCall(t)
    BY <1>35 DEF GcCall
  <1>36. CASE ScopeEnter(t)
    BY <1>36 DEF ScopeEnter
  <1>37. CASE ScopeExit(t)
    BY <1>37 DEF ScopeExit
  <1>38. CASE Poll(t)
    BY <1>38 DEF Poll
  <1>39. CASE Retire(t)
    BY <1>39 DEF Retire
  <1>40. CASE BarrierRewake(t)
    BY <1>40 DEF BarrierRewake
  <1> QED
    BY <1>1, <1>2, <1>3, <1>4, <1>5, <1>6, <1>7, <1>8, <1>9, <1>10, <1>11, <1>12, <1>13, <1>14,
           <1>15, <1>16, <1>17, <1>18, <1>19, <1>20, <1>21, <1>22, <1>23, <1>24, <1>25, <1>26,
           <1>27, <1>28, <1>29, <1>30, <1>31, <1>32, <1>33, <1>34, <1>35, <1>36, <1>37, <1>38,
           <1>39, <1>40 DEF ThreadStep, UserStep

(* A thread's steps keep reclaimDraining_ equal to the number of windows. *)
LEMMA ThreadDrains ==
  ASSUME TypeOK, DrainsCounted,
         NEW t \in Threads, ThreadStep(t) \/ UserStep(t) \/ BarrierRewake(t)
  PROVE  DrainsCounted'
  <1> USE ConstantsOK DEF TypeOK, FlagsOK, DrainOK, LocalOK, PlaceOK, Agents, DrainsCounted,
         CollWindows, gcVars, roleVars, latchVars, drainVars, localVars, ctxVars, waitVars,
         Goto, Unlocked, Awake, NotifyAll, WakeAllThreads, AtUser, anyRunning, BarrierOpen,
         WorldBusy, SomeoneElseCollects, hasRetired, BecomeRunning, RequestReturn, MayPark,
         PollEnter, PollReturn, Unpark, StartMark, Rewake, HeldUpByRunning, FinishCollection,
         reclaimBegin, reclaimEnd, FreeBegin, FreeEnd
  <1>1. CASE EnterWait(t)
    BY <1>1 DEF EnterWait
  <1>2. CASE SectionCheckRequested(t)
    BY <1>2 DEF SectionCheckRequested
  <1>3. CASE SectionCheckInProgress(t)
    BY <1>3 DEF SectionCheckInProgress
  <1>4. CASE SectionBackOut(t)
    BY <1>4 DEF SectionBackOut
  <1>5. CASE RequestEnabled(t)
    BY <1>5 DEF RequestEnabled
  <1>6. CASE RequestDepth(t)
    BY <1>6 DEF RequestDepth
  <1>7. CASE RequestLatch(t)
    BY <1>7 DEF RequestLatch
  <1>8. CASE RequestRecheck(t)
    BY <1>8 DEF RequestRecheck
  <1>9. CASE RequestTake(t)
    BY <1>9 DEF RequestTake
  <1>10. CASE RequestPublish(t)
    BY <1>10 DEF RequestPublish
  <1>11. CASE RequestWake(t)
    BY <1>11 DEF RequestWake
  <1>12. CASE ScopeTake(t)
    BY <1>12 DEF ScopeTake
  <1>13. CASE PollLock(t)
    BY <1>13 DEF PollLock
  <1>14. CASE ParkWait(t)
    BY <1>14 DEF ParkWait
  <1>15. CASE BarrierStep(t)
    BY <1>15 DEF BarrierStep
  <1>16. CASE DrainWait(t)
    BY <1>16 DEF DrainWait
  <1>17. CASE Collect(t)
    BY <1>17 DEF Collect
  <1>18. CASE TailRetire(t)
    BY <1>18 DEF TailRetire
  <1>19. CASE TailFree(t)
    BY <1>19 DEF TailFree
  <1>20. CASE TailFreed(t)
    BY <1>20 DEF TailFreed
  <1>21. CASE TailFence(t)
    BY <1>21 DEF TailFence
  <1>22. CASE GcLoopPark(t)
    BY <1>22 DEF GcLoopPark
  <1>23. CASE GcLastPoll(t)
    BY <1>23 DEF GcLastPoll
  <1>24. CASE GcReturn(t)
    BY <1>24 DEF GcReturn
  <1>25. CASE EnterRunning(t)
    BY <1>25 DEF EnterRunning
  <1>26. CASE ExitRunning(t)
    BY <1>26 DEF ExitRunning
  <1>27. CASE BlockEnter(t)
    BY <1>27 DEF BlockEnter
  <1>28. CASE BlockExit(t)
    BY <1>28 DEF BlockExit
  <1>29. CASE NoParkToggle(t)
    BY <1>29 DEF NoParkToggle
  <1>30. CASE Sleep(t)
    BY <1>30 DEF Sleep
  <1>31. CASE Wake(t)
    BY <1>31 DEF Wake
  <1>32. CASE SectionEnter(t)
    BY <1>32 DEF SectionEnter
  <1>33. CASE SectionExit(t)
    BY <1>33 DEF SectionExit
  <1>34. CASE RequestCall(t)
    BY <1>34 DEF RequestCall
  <1>35. CASE GcCall(t)
    BY <1>35 DEF GcCall
  <1>36. CASE ScopeEnter(t)
    BY <1>36 DEF ScopeEnter
  <1>37. CASE ScopeExit(t)
    BY <1>37 DEF ScopeExit
  <1>38. CASE Poll(t)
    BY <1>38 DEF Poll
  <1>39. CASE Retire(t)
    BY <1>39 DEF Retire
  <1>40. CASE BarrierRewake(t)
    BY <1>40 DEF BarrierRewake
  <1> QED
    BY <1>1, <1>2, <1>3, <1>4, <1>5, <1>6, <1>7, <1>8, <1>9, <1>10, <1>11, <1>12, <1>13, <1>14,
           <1>15, <1>16, <1>17, <1>18, <1>19, <1>20, <1>21, <1>22, <1>23, <1>24, <1>25, <1>26,
           <1>27, <1>28, <1>29, <1>30, <1>31, <1>32, <1>33, <1>34, <1>35, <1>36, <1>37, <1>38,
           <1>39, <1>40 DEF ThreadStep, UserStep

(* So do the collector's and the host's. *)
LEMMA OtherDrains ==
  ASSUME TypeOK, DrainsCounted,
         CollStep \/ CollRewake \/ HostStep
  PROVE  DrainsCounted'
  <1> USE ConstantsOK DEF TypeOK, FlagsOK, DrainOK, LocalOK, PlaceOK, Agents, DrainsCounted,
         CollWindows, gcVars, roleVars, latchVars, drainVars, localVars, ctxVars, waitVars,
         Goto, Unlocked, Awake, NotifyAll, WakeAllThreads, AtUser, anyRunning, BarrierOpen,
         WorldBusy, SomeoneElseCollects, hasRetired, BecomeRunning, RequestReturn, MayPark,
         PollEnter, PollReturn, Unpark, StartMark, Rewake, HeldUpByRunning, FinishCollection,
         reclaimBegin, reclaimEnd, FreeBegin, FreeEnd
  <1>1. CASE CollStop
    BY <1>1 DEF CollStop
  <1>2. CASE CollDrain
    BY <1>2 DEF CollDrain
  <1>3. CASE CollFree
    BY <1>3 DEF CollFree
  <1>4. CASE CollFreed
    BY <1>4 DEF CollFreed
  <1>5. CASE CollDrained
    BY <1>5 DEF CollDrained
  <1>6. CASE CollBarrier
    BY <1>6 DEF CollBarrier
  <1>7. CASE CollCollect
    BY <1>7 DEF CollCollect
  <1>8. CASE CollReclaim
    BY <1>8 DEF CollReclaim
  <1>9. CASE CollFenceDown
    BY <1>9 DEF CollFenceDown
  <1>10. CASE CollRewake
    BY <1>10 DEF CollRewake
  <1>11. CASE SetDisabled
    BY <1>11 DEF SetDisabled
  <1>12. CASE DisableClear
    BY <1>12 DEF DisableClear
  <1>13. CASE SetEnabled
    BY <1>13 DEF SetEnabled
  <1>14. CASE StopCollector
    BY <1>14 DEF StopCollector
  <1> QED
    BY <1>1, <1>2, <1>3, <1>4, <1>5, <1>6, <1>7, <1>8, <1>9, <1>10, <1>11, <1>12, <1>13, <1>14
           DEF CollStep, HostStep

(* No thread opens a drain window inside a mark, or marks inside one. *)
LEMMA ThreadNoDrain ==
  ASSUME TypeOK, RoleInv, StoppedWorld, PollersRun, DrainsCounted, NoDrainDuringMark,
         NEW t \in Threads, ThreadStep(t) \/ UserStep(t) \/ BarrierRewake(t)
  PROVE  NoDrainDuringMark'
  <1> USE ConstantsOK DEF TypeOK, FlagsOK, DrainOK, LocalOK, PlaceOK, Agents, NoDrainDuringMark,
         DrainsCounted, CollWindows, PollersRun, RoleInv, RolesFixed, LockIsMark, ClaimIsRole,
         Collectors, StoppedWorld, gcVars, roleVars, latchVars, drainVars, localVars, ctxVars,
         waitVars, Goto, Unlocked, Awake, NotifyAll, WakeAllThreads, AtUser, anyRunning,
         BarrierOpen, WorldBusy, SomeoneElseCollects, hasRetired, BecomeRunning, RequestReturn,
         MayPark, PollEnter, PollReturn, Unpark, StartMark, Rewake, HeldUpByRunning,
         FinishCollection, reclaimBegin, reclaimEnd, FreeBegin, FreeEnd
  <1>1. CASE EnterWait(t)
    BY <1>1 DEF EnterWait
  <1>2. CASE SectionCheckRequested(t)
    BY <1>2 DEF SectionCheckRequested
  <1>3. CASE SectionCheckInProgress(t)
    BY <1>3 DEF SectionCheckInProgress
  <1>4. CASE SectionBackOut(t)
    BY <1>4 DEF SectionBackOut
  <1>5. CASE RequestEnabled(t)
    BY <1>5 DEF RequestEnabled
  <1>6. CASE RequestDepth(t)
    BY <1>6 DEF RequestDepth
  <1>7. CASE RequestLatch(t)
    BY <1>7 DEF RequestLatch
  <1>8. CASE RequestRecheck(t)
    BY <1>8 DEF RequestRecheck
  <1>9. CASE RequestTake(t)
    BY <1>9 DEF RequestTake
  <1>10. CASE RequestPublish(t)
    BY <1>10 DEF RequestPublish
  <1>11. CASE RequestWake(t)
    BY <1>11 DEF RequestWake
  <1>12. CASE ScopeTake(t)
    BY <1>12 DEF ScopeTake
  <1>13. CASE PollLock(t)
    BY <1>13 DEF PollLock
  <1>14. CASE ParkWait(t)
    BY <1>14 DEF ParkWait
  <1>15. CASE BarrierStep(t)
    <2>1. draining = 0 => freer = None
      OBVIOUS
    <2> QED
      BY <1>15, <2>1 DEF BarrierStep
  <1>16. CASE DrainWait(t)
    BY <1>16 DEF DrainWait
  <1>17. CASE Collect(t)
    BY <1>17 DEF Collect
  <1>18. CASE TailRetire(t)
    BY <1>18 DEF TailRetire
  <1>19. CASE TailFree(t)
    BY <1>19 DEF TailFree
  <1>20. CASE TailFreed(t)
    BY <1>20 DEF TailFreed
  <1>21. CASE TailFence(t)
    BY <1>21 DEF TailFence
  <1>22. CASE GcLoopPark(t)
    BY <1>22 DEF GcLoopPark
  <1>23. CASE GcLastPoll(t)
    BY <1>23 DEF GcLastPoll
  <1>24. CASE GcReturn(t)
    BY <1>24 DEF GcReturn
  <1>25. CASE EnterRunning(t)
    BY <1>25 DEF EnterRunning
  <1>26. CASE ExitRunning(t)
    BY <1>26 DEF ExitRunning
  <1>27. CASE BlockEnter(t)
    BY <1>27 DEF BlockEnter
  <1>28. CASE BlockExit(t)
    BY <1>28 DEF BlockExit
  <1>29. CASE NoParkToggle(t)
    BY <1>29 DEF NoParkToggle
  <1>30. CASE Sleep(t)
    BY <1>30 DEF Sleep
  <1>31. CASE Wake(t)
    BY <1>31 DEF Wake
  <1>32. CASE SectionEnter(t)
    BY <1>32 DEF SectionEnter
  <1>33. CASE SectionExit(t)
    BY <1>33 DEF SectionExit
  <1>34. CASE RequestCall(t)
    BY <1>34 DEF RequestCall
  <1>35. CASE GcCall(t)
    BY <1>35 DEF GcCall
  <1>36. CASE ScopeEnter(t)
    BY <1>36 DEF ScopeEnter
  <1>37. CASE ScopeExit(t)
    BY <1>37 DEF ScopeExit
  <1>38. CASE Poll(t)
    BY <1>38 DEF Poll
  <1>39. CASE Retire(t)
    BY <1>39 DEF Retire
  <1>40. CASE BarrierRewake(t)
    BY <1>40 DEF BarrierRewake
  <1> QED
    BY <1>1, <1>2, <1>3, <1>4, <1>5, <1>6, <1>7, <1>8, <1>9, <1>10, <1>11, <1>12, <1>13, <1>14,
           <1>15, <1>16, <1>17, <1>18, <1>19, <1>20, <1>21, <1>22, <1>23, <1>24, <1>25, <1>26,
           <1>27, <1>28, <1>29, <1>30, <1>31, <1>32, <1>33, <1>34, <1>35, <1>36, <1>37, <1>38,
           <1>39, <1>40 DEF ThreadStep, UserStep

(* Neither does the collector. *)
LEMMA OtherNoDrain ==
  ASSUME TypeOK, RoleInv, StoppedWorld, PollersRun, DrainsCounted, NoDrainDuringMark,
         CollStep \/ CollRewake \/ HostStep
  PROVE  NoDrainDuringMark'
  <1> USE ConstantsOK DEF TypeOK, FlagsOK, DrainOK, LocalOK, PlaceOK, Agents, NoDrainDuringMark,
         DrainsCounted, CollWindows, PollersRun, RoleInv, RolesFixed, LockIsMark, ClaimIsRole,
         Collectors, StoppedWorld, gcVars, roleVars, latchVars, drainVars, localVars, ctxVars,
         waitVars, Goto, Unlocked, Awake, NotifyAll, WakeAllThreads, AtUser, anyRunning,
         BarrierOpen, WorldBusy, SomeoneElseCollects, hasRetired, BecomeRunning, RequestReturn,
         MayPark, PollEnter, PollReturn, Unpark, StartMark, Rewake, HeldUpByRunning,
         FinishCollection, reclaimBegin, reclaimEnd, FreeBegin, FreeEnd
  <1>1. CASE CollStop
    BY <1>1 DEF CollStop
  <1>2. CASE CollDrain
    BY <1>2 DEF CollDrain
  <1>3. CASE CollFree
    BY <1>3 DEF CollFree
  <1>4. CASE CollFreed
    BY <1>4 DEF CollFreed
  <1>5. CASE CollDrained
    BY <1>5 DEF CollDrained
  <1>6. CASE CollBarrier
    <2>1. CASE UNCHANGED <<inProgress, draining, freer>>
      BY <2>1
    <2>2. CASE cpc = "barrier" /\ BarrierOpen
      <3>1. freer \notin Threads
        BY <2>2
      <3>2. freer # Coll /\ CollWindows = 0
        BY <2>2
      <3> QED
        BY <1>6, <3>1, <3>2 DEF CollBarrier
    <2> QED
      BY <1>6, <2>1, <2>2 DEF CollBarrier
  <1>7. CASE CollCollect
    BY <1>7 DEF CollCollect
  <1>8. CASE CollReclaim
    BY <1>8 DEF CollReclaim
  <1>9. CASE CollFenceDown
    BY <1>9 DEF CollFenceDown
  <1>10. CASE CollRewake
    BY <1>10 DEF CollRewake
  <1>11. CASE SetDisabled
    BY <1>11 DEF SetDisabled
  <1>12. CASE DisableClear
    BY <1>12 DEF DisableClear
  <1>13. CASE SetEnabled
    BY <1>13 DEF SetEnabled
  <1>14. CASE StopCollector
    BY <1>14 DEF StopCollector
  <1> QED
    BY <1>1, <1>2, <1>3, <1>4, <1>5, <1>6, <1>7, <1>8, <1>9, <1>10, <1>11, <1>12, <1>13, <1>14
           DEF CollStep, HostStep

(* Only threads touch what PollersRun speaks of. *)
LEMMA OtherPollers ==
  ASSUME TypeOK, PollersRun, CollStep \/ CollRewake \/ HostStep
  PROVE  PollersRun'
  <1>1. UNCHANGED <<pc, ctx, prior>>
    BY DEF CollStep, CollRewake, HostStep, CollStop, CollDrain, CollFree, CollFreed, CollDrained,
           CollBarrier, CollCollect, CollReclaim, CollFenceDown, SetDisabled, DisableClear,
           SetEnabled, StopCollector, ctxVars
  <1> QED
    BY <1>1 DEF PollersRun

(* Every step keeps PollersRun. *)
LEMMA NextPollers == TypeOK /\ PollersRun /\ [Next]_vars => PollersRun'
  <1> SUFFICES ASSUME TypeOK /\ PollersRun, [Next]_vars PROVE PollersRun'
    OBVIOUS
  <1>1. CASE UNCHANGED vars
    BY <1>1 DEF PollersRun, vars, gcVars, roleVars, latchVars, drainVars, localVars, ctxVars,
           waitVars
  <1>2. CASE Next
    BY <1>2, ThreadPollers, OtherPollers DEF Next
  <1> QED
    BY <1>1, <1>2

(* Every step keeps the windows counted. *)
LEMMA NextDrains == TypeOK /\ DrainsCounted /\ [Next]_vars => DrainsCounted'
  <1> SUFFICES ASSUME TypeOK /\ DrainsCounted, [Next]_vars PROVE DrainsCounted'
    OBVIOUS
  <1>1. CASE UNCHANGED vars
    BY <1>1 DEF DrainsCounted, CollWindows, vars, gcVars, roleVars, latchVars, drainVars,
           localVars, ctxVars, waitVars
  <1>2. CASE Next
    BY <1>2, ThreadDrains, OtherDrains DEF Next
  <1> QED
    BY <1>1, <1>2

(* Every step keeps marking and draining apart. *)
LEMMA NextNoDrain == TypeOK /\ RoleInv /\ StoppedWorld /\ PollersRun /\ DrainsCounted /\ NoDrainDuringMark /\ [Next]_vars => NoDrainDuringMark'
  <1> SUFFICES ASSUME TypeOK /\ RoleInv /\ StoppedWorld /\ PollersRun /\ DrainsCounted /\ NoDrainDuringMark, [Next]_vars PROVE NoDrainDuringMark'
    OBVIOUS
  <1>1. CASE UNCHANGED vars
    BY <1>1 DEF NoDrainDuringMark, vars, gcVars, roleVars, latchVars, drainVars, localVars,
           ctxVars, waitVars
  <1>2. CASE Next
    BY <1>2, ThreadNoDrain, OtherNoDrain DEF Next
  <1> QED
    BY <1>1, <1>2

(* In every reachable state. *)
LEMMA DrainInvariant ==
  ASSUME CanDisable => Dedicated
  PROVE  Spec => []DrainInv
  <1>1. Init => DrainInv
    BY ConstantsOK DEF Init, DrainInv, PollersRun, DrainsCounted, CollWindows, NoDrainDuringMark,
       ParkedPC, Agents
  <1>2. StopInv /\ DrainInv /\ [Next]_vars => DrainInv'
    BY NextPollers, NextDrains, NextNoDrain DEF StopInv, DrainInv
  <1> QED
    BY <1>1, <1>2, StopInvariant, PTL DEF Spec

(* Marking never overlaps freeObjects, whichever thread drains: the reclaimer,
   the collector after its own sweep, or a self-elected thread in the tail of
   pollContext. *)
THEOREM DrainExclusion ==
  ASSUME CanDisable => Dedicated
  PROVE  Spec => []NoDrainDuringMark
  <1>1. DrainInv => NoDrainDuringMark
    BY DEF DrainInv
  <1> QED
    BY <1>1, DrainInvariant, PTL

-----------------------------------------------------------------------------
(* The reclaim fence *)

(* A waiter leaves for the tail of pollContext only when the fence is down. *)
OffTheFence == \A t \in Threads : pc[t] = "parkWait" /\ pc'[t] = "tail" => ~fence

(* A thread's steps keep the fence up for as long as there is a batch. *)
LEMMA ThreadFence ==
  ASSUME Dedicated, TypeOK, RoleInv, FenceIsBatch,
         NEW t \in Threads, ThreadStep(t) \/ UserStep(t) \/ BarrierRewake(t)
  PROVE  FenceIsBatch' /\ OffTheFence
  <1> USE ConstantsOK DEF TypeOK, FlagsOK, DrainOK, LocalOK, PlaceOK, Agents, FenceIsBatch,
         OffTheFence, RoleInv, RolesFixed, gcVars, roleVars, latchVars, drainVars, localVars,
         ctxVars, waitVars, Goto, Unlocked, Awake, NotifyAll, AtUser, hasRetired, BecomeRunning,
         RequestReturn, MayPark, PollEnter, PollReturn, Unpark, StartMark, FinishCollection,
         FreeBegin, FreeEnd
  <1>1. CASE EnterWait(t)
    BY <1>1 DEF EnterWait
  <1>2. CASE SectionCheckRequested(t)
    BY <1>2 DEF SectionCheckRequested
  <1>3. CASE SectionCheckInProgress(t)
    BY <1>3 DEF SectionCheckInProgress
  <1>4. CASE SectionBackOut(t)
    BY <1>4 DEF SectionBackOut
  <1>5. CASE RequestEnabled(t)
    BY <1>5 DEF RequestEnabled
  <1>6. CASE RequestDepth(t)
    BY <1>6 DEF RequestDepth
  <1>7. CASE RequestLatch(t)
    BY <1>7 DEF RequestLatch
  <1>8. CASE RequestRecheck(t)
    BY <1>8 DEF RequestRecheck
  <1>9. CASE RequestTake(t)
    BY <1>9 DEF RequestTake
  <1>10. CASE RequestPublish(t)
    BY <1>10 DEF RequestPublish
  <1>11. CASE RequestWake(t)
    BY <1>11 DEF RequestWake
  <1>12. CASE ScopeTake(t)
    BY <1>12 DEF ScopeTake
  <1>13. CASE PollLock(t)
    BY <1>13 DEF PollLock
  <1>14. CASE ParkWait(t)
    BY <1>14 DEF ParkWait
  <1>15. CASE BarrierStep(t)
    BY <1>15 DEF BarrierStep
  <1>16. CASE DrainWait(t)
    BY <1>16 DEF DrainWait
  <1>17. CASE Collect(t)
    BY <1>17 DEF Collect
  <1>18. CASE TailRetire(t)
    BY <1>18 DEF TailRetire
  <1>19. CASE TailFree(t)
    BY <1>19 DEF TailFree
  <1>20. CASE TailFreed(t)
    BY <1>20 DEF TailFreed
  <1>21. CASE TailFence(t)
    BY <1>21 DEF TailFence
  <1>22. CASE GcLoopPark(t)
    BY <1>22 DEF GcLoopPark
  <1>23. CASE GcLastPoll(t)
    BY <1>23 DEF GcLastPoll
  <1>24. CASE GcReturn(t)
    BY <1>24 DEF GcReturn
  <1>25. CASE EnterRunning(t)
    BY <1>25 DEF EnterRunning
  <1>26. CASE ExitRunning(t)
    BY <1>26 DEF ExitRunning
  <1>27. CASE BlockEnter(t)
    BY <1>27 DEF BlockEnter
  <1>28. CASE BlockExit(t)
    BY <1>28 DEF BlockExit
  <1>29. CASE NoParkToggle(t)
    BY <1>29 DEF NoParkToggle
  <1>30. CASE Sleep(t)
    BY <1>30 DEF Sleep
  <1>31. CASE Wake(t)
    BY <1>31 DEF Wake
  <1>32. CASE SectionEnter(t)
    BY <1>32 DEF SectionEnter
  <1>33. CASE SectionExit(t)
    BY <1>33 DEF SectionExit
  <1>34. CASE RequestCall(t)
    BY <1>34 DEF RequestCall
  <1>35. CASE GcCall(t)
    BY <1>35 DEF GcCall
  <1>36. CASE ScopeEnter(t)
    BY <1>36 DEF ScopeEnter
  <1>37. CASE ScopeExit(t)
    BY <1>37 DEF ScopeExit
  <1>38. CASE Poll(t)
    BY <1>38 DEF Poll
  <1>39. CASE Retire(t)
    BY <1>39 DEF Retire
  <1>40. CASE BarrierRewake(t)
    BY <1>40 DEF BarrierRewake
  <1> QED
    BY <1>1, <1>2, <1>3, <1>4, <1>5, <1>6, <1>7, <1>8, <1>9, <1>10, <1>11, <1>12, <1>13,
       <1>14, <1>15, <1>16, <1>17, <1>18, <1>19, <1>20, <1>21, <1>22, <1>23, <1>24, <1>25,
       <1>26, <1>27, <1>28, <1>29, <1>30, <1>31, <1>32, <1>33, <1>34, <1>35, <1>36, <1>37,
       <1>38, <1>39, <1>40
           DEF ThreadStep, UserStep

(* So do the collector's and the host's; when the fence goes up every thread
   that was in the tail of pollContext has left it, because the world is
   stopped. *)
LEMMA OtherFence ==
  ASSUME Dedicated, TypeOK, RoleInv, StoppedWorld, PollersRun, FenceIsBatch,
         CollStep \/ CollRewake \/ HostStep
  PROVE  FenceIsBatch' /\ OffTheFence
  <1> USE ConstantsOK DEF TypeOK, FlagsOK, DrainOK, LocalOK, PlaceOK, Agents, FenceIsBatch,
         OffTheFence, RoleInv, RolesFixed, gcVars, roleVars, latchVars, drainVars, localVars,
         ctxVars, waitVars, Goto, Unlocked, Awake, NotifyAll, AtUser, hasRetired, BecomeRunning,
         RequestReturn, MayPark, PollEnter, PollReturn, Unpark, StartMark, FinishCollection,
         FreeBegin, FreeEnd, ClaimIsRole, Collectors, StoppedWorld, PollersRun
  <1>1. CASE CollStop
    BY <1>1 DEF CollStop
  <1>2. CASE CollDrain
    BY <1>2 DEF CollDrain
  <1>3. CASE CollFree
    BY <1>3 DEF CollFree
  <1>4. CASE CollFreed
    BY <1>4 DEF CollFreed
  <1>5. CASE CollDrained
    BY <1>5 DEF CollDrained
  <1>6. CASE CollBarrier
    BY <1>6 DEF CollBarrier
  <1>7. CASE CollCollect
    BY <1>7 DEF CollCollect
  <1>8. CASE CollReclaim
    BY <1>8 DEF CollReclaim
  <1>9. CASE CollFenceDown
    BY <1>9 DEF CollFenceDown
  <1>10. CASE CollRewake
    BY <1>10 DEF CollRewake
  <1>11. CASE SetDisabled
    BY <1>11 DEF SetDisabled
  <1>12. CASE DisableClear
    BY <1>12 DEF DisableClear
  <1>13. CASE SetEnabled
    BY <1>13 DEF SetEnabled
  <1>14. CASE StopCollector
    BY <1>14 DEF StopCollector
  <1> QED
    BY <1>1, <1>2, <1>3, <1>4, <1>5, <1>6, <1>7, <1>8, <1>9, <1>10, <1>11, <1>12, <1>13,
       <1>14
           DEF CollStep, HostStep

(* Every step does. *)
LEMMA NextFence ==
  ASSUME Dedicated, TypeOK, RoleInv, StoppedWorld, PollersRun, FenceIsBatch, [Next]_vars
  PROVE  FenceIsBatch' /\ OffTheFence
  <1>1. CASE UNCHANGED vars
    BY <1>1 DEF FenceIsBatch, OffTheFence, vars, gcVars, drainVars
  <1>2. CASE Next
    BY <1>2, ThreadFence, OtherFence DEF Next
  <1> QED
    BY <1>1, <1>2

(* In every reachable state. *)
LEMMA FenceInvariant ==
  ASSUME Dedicated
  PROVE  Spec => []FenceIsBatch
  <1>1. Init => FenceIsBatch
    BY ConstantsOK DEF Init, FenceIsBatch, Agents
  <1>2. StopInv /\ DrainInv /\ FenceIsBatch /\ [Next]_vars => FenceIsBatch'
    BY NextFence DEF StopInv, DrainInv
  <1> QED
    BY <1>1, <1>2, StopInvariant, DrainInvariant, PTL DEF Spec

(* With the dedicated collector a thread that waited for a collection resumes
   only when the swept batch has been destroyed, also when the host disables
   the collector or shuts it down meanwhile. *)
THEOREM FenceOrder ==
  ASSUME Dedicated
  PROVE  Spec => FenceHolds
  <1>1. ASSUME StopInv, DrainInv, FenceIsBatch, [Next]_vars
        PROVE  [\A t \in Threads : pc[t] = "parkWait" /\ pc'[t] = "tail"
                  => \A a \in Agents : batch[a] = "none"]_vars
    <2>1. OffTheFence
      BY <1>1, NextFence DEF StopInv, DrainInv
    <2>2. ~fence => \A a \in Agents : batch[a] = "none"
      BY <1>1 DEF StopInv, TypeOK, DrainOK, FenceIsBatch, Agents
    <2> QED
      BY <2>1, <2>2 DEF OffTheFence
  <1>2. Spec => []StopInv
    BY StopInvariant, ZenonT(60)
  <1>3. Spec => []DrainInv
    BY DrainInvariant, ZenonT(60)
  <1> QED
    BY <1>1, <1>2, <1>3, FenceInvariant, PTL DEF Spec, FenceHolds

-----------------------------------------------------------------------------
(* gc() *)

(* The dedicated collector, with nobody compiling and never disabled: what
   gc() promises fails otherwise. *)
QuietProfile == Dedicated /\ Scopers = {} /\ ~CanDisable

(* A thread's steps keep the request of a gc() up, or have served it. *)
LEMMA ThreadGc ==
  ASSUME QuietProfile, TypeOK, RoleInv, PollersRun, FenceIsBatch, GcInv,
         NEW t \in Threads, ThreadStep(t) \/ UserStep(t) \/ BarrierRewake(t)
  PROVE  GcInv'
  <1> USE ConstantsOK DEF TypeOK, FlagsOK, DrainOK, LocalOK, PlaceOK, Agents, FenceIsBatch, GcInv,
         GcWaits, GcPC, ParkedPC, QuietProfile, RoleInv, RolesFixed, gcVars, roleVars, latchVars,
         drainVars,
         localVars, ctxVars, waitVars, Goto, Unlocked, Awake, NotifyAll, AtUser, BecomeRunning,
         RequestReturn, MayPark, SomeoneElseCollects, PollEnter, PollReturn, Unpark, StartMark,
         FinishCollection, FreeBegin, FreeEnd
  <1>1. CASE EnterWait(t)
    BY <1>1 DEF EnterWait
  <1>2. CASE SectionCheckRequested(t)
    BY <1>2 DEF SectionCheckRequested
  <1>3. CASE SectionCheckInProgress(t)
    BY <1>3 DEF SectionCheckInProgress
  <1>4. CASE SectionBackOut(t)
    BY <1>4 DEF SectionBackOut
  <1>5. CASE RequestEnabled(t)
    BY <1>5 DEF RequestEnabled
  <1>6. CASE RequestDepth(t)
    BY <1>6 DEF RequestDepth
  <1>7. CASE RequestLatch(t)
    BY <1>7 DEF RequestLatch
  <1>8. CASE RequestRecheck(t)
    BY <1>8 DEF RequestRecheck
  <1>9. CASE RequestTake(t)
    BY <1>9 DEF RequestTake
  <1>10. CASE RequestPublish(t)
    BY <1>10 DEF RequestPublish
  <1>11. CASE RequestWake(t)
    BY <1>11 DEF RequestWake
  <1>12. CASE ScopeTake(t)
    BY <1>12 DEF ScopeTake
  <1>13. CASE PollLock(t)
    BY <1>13 DEF PollLock
  <1>14. CASE ParkWait(t)
    BY <1>14 DEF ParkWait, PollersRun
  <1>15. CASE BarrierStep(t)
    BY <1>15 DEF BarrierStep
  <1>16. CASE DrainWait(t)
    BY <1>16 DEF DrainWait
  <1>17. CASE Collect(t)
    BY <1>17 DEF Collect
  <1>18. CASE TailRetire(t)
    BY <1>18 DEF TailRetire
  <1>19. CASE TailFree(t)
    BY <1>19 DEF TailFree
  <1>20. CASE TailFreed(t)
    BY <1>20 DEF TailFreed
  <1>21. CASE TailFence(t)
    BY <1>21 DEF TailFence
  <1>22. CASE GcLoopPark(t)
    BY <1>22 DEF GcLoopPark
  <1>23. CASE GcLastPoll(t)
    <2>1. MayPark(t)
      BY <1>23 DEF GcLastPoll
    <2>2. PollEnter(t)
      BY <1>23, <2>1 DEF GcLastPoll
    <2>3. /\ pc' = [pc EXCEPT ![t] = "pollLock"] /\ gcLast' = [gcLast EXCEPT ![t] = TRUE]
          /\ UNCHANGED <<gcVars, roleVars, deferDepth, deferredPending, ctxVars, noPark, section,
                         scoped, gcBase>>
      BY <1>23, <2>2 DEF GcLastPoll
    <2> QED
      BY <1>23, <2>3 DEF GcLastPoll
  <1>24. CASE GcReturn(t)
    BY <1>24 DEF GcReturn
  <1>25. CASE EnterRunning(t)
    BY <1>25 DEF EnterRunning
  <1>26. CASE ExitRunning(t)
    BY <1>26 DEF ExitRunning
  <1>27. CASE BlockEnter(t)
    BY <1>27 DEF BlockEnter
  <1>28. CASE BlockExit(t)
    BY <1>28 DEF BlockExit
  <1>29. CASE NoParkToggle(t)
    BY <1>29 DEF NoParkToggle
  <1>30. CASE Sleep(t)
    BY <1>30 DEF Sleep
  <1>31. CASE Wake(t)
    BY <1>31 DEF Wake
  <1>32. CASE SectionEnter(t)
    BY <1>32 DEF SectionEnter
  <1>33. CASE SectionExit(t)
    BY <1>33 DEF SectionExit
  <1>34. CASE RequestCall(t)
    BY <1>34 DEF RequestCall
  <1>35. CASE GcCall(t)
    BY <1>35 DEF GcCall
  <1>36. CASE ScopeEnter(t)
    BY <1>36 DEF ScopeEnter
  <1>37. CASE ScopeExit(t)
    BY <1>37 DEF ScopeExit
  <1>38. CASE Poll(t)
    BY <1>38 DEF Poll
  <1>39. CASE Retire(t)
    BY <1>39 DEF Retire
  <1>40. CASE BarrierRewake(t)
    BY <1>40 DEF BarrierRewake
  <1> QED
    BY <1>1, <1>2, <1>3, <1>4, <1>5, <1>6, <1>7, <1>8, <1>9, <1>10, <1>11, <1>12, <1>13,
       <1>14, <1>15, <1>16, <1>17, <1>18, <1>19, <1>20, <1>21, <1>22, <1>23, <1>24, <1>25,
       <1>26, <1>27, <1>28, <1>29, <1>30, <1>31, <1>32, <1>33, <1>34, <1>35, <1>36, <1>37,
       <1>38, <1>39, <1>40
           DEF ThreadStep, UserStep

(* So do the collector's and the host's: a collection cannot end while the
   caller runs. *)
LEMMA OtherGc ==
  ASSUME QuietProfile, TypeOK, RoleInv, StoppedWorld, FenceIsBatch, GcInv,
         CollStep \/ CollRewake \/ HostStep
  PROVE  GcInv'
  <1> USE ConstantsOK DEF TypeOK, FlagsOK, DrainOK, LocalOK, PlaceOK, Agents, FenceIsBatch, GcInv,
         GcWaits, GcPC, ParkedPC, QuietProfile, RoleInv, RolesFixed, gcVars, roleVars, latchVars,
         drainVars,
         localVars, ctxVars, waitVars, Goto, Unlocked, Awake, NotifyAll, AtUser, BecomeRunning,
         RequestReturn, MayPark, SomeoneElseCollects, PollEnter, PollReturn, Unpark, StartMark,
         FinishCollection, FreeBegin, FreeEnd, ClaimIsRole, Collectors,
         StoppedWorld
  <1>1. CASE CollStop
    BY <1>1 DEF CollStop
  <1>2. CASE CollDrain
    BY <1>2 DEF CollDrain
  <1>3. CASE CollFree
    BY <1>3 DEF CollFree
  <1>4. CASE CollFreed
    BY <1>4 DEF CollFreed
  <1>5. CASE CollDrained
    BY <1>5 DEF CollDrained
  <1>6. CASE CollBarrier
    BY <1>6 DEF CollBarrier
  <1>7. CASE CollCollect
    BY <1>7 DEF CollCollect
  <1>8. CASE CollReclaim
    BY <1>8 DEF CollReclaim
  <1>9. CASE CollFenceDown
    BY <1>9 DEF CollFenceDown
  <1>10. CASE CollRewake
    BY <1>10 DEF CollRewake
  <1>11. CASE SetDisabled
    BY <1>11 DEF SetDisabled
  <1>12. CASE DisableClear
    BY <1>12 DEF DisableClear
  <1>13. CASE SetEnabled
    BY <1>13 DEF SetEnabled
  <1>14. CASE StopCollector
    BY <1>14 DEF StopCollector
  <1> QED
    BY <1>1, <1>2, <1>3, <1>4, <1>5, <1>6, <1>7, <1>8, <1>9, <1>10, <1>11, <1>12, <1>13,
       <1>14
           DEF CollStep, HostStep

(* Every step does. *)
LEMMA NextGc ==
  ASSUME QuietProfile, TypeOK, RoleInv, StoppedWorld, PollersRun, FenceIsBatch, GcInv,
         [Next]_vars
  PROVE  GcInv'
  <1>1. CASE UNCHANGED vars
    BY <1>1 DEF GcInv, GcWaits, vars, gcVars, roleVars, latchVars, localVars, ctxVars
  <1>2. CASE Next
    BY <1>2, ThreadGc, OtherGc DEF Next
  <1> QED
    BY <1>1, <1>2

(* When gc() returns, a collection has finished since it was called and its
   batch is destroyed, whatever other threads request, park and block. *)
THEOREM GcCollectsHolds ==
  ASSUME QuietProfile
  PROVE  Spec => []GcCollects
  <1>1. Init => GcInv
    BY ConstantsOK DEF Init, GcInv, Agents
  <1>2. StopInv /\ DrainInv /\ FenceIsBatch /\ GcInv /\ [Next]_vars => GcInv'
    BY NextGc DEF StopInv, DrainInv
  <1>3. ASSUME StopInv, FenceIsBatch, GcInv
        PROVE  GcCollects
    <2>1. ~fence => \A a \in Agents : batch[a] = "none"
      BY <1>3 DEF StopInv, TypeOK, DrainOK, FenceIsBatch, Agents, QuietProfile
    <2> QED
      BY <1>3, <2>1 DEF GcInv, GcWaits, GcCollects
  <1>4. Spec => []StopInv
    BY StopInvariant, ZenonT(60) DEF QuietProfile
  <1>5. Spec => []DrainInv
    BY DrainInvariant, ZenonT(60) DEF QuietProfile
  <1>6. Spec => []FenceIsBatch
    BY FenceInvariant, ZenonT(60) DEF QuietProfile
  <1> QED
    BY <1>1, <1>2, <1>3, <1>4, <1>5, <1>6, PTL DEF Spec

-----------------------------------------------------------------------------
(* Latched requests *)

(* The open scopes are finitely many, so that their number is a natural. *)
LEMMA ScopesFinite == IsFiniteSet(OpenScopes) /\ Cardinality(OpenScopes) \in Nat
  <1>1. IsFiniteSet(OpenScopes)
    BY ConstantsOK, FS_Subset DEF OpenScopes
  <1> QED
    BY <1>1, FS_CardinalityType

(* A thread that opens a scope adds one to their number. *)
LEMMA ScopeOpens ==
  ASSUME NEW t \in Threads, t \notin OpenScopes, OpenScopes' = OpenScopes \union {t}
  PROVE  Cardinality(OpenScopes') = Cardinality(OpenScopes) + 1
  BY ScopesFinite, FS_AddElement

(* A thread's steps keep a publisher for every latched request. *)
LEMMA ThreadLatch ==
  ASSUME TypeOK, LatchInv,
         NEW t \in Threads, ThreadStep(t) \/ UserStep(t) \/ BarrierRewake(t)
  PROVE  LatchInv'
  <1> USE ConstantsOK DEF TypeOK, FlagsOK, DrainOK, LocalOK, PlaceOK, Agents, LatchInv,
         ScopesCounted, OpenScopes, LatchHasPublisher, gcVars, roleVars, latchVars, drainVars,
         localVars, ctxVars, waitVars, Goto, Unlocked, Awake, NotifyAll, WakeAllThreads, AtUser,
         anyRunning, BarrierOpen, WorldBusy, SomeoneElseCollects, hasRetired, BecomeRunning,
         RequestReturn, MayPark, PollEnter, PollReturn, Unpark, StartMark, Rewake,
         HeldUpByRunning, FinishCollection, reclaimBegin, reclaimEnd, FreeBegin, FreeEnd
  <1>1. CASE EnterWait(t)
    BY <1>1 DEF EnterWait
  <1>2. CASE SectionCheckRequested(t)
    BY <1>2 DEF SectionCheckRequested
  <1>3. CASE SectionCheckInProgress(t)
    BY <1>3 DEF SectionCheckInProgress
  <1>4. CASE SectionBackOut(t)
    BY <1>4 DEF SectionBackOut
  <1>5. CASE RequestEnabled(t)
    BY <1>5 DEF RequestEnabled
  <1>6. CASE RequestDepth(t)
    BY <1>6 DEF RequestDepth
  <1>7. CASE RequestLatch(t)
    BY <1>7 DEF RequestLatch
  <1>8. CASE RequestRecheck(t)
    BY <1>8 DEF RequestRecheck
  <1>9. CASE RequestTake(t)
    BY <1>9 DEF RequestTake
  <1>10. CASE RequestPublish(t)
    BY <1>10 DEF RequestPublish
  <1>11. CASE RequestWake(t)
    BY <1>11 DEF RequestWake
  <1>12. CASE ScopeTake(t)
    BY <1>12 DEF ScopeTake
  <1>13. CASE PollLock(t)
    BY <1>13 DEF PollLock
  <1>14. CASE ParkWait(t)
    BY <1>14 DEF ParkWait
  <1>15. CASE BarrierStep(t)
    BY <1>15 DEF BarrierStep
  <1>16. CASE DrainWait(t)
    BY <1>16 DEF DrainWait
  <1>17. CASE Collect(t)
    BY <1>17 DEF Collect
  <1>18. CASE TailRetire(t)
    BY <1>18 DEF TailRetire
  <1>19. CASE TailFree(t)
    BY <1>19 DEF TailFree
  <1>20. CASE TailFreed(t)
    BY <1>20 DEF TailFreed
  <1>21. CASE TailFence(t)
    BY <1>21 DEF TailFence
  <1>22. CASE GcLoopPark(t)
    BY <1>22 DEF GcLoopPark
  <1>23. CASE GcLastPoll(t)
    <2>1. CASE PollEnter(t)
      BY <1>23, <2>1 DEF GcLastPoll
    <2>2. CASE Goto(t, "gcRet") /\ UNCHANGED <<latchVars, scoped>>
      BY <1>23, <2>2 DEF GcLastPoll
    <2> QED
      BY <1>23, <2>1, <2>2 DEF GcLastPoll
  <1>24. CASE GcReturn(t)
    BY <1>24 DEF GcReturn
  <1>25. CASE EnterRunning(t)
    BY <1>25 DEF EnterRunning
  <1>26. CASE ExitRunning(t)
    BY <1>26 DEF ExitRunning
  <1>27. CASE BlockEnter(t)
    BY <1>27 DEF BlockEnter
  <1>28. CASE BlockExit(t)
    BY <1>28 DEF BlockExit
  <1>29. CASE NoParkToggle(t)
    BY <1>29 DEF NoParkToggle
  <1>30. CASE Sleep(t)
    BY <1>30 DEF Sleep
  <1>31. CASE Wake(t)
    BY <1>31 DEF Wake
  <1>32. CASE SectionEnter(t)
    BY <1>32 DEF SectionEnter
  <1>33. CASE SectionExit(t)
    BY <1>33 DEF SectionExit
  <1>34. CASE RequestCall(t)
    BY <1>34 DEF RequestCall
  <1>35. CASE GcCall(t)
    BY <1>35 DEF GcCall
  <1>36. CASE ScopeEnter(t)
    <2>1. t \notin OpenScopes /\ OpenScopes' = OpenScopes \union {t}
      BY <1>36 DEF ScopeEnter
    <2>2. deferDepth = Cardinality(OpenScopes) /\ deferDepth' = deferDepth + 1
      BY <1>36 DEF ScopeEnter
    <2>3. deferDepth' = Cardinality(OpenScopes') /\ deferDepth' > 0
      <3>1. Cardinality(OpenScopes') = Cardinality(OpenScopes) + 1
        <4> HIDE DEF OpenScopes
        <4> QED BY <2>1, ScopeOpens
      <3>2. Cardinality(OpenScopes) \in Nat
        BY ScopesFinite
      <3> HIDE DEF OpenScopes, LatchInv, TypeOK
      <3> QED BY <2>2, <3>1, <3>2
    <2> QED
      BY <2>3
  <1>37. CASE ScopeExit(t)
    <2>1. t \in OpenScopes /\ OpenScopes' = OpenScopes \ {t}
      BY <1>37 DEF ScopeExit
    <2>2. deferDepth' = Cardinality(OpenScopes')
      <3> HIDE DEF OpenScopes
      <3> QED BY <1>37, <2>1, ScopesFinite, FS_RemoveElement DEF ScopeExit
    <2>3. deferDepth' = 0 => pc'[t] = "scTake"
      BY <1>37 DEF ScopeExit
    <2> QED
      BY <2>2, <2>3
  <1>38. CASE Poll(t)
    BY <1>38 DEF Poll
  <1>39. CASE Retire(t)
    BY <1>39 DEF Retire
  <1>40. CASE BarrierRewake(t)
    BY <1>40 DEF BarrierRewake
  <1> QED
    BY <1>1, <1>2, <1>3, <1>4, <1>5, <1>6, <1>7, <1>8, <1>9, <1>10, <1>11, <1>12, <1>13, <1>14,
           <1>15, <1>16, <1>17, <1>18, <1>19, <1>20, <1>21, <1>22, <1>23, <1>24, <1>25, <1>26,
           <1>27, <1>28, <1>29, <1>30, <1>31, <1>32, <1>33, <1>34, <1>35, <1>36, <1>37, <1>38,
           <1>39, <1>40 DEF ThreadStep, UserStep

(* So do the collector's and the host's. *)
LEMMA OtherLatch ==
  ASSUME TypeOK, LatchInv,
         CollStep \/ CollRewake \/ HostStep
  PROVE  LatchInv'
  <1> USE ConstantsOK DEF TypeOK, FlagsOK, DrainOK, LocalOK, PlaceOK, Agents, LatchInv,
         ScopesCounted, OpenScopes, LatchHasPublisher, gcVars, roleVars, latchVars, drainVars,
         localVars, ctxVars, waitVars, Goto, Unlocked, Awake, NotifyAll, WakeAllThreads, AtUser,
         anyRunning, BarrierOpen, WorldBusy, SomeoneElseCollects, hasRetired, BecomeRunning,
         RequestReturn, MayPark, PollEnter, PollReturn, Unpark, StartMark, Rewake,
         HeldUpByRunning, FinishCollection, reclaimBegin, reclaimEnd, FreeBegin, FreeEnd
  <1>1. CASE CollStop
    BY <1>1 DEF CollStop
  <1>2. CASE CollDrain
    BY <1>2 DEF CollDrain
  <1>3. CASE CollFree
    BY <1>3 DEF CollFree
  <1>4. CASE CollFreed
    BY <1>4 DEF CollFreed
  <1>5. CASE CollDrained
    BY <1>5 DEF CollDrained
  <1>6. CASE CollBarrier
    BY <1>6 DEF CollBarrier
  <1>7. CASE CollCollect
    BY <1>7 DEF CollCollect
  <1>8. CASE CollReclaim
    BY <1>8 DEF CollReclaim
  <1>9. CASE CollFenceDown
    BY <1>9 DEF CollFenceDown
  <1>10. CASE CollRewake
    BY <1>10 DEF CollRewake
  <1>11. CASE SetDisabled
    BY <1>11 DEF SetDisabled
  <1>12. CASE DisableClear
    BY <1>12 DEF DisableClear
  <1>13. CASE SetEnabled
    BY <1>13 DEF SetEnabled
  <1>14. CASE StopCollector
    BY <1>14 DEF StopCollector
  <1> QED
    BY <1>1, <1>2, <1>3, <1>4, <1>5, <1>6, <1>7, <1>8, <1>9, <1>10, <1>11, <1>12, <1>13, <1>14
           DEF CollStep, HostStep

(* Every step keeps a publisher for every latched request. *)
LEMMA NextLatch == TypeOK /\ LatchInv /\ [Next]_vars => LatchInv'
  <1> SUFFICES ASSUME TypeOK /\ LatchInv, [Next]_vars PROVE LatchInv'
    OBVIOUS
  <1>1. CASE UNCHANGED vars
    BY <1>1 DEF LatchInv, ScopesCounted, OpenScopes, LatchHasPublisher, vars, gcVars, roleVars,
           latchVars, drainVars, localVars, ctxVars, waitVars
  <1>2. CASE Next
    BY <1>2, ThreadLatch, OtherLatch DEF Next
  <1> QED
    BY <1>1, <1>2

(* No latched request is forgotten: when the last compilation scope is gone,
   somebody is still on its way to take the latch, whatever the order of the
   requester's recheck and the last scope's exchange. *)
THEOREM PublisherExists == Spec => []LatchHasPublisher
  <1>1. Init => TypeOK /\ LatchInv
    <2> SUFFICES ASSUME Init PROVE LatchInv
      BY InitType
    <2>1. OpenScopes = {}
      BY DEF Init, OpenScopes
    <2> QED
      BY <2>1, FS_EmptySet DEF Init, LatchInv, ScopesCounted, LatchHasPublisher
  <1>2. TypeOK /\ LatchInv /\ [Next]_vars => (TypeOK /\ LatchInv)'
    BY NextType, NextLatch
  <1>3. LatchInv => LatchHasPublisher
    BY DEF LatchInv
  <1> QED
    BY <1>1, <1>2, <1>3, PTL DEF Spec

=============================================================================
