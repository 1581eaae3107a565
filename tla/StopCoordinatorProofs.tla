------------------------ MODULE StopCoordinatorProofs ------------------------
(***************************************************************************)
(* Proofs, for any threads, worlds and bounds, of the safety properties of *)
(* StopCoordinator.                                                        *)
(***************************************************************************)
EXTENDS StopCoordinator, TLAPS

-----------------------------------------------------------------------------
(* The parts of the inductive invariants *)

(* A world never changes; outside ackAndPark no generation is remembered; no
   thread is inside execute() before the execution has begun. *)
WorldOK  == world \in Worlds
SeenOK   == \A t \in Threads : pc[t] \notin {"parkbit", "parkack", "parked"} => seenGen[t] = 0
AllOut   == phase \in {"idle", "starting", "forming", "publishing"} => \A t \in Threads : At(t,
    "out")
TypeInv  == TypeOK /\ WorldOK /\ SeenOK /\ AllOut

(* The interrupt bit is set only while a stop is forming or in force, or while
   resumeNow has yet to clear it. *)
PublicationInv == intrDebugStop => stopped \/ forming \/ releasing = "open"

(* A step that leaves the stop and its publication alone. *)
StopKept ==
  /\ stopped' = stopped /\ forming' = forming
  /\ intrDebugStop' = intrDebugStop /\ releasing' = releasing

(* NoLostRelease, from the moment the thread has seen the bit. *)
ParkedInv ==
  \A t \in Threads :
    pc[t] \in {"parkack", "parked"} /\ releaseGeneration = seenGen[t]
    => stopped \/ forming \/ ~ControlFree

(* A thread on its way through user code, a trap or a stop point reached from
   either owns its execution; a thread of another domain is not there. *)
Inside  == {"top", "run", "eval", "accepting", "stopped", "forming", "owner", "async", "refused"}
Parking == {"park", "parkbit", "parkack", "parked"}

OwnedInv ==
  \A t \in Threads :
    /\ pc[t] \in Inside => own[t] = "Executing"
    /\ pc[t] \in Parking /\ ret[t] # "own" => own[t] = "Executing"
    /\ pc[t] # "out" => t \in world.threads

(* What Frozen assumes of the world. *)
FrozenWorld ==
  /\ Serialised
  /\ "fatal" \notin world.may
  /\ "host" \in world.may => world.runs <= 1

(* Without fatal-error stops a thread parks on its way in or at the top of the
   dispatch loop, never below it. *)
ReturnInv == \A t \in Threads : ret[t] \in {"own", "top"}

(* One stop at a time: it is published while it is forming and in force, and
   its release is over before the next one. *)
StopInv ==
  /\ ~(forming /\ stopped)
  /\ forming \/ stopped => intrDebugStop
  /\ ~ControlFree => ~stopped
  /\ releasing = "open" => ~forming /\ intrDebugStop

(* Threads that may run user code without meeting another stop point: none
   while a stop is in force, and none that has acknowledged one forming. *)
Hot == {"run", "eval", "accepting", "stopped", "forming"}

HotInv ==
  /\ stopped \/ releasing = "open" => \A t \in Threads : pc[t] \notin Hot
  /\ forming => \A t \in Threads : pc[t] \in Hot => ackEpoch[t] < stopEpoch

(* No hold is placed before the only execution of a host's world, and no
   controller is inside a blocking request. *)
HoldInv ==
  /\ ctl = "idle"
  /\ phase \notin {"forming", "publishing"}
  /\ "host" \notin world.may => ~HasOwner("Host")
  /\ phase = "idle" /\ runs = 0 => acceptingStops /\ ~HasOwner("Host")
  /\ phase = "starting" => ~HasOwner("Host")
  /\ phase # "idle" => runs >= 1

FrozenInv == FrozenWorld => ReturnInv /\ StopInv /\ HotInv /\ HoldInv

(* What HostHeld assumes of the world. *)
HeldWorld == Serialised /\ ("exit" \in world.may => world.runs <= 1)

(* HostHeld from the publication on, and an exit's release belongs to the only
   execution, which accepts no stop any more. *)
HeldInv ==
  HeldWorld =>
    /\ ctl = "idle"
    /\ phase \in {"publishing",
        "active"} /\ acceptingStops /\ HasOwner("Host") => forming \/ stopped
    /\ phase # "idle" => runs >= 1
    /\ \A i \in 1..Len(commands) :
         commands[i] = "exit" => "exit" \in world.may /\ ~acceptingStops /\ runs >= 1

-----------------------------------------------------------------------------
(* Types *)

(* One pass acknowledges for idle threads no epoch but the current one. *)
LEMMA PassAck ==
  ASSUME ThreadsOK, CountsOK, NEW e \in Nat, NEW pend, tryCommitPass(e, pend),
      stopEpoch' = stopEpoch
  PROVE  ackEpoch' \in [Threads -> 0..stopEpoch']
BY DEF tryCommitPass, ThreadsOK, CountsOK

(* A debuggee thread's steps keep the types. *)
LEMMA ThreadType ==
  ASSUME TypeInv, NEW t \in Threads, ThreadStep(t)
  PROVE  TypeInv'
  <1> USE DEF TypeInv, TypeOK, FlagsOK, CountsOK, ThreadsOK, PlacesOK, WorldOK, SeenOK, AllOut, PC,
      coordVars, domainVars, threadVars, workerVars, ctlVars, driverVars, vars, Goto, At,
      ControlFree, HasOwner, Local, StopPoint, Unpark, Publish
  <1>1. CASE Enter(t)
    BY <1>1 DEF Enter
  <1>2. CASE Claim(t)
    <2>1. FlagsOK'
      BY <1>2 DEF Claim
    <2>2. CountsOK'
      BY <1>2 DEF Claim
    <2>3. PlacesOK' /\ WorldOK'
      BY <1>2 DEF Claim
    <2>4. ThreadsOK'
      BY <1>2 DEF Claim
    <2>5. SeenOK' /\ AllOut'
      BY <1>2 DEF Claim
    <2> QED
      BY <2>1, <2>2, <2>3, <2>4, <2>5
  <1>3. CASE AdmitOwn(t)
    <2>1. FlagsOK'
      BY <1>3 DEF AdmitOwn
    <2>2. CountsOK'
      BY <1>3 DEF AdmitOwn
    <2>3. PlacesOK' /\ WorldOK'
      BY <1>3 DEF AdmitOwn
    <2>4. ThreadsOK'
      BY <1>3, ZenonT(120) DEF AdmitOwn
    <2>5. SeenOK' /\ AllOut'
      BY <1>3 DEF AdmitOwn
    <2> QED
      BY <2>1, <2>2, <2>3, <2>4, <2>5
  <1>4. CASE AdmitGate(t)
    <2>1. FlagsOK'
      BY <1>4 DEF AdmitGate
    <2>2. CountsOK'
      BY <1>4 DEF AdmitGate
    <2>3. PlacesOK' /\ WorldOK'
      BY <1>4 DEF AdmitGate
    <2>4. ThreadsOK'
      BY <1>4, ZenonT(120) DEF AdmitGate
    <2>5. SeenOK' /\ AllOut'
      BY <1>4 DEF AdmitGate
    <2> QED
      BY <2>1, <2>2, <2>3, <2>4, <2>5
  <1>5. CASE Top(t)
    <2>1. FlagsOK'
      BY <1>5 DEF Top
    <2>2. CountsOK'
      BY <1>5 DEF Top
    <2>3. PlacesOK' /\ WorldOK'
      BY <1>5 DEF Top
    <2>4. ThreadsOK'
      BY <1>5, ZenonT(120) DEF Top
    <2>5. SeenOK' /\ AllOut'
      BY <1>5 DEF Top
    <2> QED
      BY <2>1, <2>2, <2>3, <2>4, <2>5
  <1>6. CASE Instruction(t)
    BY <1>6 DEF Instruction
  <1>7. CASE Evaluate(t)
    <2>1. FlagsOK'
      BY <1>7 DEF Evaluate
    <2>2. CountsOK'
      BY <1>7 DEF Evaluate
    <2>3. PlacesOK' /\ WorldOK'
      BY <1>7 DEF Evaluate
    <2>4. ThreadsOK'
      BY <1>7 DEF Evaluate
    <2>5. SeenOK' /\ AllOut'
      BY <1>7 DEF Evaluate
    <2> QED
      BY <2>1, <2>2, <2>3, <2>4, <2>5
  <1>8. CASE Finish(t)
    BY <1>8 DEF Finish
  <1>9. CASE AckReturn(t)
    BY <1>9 DEF AckReturn
  <1>10. CASE ParkGen(t)
    BY <1>10 DEF ParkGen
  <1>11. CASE ParkBit(t)
    <2>1. CASE intrDebugStop
      <3>1. FlagsOK'
        BY <1>11, <2>1 DEF ParkBit
      <3>2. CountsOK'
        BY <1>11, <2>1 DEF ParkBit
      <3>3. PlacesOK' /\ WorldOK'
        BY <1>11, <2>1 DEF ParkBit
      <3>4. ThreadsOK'
        BY <1>11, <2>1 DEF ParkBit
      <3>5. SeenOK'
        BY <1>11, <2>1 DEF ParkBit
      <3>6. AllOut'
        BY <1>11, <2>1 DEF ParkBit
      <3> QED
        BY <3>1, <3>2, <3>3, <3>4, <3>5, <3>6 DEF TypeInv, TypeOK
    <2>2. CASE ~intrDebugStop
      <3>1. ret[t] \in PC
        BY <1>11, <2>2 DEF ParkBit
      <3>2. FlagsOK'
        BY <1>11, <2>2, <3>1 DEF ParkBit
      <3>3. CountsOK'
        BY <1>11, <2>2, <3>1 DEF ParkBit
      <3>4. PlacesOK' /\ WorldOK'
        BY <1>11, <2>2, <3>1 DEF ParkBit
      <3>5. ThreadsOK'
        <4>1. own' \in [Threads -> {"Idle", "Executing", "StoppedExternal"}]
          BY <1>11, <2>2, <3>1 DEF ParkBit
        <4>2. ackEpoch' \in [Threads -> 0..stopEpoch']
          BY <1>11, <2>2, <3>1 DEF ParkBit
        <4>3. seenGen' \in [Threads -> 0..releaseGeneration']
          BY <1>11, <2>2, <3>1, SMTT(60) DEF ParkBit
        <4>4. pc' \in [Threads -> PC]
          BY <1>11, <2>2, <3>1, ZenonT(120) DEF ParkBit
        <4>5. ret' \in [Threads -> {"own", "top", "run", "accepting"}]
          BY <1>11, <2>2, <3>1 DEF ParkBit
        <4> QED
          BY <4>1, <4>2, <4>3, <4>4, <4>5 DEF ThreadsOK
      <3>6. SeenOK'
        BY <1>11, <2>2, <3>1 DEF ParkBit
      <3>7. AllOut'
        BY <1>11, <2>2, <3>1 DEF ParkBit
      <3> QED
        BY <3>2, <3>3, <3>4, <3>5, <3>6, <3>7 DEF TypeInv, TypeOK
    <2> QED
      BY <2>1, <2>2
  <1>12. CASE ParkAck(t)
    BY <1>12 DEF ParkAck
  <1>13. CASE Wake(t)
    BY <1>13 DEF Wake
  <1>14. CASE Trap(t)
    BY <1>14 DEF Trap
  <1>15. CASE Fatal(t)
    BY <1>15 DEF Fatal
  <1>16. CASE TryAccepting(t)
    BY <1>16 DEF TryAccepting
  <1>17. CASE TryStopped(t)
    BY <1>17 DEF TryStopped
  <1>18. CASE TryForming(t)
    <2>1. FlagsOK'
      BY <1>18 DEF TryForming
    <2>2. CountsOK'
      BY <1>18 DEF TryForming
    <2>3. PlacesOK' /\ WorldOK'
      BY <1>18 DEF TryForming
    <2>4. ThreadsOK'
      <3>1. CASE forming \/ stopEpoch = world.epochs
        BY <1>18, <3>1 DEF TryForming
      <3>2. CASE ~(forming \/ stopEpoch = world.epochs)
        BY <1>18, <3>2 DEF TryForming
      <3> QED
        BY <1>18, <3>1, <3>2 DEF TryForming
    <2>5. SeenOK' /\ AllOut'
      BY <1>18 DEF TryForming
    <2> QED
      BY <2>1, <2>2, <2>3, <2>4, <2>5
  <1>19. CASE TryOwner(t)
    BY <1>19 DEF TryOwner
  <1>20. CASE TryAsync(t)
    BY <1>20 DEF TryAsync
  <1>21. CASE TryRefused(t)
    <2>1. FlagsOK'
      BY <1>21 DEF TryRefused
    <2>2. CountsOK'
      BY <1>21 DEF TryRefused
    <2>3. PlacesOK' /\ WorldOK'
      BY <1>21 DEF TryRefused
    <2>4. ThreadsOK'
      BY <1>21, ZenonT(120) DEF TryRefused
    <2>5. SeenOK' /\ AllOut'
      BY <1>21 DEF TryRefused
    <2> QED
      BY <2>1, <2>2, <2>3, <2>4, <2>5
  <1> QED
    BY <1>1, <1>2, <1>3, <1>4, <1>5, <1>6, <1>7, <1>8, <1>9, <1>10, <1>11, <1>12, <1>13, <1>14,
        <1>15, <1>16, <1>17, <1>18, <1>19, <1>20, <1>21 DEF ThreadStep

(* The worker's steps keep the types. *)
LEMMA WorkerType ==
  ASSUME TypeInv, WorkerStep
  PROVE  TypeInv'
  <1> USE DEF TypeInv, TypeOK, FlagsOK, CountsOK, ThreadsOK, PlacesOK, WorldOK, SeenOK, AllOut, PC,
      coordVars, domainVars, threadVars, workerVars, ctlVars, driverVars, vars, Goto, At,
      ControlFree, HasOwner, Local, tryCommitPass, cancelPending, resumeNow, ReleaseAll, ReleasedOwn
  <1>1. CASE TakeAsync
    <2>1. FlagsOK'
      BY <1>1 DEF TakeAsync
    <2>2. CountsOK'
      BY <1>1 DEF TakeAsync
    <2>3. PlacesOK' /\ WorldOK'
      BY <1>1 DEF TakeAsync
    <2>4. ThreadsOK'
      BY <1>1 DEF TakeAsync
    <2>5. SeenOK' /\ AllOut'
      BY <1>1 DEF TakeAsync
    <2> QED
      BY <2>1, <2>2, <2>3, <2>4, <2>5
  <1>2. CASE completeAsyncStop
    <2>1. FlagsOK'
      BY <1>2 DEF completeAsyncStop
    <2>2. CountsOK'
      BY <1>2 DEF completeAsyncStop
    <2>3. PlacesOK' /\ WorldOK'
      BY <1>2 DEF completeAsyncStop
    <2>4. ThreadsOK'
      BY <1>2 DEF completeAsyncStop
    <2>5. SeenOK' /\ AllOut'
      BY <1>2 DEF completeAsyncStop
    <2> QED
      BY <2>1, <2>2, <2>3, <2>4, <2>5
  <1>3. CASE advancePendingStop
    <2>1. CASE ~forming
      <3>1. FlagsOK'
        BY <1>3, <2>1 DEF advancePendingStop
      <3>2. CountsOK'
        BY <1>3, <2>1 DEF advancePendingStop
      <3>3. PlacesOK' /\ WorldOK'
        BY <1>3, <2>1 DEF advancePendingStop
      <3>4. ThreadsOK'
        BY <1>3, <2>1 DEF advancePendingStop
      <3>5. SeenOK'
        BY <1>3, <2>1 DEF advancePendingStop
      <3>6. AllOut'
        BY <1>3, <2>1 DEF advancePendingStop
      <3> QED
        BY <3>1, <3>2, <3>3, <3>4, <3>5, <3>6 DEF TypeInv, TypeOK
    <2>2. CASE forming /\ owners = {}
      <3>1. FlagsOK'
        BY <1>3, <2>2 DEF advancePendingStop
      <3>2. CountsOK'
        BY <1>3, <2>2 DEF advancePendingStop
      <3>3. PlacesOK' /\ WorldOK'
        BY <1>3, <2>2 DEF advancePendingStop
      <3>4. ThreadsOK'
        BY <1>3, <2>2 DEF advancePendingStop
      <3>5. SeenOK'
        BY <1>3, <2>2 DEF advancePendingStop
      <3>6. AllOut'
        BY <1>3, <2>2 DEF advancePendingStop
      <3> QED
        BY <3>1, <3>2, <3>3, <3>4, <3>5, <3>6 DEF TypeInv, TypeOK
    <2>3. CASE forming /\ owners # {}
      <3>1. FlagsOK'
        BY <1>3, <2>3 DEF advancePendingStop
      <3>2. CountsOK'
        BY <1>3, <2>3 DEF advancePendingStop
      <3>3. PlacesOK' /\ WorldOK'
        BY <1>3, <2>3 DEF advancePendingStop
      <3>4. ThreadsOK'
        <4>1. own' \in [Threads -> {"Idle", "Executing", "StoppedExternal"}]
          BY <1>3, <2>3, ZenonT(120) DEF advancePendingStop
        <4>2. ackEpoch' \in [Threads -> 0..stopEpoch']
          BY <1>3, <2>3, PassAck DEF advancePendingStop
        <4>3. seenGen' \in [Threads -> 0..releaseGeneration']
          BY <1>3, <2>3 DEF advancePendingStop
        <4>4. pc' \in [Threads -> PC]
          BY <1>3, <2>3 DEF advancePendingStop
        <4>5. ret' \in [Threads -> {"own", "top", "run", "accepting"}]
          BY <1>3, <2>3 DEF advancePendingStop
        <4> QED
          BY <4>1, <4>2, <4>3, <4>4, <4>5 DEF ThreadsOK
      <3>5. SeenOK'
        BY <1>3, <2>3 DEF advancePendingStop
      <3>6. AllOut'
        BY <1>3, <2>3 DEF advancePendingStop
      <3> QED
        BY <3>1, <3>2, <3>3, <3>4, <3>5, <3>6 DEF TypeInv, TypeOK
    <2> QED
      BY <2>1, <2>2, <2>3
  <1>4. CASE RunCommand
    <2>1. FlagsOK'
      BY <1>4, ZenonT(120) DEF RunCommand
    <2>2. CountsOK'
      BY <1>4 DEF RunCommand
    <2>3. PlacesOK' /\ WorldOK'
      BY <1>4 DEF RunCommand
    <2>4. ThreadsOK'
      BY <1>4 DEF RunCommand
    <2>5. SeenOK' /\ AllOut'
      BY <1>4 DEF RunCommand
    <2> QED
      BY <2>1, <2>2, <2>3, <2>4, <2>5
  <1>5. CASE ReleaseOpen
    <2>1. FlagsOK'
      BY <1>5 DEF ReleaseOpen
    <2>2. CountsOK'
      BY <1>5 DEF ReleaseOpen
    <2>3. PlacesOK' /\ WorldOK'
      BY <1>5 DEF ReleaseOpen
    <2>4. ThreadsOK'
      BY <1>5 DEF ReleaseOpen
    <2>5. SeenOK' /\ AllOut'
      BY <1>5 DEF ReleaseOpen
    <2> QED
      BY <2>1, <2>2, <2>3, <2>4, <2>5
  <1>6. CASE ReleaseBump
    <2>1. FlagsOK'
      BY <1>6 DEF ReleaseBump
    <2>2. CountsOK'
      BY <1>6 DEF ReleaseBump
    <2>3. PlacesOK' /\ WorldOK'
      BY <1>6 DEF ReleaseBump
    <2>4. ThreadsOK'
      BY <1>6 DEF ReleaseBump
    <2>5. SeenOK' /\ AllOut'
      BY <1>6 DEF ReleaseBump
    <2> QED
      BY <2>1, <2>2, <2>3, <2>4, <2>5
  <1> QED
    BY <1>1, <1>2, <1>3, <1>4, <1>5, <1>6 DEF WorkerStep

(* So do the steps of the debugger, the host and the driver. *)
LEMMA ControlType ==
  ASSUME TypeInv, Debugger \/ Host \/ Driver
  PROVE  TypeInv'
  <1> USE DEF TypeInv, TypeOK, FlagsOK, CountsOK, ThreadsOK, PlacesOK, WorldOK, SeenOK, AllOut, PC,
      coordVars, domainVars, threadVars, workerVars, ctlVars, driverVars, vars, Goto, At,
      ControlFree, HasOwner, Local, tryCommitPass, cancelPending, resumeNow, ReleaseAll,
      ReleasedOwn, Rollback, Publish, BeginPending, RequestRefused
  <1>1. CASE requestDebuggerPause
    <2>1. FlagsOK'
      BY <1>1 DEF requestDebuggerPause
    <2>2. CountsOK'
      BY <1>1 DEF requestDebuggerPause
    <2>3. PlacesOK' /\ WorldOK'
      BY <1>1 DEF requestDebuggerPause
    <2>4. ThreadsOK'
      BY <1>1 DEF requestDebuggerPause
    <2>5. SeenOK' /\ AllOut'
      BY <1>1 DEF requestDebuggerPause
    <2> QED
      BY <2>1, <2>2, <2>3, <2>4, <2>5
  <1>2. CASE joinStop
    BY <1>2 DEF joinStop
  <1>3. CASE \E releaseHold \in BOOLEAN : resume(releaseHold)
    <2>1. FlagsOK'
      BY <1>3, ZenonT(120) DEF resume
    <2>2. CountsOK'
      BY <1>3 DEF resume
    <2>3. PlacesOK' /\ WorldOK'
      BY <1>3 DEF resume
    <2>4. ThreadsOK'
      BY <1>3 DEF resume
    <2>5. SeenOK' /\ AllOut'
      BY <1>3 DEF resume
    <2> QED
      BY <2>1, <2>2, <2>3, <2>4, <2>5
  <1>4. CASE RequestAccepting
    <2>1. FlagsOK'
      BY <1>4 DEF RequestAccepting
    <2>2. CountsOK'
      BY <1>4 DEF RequestAccepting
    <2>3. PlacesOK' /\ WorldOK'
      BY <1>4, ZenonT(120) DEF RequestAccepting
    <2>4. ThreadsOK'
      BY <1>4 DEF RequestAccepting
    <2>5. SeenOK' /\ AllOut'
      BY <1>4 DEF RequestAccepting
    <2> QED
      BY <2>1, <2>2, <2>3, <2>4, <2>5
  <1>5. CASE RequestStopped
    <2>1. FlagsOK'
      BY <1>5 DEF RequestStopped
    <2>2. CountsOK'
      BY <1>5 DEF RequestStopped
    <2>3. PlacesOK' /\ WorldOK'
      BY <1>5, ZenonT(120) DEF RequestStopped
    <2>4. ThreadsOK'
      BY <1>5 DEF RequestStopped
    <2>5. SeenOK' /\ AllOut'
      BY <1>5 DEF RequestStopped
    <2> QED
      BY <2>1, <2>2, <2>3, <2>4, <2>5
  <1>6. CASE RequestForming
    <2>1. FlagsOK'
      BY <1>6, ZenonT(120) DEF RequestForming
    <2>2. CountsOK'
      BY <1>6 DEF RequestForming
    <2>3. PlacesOK' /\ WorldOK'
      BY <1>6, ZenonT(120) DEF RequestForming
    <2>4. ThreadsOK'
      BY <1>6 DEF RequestForming
    <2>5. SeenOK' /\ AllOut'
      BY <1>6 DEF RequestForming
    <2> QED
      BY <2>1, <2>2, <2>3, <2>4, <2>5
  <1>7. CASE RequestOwner
    BY <1>7 DEF RequestOwner
  <1>8. CASE RequestHold
    BY <1>8 DEF RequestHold
  <1>9. CASE awaitQuiescence
    <2>1. FlagsOK'
      BY <1>9 DEF awaitQuiescence
    <2>2. CountsOK'
      BY <1>9 DEF awaitQuiescence
    <2>3. PlacesOK' /\ WorldOK'
      BY <1>9 DEF awaitQuiescence
    <2>4. ThreadsOK'
      BY <1>9 DEF awaitQuiescence
    <2>5. SeenOK' /\ AllOut'
      BY <1>9 DEF awaitQuiescence
    <2> QED
      BY <2>1, <2>2, <2>3, <2>4, <2>5
  <1>10. CASE giveUp
    <2>1. FlagsOK'
      BY <1>10, ZenonT(120) DEF giveUp
    <2>2. CountsOK'
      BY <1>10 DEF giveUp
    <2>3. PlacesOK' /\ WorldOK'
      BY <1>10 DEF giveUp
    <2>4. ThreadsOK'
      BY <1>10 DEF giveUp
    <2>5. SeenOK' /\ AllOut'
      BY <1>10 DEF giveUp
    <2> QED
      BY <2>1, <2>2, <2>3, <2>4, <2>5
  <1>11. CASE RequestJoined
    BY <1>11 DEF RequestJoined
  <1>12. CASE requestHostPause
    <2>1. FlagsOK'
      BY <1>12 DEF requestHostPause
    <2>2. CountsOK'
      BY <1>12 DEF requestHostPause
    <2>3. PlacesOK' /\ WorldOK'
      BY <1>12 DEF requestHostPause
    <2>4. ThreadsOK'
      BY <1>12 DEF requestHostPause
    <2>5. SeenOK' /\ AllOut'
      BY <1>12 DEF requestHostPause
    <2> QED
      BY <2>1, <2>2, <2>3, <2>4, <2>5
  <1>13. CASE releaseHostPause
    BY <1>13 DEF releaseHostPause
  <1>14. CASE holdDropped
    <2>1. FlagsOK'
      BY <1>14 DEF holdDropped
    <2>2. CountsOK'
      BY <1>14 DEF holdDropped
    <2>3. PlacesOK' /\ WorldOK'
      BY <1>14 DEF holdDropped
    <2>4. ThreadsOK'
      BY <1>14 DEF holdDropped
    <2>5. SeenOK' /\ AllOut'
      BY <1>14 DEF holdDropped
    <2> QED
      BY <2>1, <2>2, <2>3, <2>4, <2>5
  <1>15. CASE releaseForExit
    <2>1. FlagsOK'
      BY <1>15 DEF releaseForExit
    <2>2. CountsOK'
      BY <1>15 DEF releaseForExit
    <2>3. PlacesOK' /\ WorldOK'
      BY <1>15 DEF releaseForExit
    <2>4. ThreadsOK'
      BY <1>15 DEF releaseForExit
    <2>5. SeenOK' /\ AllOut'
      BY <1>15 DEF releaseForExit
    <2> QED
      BY <2>1, <2>2, <2>3, <2>4, <2>5
  <1>16. CASE \E new \in BOOLEAN : beginExecution(new)
    <2>1. PICK new \in BOOLEAN : beginExecution(new)
      BY <1>16
    <2>2. CASE new
      <3>1. \A t \in Threads : seenGen[t] = 0
        BY <2>1, <2>2 DEF beginExecution, Rebind
      <3>2. FlagsOK'
        BY <2>1, <2>2, <3>1 DEF beginExecution, Rebind
      <3>3. CountsOK'
        BY <2>1, <2>2, <3>1 DEF beginExecution, Rebind
      <3>4. PlacesOK' /\ WorldOK'
        BY <2>1, <2>2, <3>1 DEF beginExecution, Rebind
      <3>5. ThreadsOK'
        <4>1. own' \in [Threads -> {"Idle", "Executing", "StoppedExternal"}]
          BY <2>1, <2>2, <3>1 DEF beginExecution, Rebind
        <4>2. ackEpoch' \in [Threads -> 0..stopEpoch']
          BY <2>1, <2>2, <3>1 DEF beginExecution, Rebind
        <4>3. seenGen' \in [Threads -> 0..releaseGeneration']
          BY <2>1, <2>2, <3>1 DEF beginExecution, Rebind
        <4>4. pc' \in [Threads -> PC]
          BY <2>1, <2>2, <3>1 DEF beginExecution, Rebind
        <4>5. ret' \in [Threads -> {"own", "top", "run", "accepting"}]
          BY <2>1, <2>2, <3>1 DEF beginExecution, Rebind
        <4> QED
          BY <4>1, <4>2, <4>3, <4>4, <4>5 DEF ThreadsOK
      <3>6. SeenOK'
        BY <2>1, <2>2, <3>1 DEF beginExecution, Rebind
      <3>7. AllOut'
        BY <2>1, <2>2, <3>1 DEF beginExecution, Rebind
      <3> QED
        BY <3>2, <3>3, <3>4, <3>5, <3>6, <3>7 DEF TypeInv, TypeOK
    <2>3. CASE ~new
      BY <2>1, <2>3 DEF beginExecution, Rebind
    <2> QED
      BY <2>2, <2>3
  <1>17. CASE StartPaused
    BY <1>17 DEF StartPaused
  <1>18. CASE StartForming
    <2>1. FlagsOK'
      BY <1>18 DEF StartForming
    <2>2. CountsOK'
      BY <1>18 DEF StartForming
    <2>3. PlacesOK' /\ WorldOK'
      BY <1>18 DEF StartForming
    <2>4. ThreadsOK'
      BY <1>18 DEF StartForming
    <2>5. SeenOK' /\ AllOut'
      BY <1>18 DEF StartForming
    <2> QED
      BY <2>1, <2>2, <2>3, <2>4, <2>5
  <1>19. CASE StartPending
    BY <1>19 DEF StartPending
  <1>20. CASE endExecution
    <2>1. FlagsOK'
      BY <1>20 DEF endExecution
    <2>2. CountsOK'
      BY <1>20 DEF endExecution
    <2>3. PlacesOK' /\ WorldOK'
      BY <1>20 DEF endExecution
    <2>4. ThreadsOK'
      BY <1>20 DEF endExecution
    <2>5. SeenOK' /\ AllOut'
      BY <1>20 DEF endExecution
    <2> QED
      BY <2>1, <2>2, <2>3, <2>4, <2>5
  <1>21. CASE Join
    BY <1>21 DEF Join
  <1> QED
    BY <1>1, <1>2, <1>3, <1>4, <1>5, <1>6, <1>7, <1>8, <1>9, <1>10, <1>11, <1>12, <1>13, <1>14,
        <1>15, <1>16, <1>17, <1>18, <1>19, <1>20, <1>21 DEF Debugger, Host, Driver

(* Init establishes the types. *)
LEMMA InitType ==
  ASSUME Init PROVE TypeInv
<1>1. FlagsOK /\ CountsOK
  BY DEF Init, FlagsOK, CountsOK
<1>2. ThreadsOK
  BY DEF Init, ThreadsOK, PC
<1>3. PlacesOK
  BY DEF Init, PlacesOK
<1>4. WorldOK /\ SeenOK /\ AllOut
  BY DEF Init, WorldOK, SeenOK, AllOut, At
<1> QED
  BY <1>1, <1>2, <1>3, <1>4 DEF TypeInv, TypeOK

(* Every step keeps the types. *)
LEMMA TypeStep ==
  ASSUME TypeInv, [Next]_vars PROVE TypeInv'
<1>1. CASE Next
  BY <1>1, ThreadType, WorkerType, ControlType DEF Next
<1>2. CASE UNCHANGED vars
  BY <1>2 DEF TypeInv, TypeOK, FlagsOK, CountsOK, ThreadsOK, PlacesOK, WorldOK, SeenOK, AllOut, At,
              vars, coordVars, domainVars, threadVars, workerVars, ctlVars, driverVars
<1> QED
  BY <1>1, <1>2

(* Every variable keeps its type, and no thread acknowledges an epoch or waits
   on a generation its domain has not reached: rebind clears both, and every
   other step lets them only grow. *)
THEOREM TypeCorrect == Spec => []TypeOK
<1>1. Init => TypeInv
  BY InitType
<1>2. TypeInv /\ [Next]_vars => TypeInv'
  BY TypeStep
<1>3. TypeInv => TypeOK
  BY DEF TypeInv
<1> QED
  BY <1>1, <1>2, <1>3, PTL DEF Spec

(* The bit is cleared with the stop it publishes. *)
LEMMA PublicationStep ==
  ASSUME TypeInv, PublicationInv, [Next]_vars
  PROVE  PublicationInv'
  <1> USE DEF TypeInv, TypeOK, FlagsOK, PublicationInv, coordVars, domainVars, threadVars,
      workerVars, ctlVars, driverVars, vars, Goto, At, ControlFree, HasOwner, Local, StopPoint,
      Unpark, Publish, tryCommitPass, cancelPending, resumeNow, ReleaseAll, ReleasedOwn, Rollback,
      BeginPending, RequestRefused, Rebind
  <1>1. CASE \E t \in Threads : ThreadStep(t)
    <2>1. PICK t \in Threads : ThreadStep(t)
      BY <1>1
    <2>2. CASE Enter(t)
      BY <2>2 DEF Enter
    <2>3. CASE Claim(t)
      BY <2>3 DEF Claim
    <2>4. CASE AdmitOwn(t)
      BY <2>4 DEF AdmitOwn
    <2>5. CASE AdmitGate(t)
      BY <2>5 DEF AdmitGate
    <2>6. CASE Top(t)
      BY <2>6 DEF Top
    <2>7. CASE Instruction(t)
      BY <2>7 DEF Instruction
    <2>8. CASE Evaluate(t)
      BY <2>8 DEF Evaluate
    <2>9. CASE Finish(t)
      BY <2>9 DEF Finish
    <2>10. CASE AckReturn(t)
      BY <2>10 DEF AckReturn
    <2>11. CASE ParkGen(t)
      BY <2>11 DEF ParkGen
    <2>12. CASE ParkBit(t)
      BY <2>12 DEF ParkBit
    <2>13. CASE ParkAck(t)
      BY <2>13 DEF ParkAck
    <2>14. CASE Wake(t)
      BY <2>14 DEF Wake
    <2>15. CASE Trap(t)
      BY <2>15 DEF Trap
    <2>16. CASE Fatal(t)
      BY <2>16 DEF Fatal
    <2>17. CASE TryAccepting(t)
      BY <2>17 DEF TryAccepting
    <2>18. CASE TryStopped(t)
      BY <2>18 DEF TryStopped
    <2>19. CASE TryForming(t)
      BY <2>19 DEF TryForming
    <2>20. CASE TryOwner(t)
      BY <2>20 DEF TryOwner
    <2>21. CASE TryAsync(t)
      BY <2>21 DEF TryAsync
    <2>22. CASE TryRefused(t)
      BY <2>22 DEF TryRefused
    <2> QED
      BY <2>1, <2>2, <2>3, <2>4, <2>5, <2>6, <2>7, <2>8, <2>9, <2>10, <2>11, <2>12, <2>13, <2>14,
          <2>15, <2>16, <2>17, <2>18, <2>19, <2>20, <2>21, <2>22 DEF ThreadStep
  <1>2. CASE TakeAsync
    BY <1>2 DEF TakeAsync
  <1>3. CASE completeAsyncStop
    BY <1>3 DEF completeAsyncStop
  <1>4. CASE advancePendingStop
    <2>1. CASE ~forming
      <3>1. StopKept
        BY <1>4, <2>1 DEF advancePendingStop, StopKept
      <3> QED
        BY <3>1 DEF StopKept
    <2>2. CASE forming /\ owners = {}
      BY <1>4, <2>2 DEF advancePendingStop
    <2>3. CASE forming /\ owners # {}
      BY <1>4, <2>3 DEF advancePendingStop
    <2> QED
      BY <2>1, <2>2, <2>3
  <1>5. CASE RunCommand
    <2>1. CASE StopKept
      BY <2>1 DEF StopKept
    <2>2. CASE releasing' = "open" \/ intrDebugStop' = FALSE
      BY <2>2
    <2> QED
      BY <1>5, <2>1, <2>2 DEF RunCommand, StopKept
  <1>6. CASE ReleaseOpen
    BY <1>6 DEF ReleaseOpen
  <1>7. CASE ReleaseBump
    BY <1>7 DEF ReleaseBump
  <1>8. CASE requestDebuggerPause
    <2>1. CASE StopKept
      BY <2>1 DEF StopKept
    <2>2. CASE forming' = TRUE
      BY <2>2
    <2> QED
      BY <1>8, <2>1, <2>2 DEF requestDebuggerPause, StopKept
  <1>9. CASE joinStop
    BY <1>9 DEF joinStop
  <1>10. CASE \E releaseHold \in BOOLEAN : resume(releaseHold)
    <2>1. PICK releaseHold \in BOOLEAN : resume(releaseHold)
      BY <1>10
    <2>2. CASE StopKept
      BY <2>2 DEF StopKept
    <2>3. CASE releasing' = "open" \/ intrDebugStop' = FALSE
      BY <2>3
    <2> QED
      BY <2>1, <2>2, <2>3 DEF resume, StopKept
  <1>11. CASE RequestAccepting
    BY <1>11 DEF RequestAccepting
  <1>12. CASE RequestStopped
    BY <1>12 DEF RequestStopped
  <1>13. CASE RequestForming
    BY <1>13 DEF RequestForming
  <1>14. CASE RequestOwner
    BY <1>14 DEF RequestOwner
  <1>15. CASE RequestHold
    BY <1>15 DEF RequestHold
  <1>16. CASE awaitQuiescence
    BY <1>16 DEF awaitQuiescence
  <1>17. CASE giveUp
    BY <1>17 DEF giveUp
  <1>18. CASE RequestJoined
    BY <1>18 DEF RequestJoined
  <1>19. CASE requestHostPause
    <2>1. CASE StopKept
      BY <2>1 DEF StopKept
    <2>2. CASE forming' = TRUE
      BY <2>2
    <2> QED
      BY <1>19, <2>1, <2>2 DEF requestHostPause, StopKept
  <1>20. CASE releaseHostPause
    BY <1>20 DEF releaseHostPause
  <1>21. CASE holdDropped
    BY <1>21 DEF holdDropped
  <1>22. CASE releaseForExit
    BY <1>22 DEF releaseForExit
  <1>23. CASE \E new \in BOOLEAN : beginExecution(new)
    <2>1. PICK new \in BOOLEAN : beginExecution(new)
      BY <1>23
    <2>2. CASE StopKept
      BY <2>2 DEF StopKept
    <2>3. CASE intrDebugStop' = FALSE
      BY <2>3
    <2> QED
      BY <2>1, <2>2, <2>3 DEF beginExecution, StopKept
  <1>24. CASE StartPaused
    BY <1>24 DEF StartPaused
  <1>25. CASE StartForming
    BY <1>25 DEF StartForming
  <1>26. CASE StartPending
    BY <1>26 DEF StartPending
  <1>27. CASE endExecution
    BY <1>27 DEF endExecution
  <1>28. CASE Join
    BY <1>28 DEF Join
  <1>29. CASE UNCHANGED vars
    BY <1>29
  <1> QED
    BY <1>1, <1>2, <1>3, <1>4, <1>5, <1>6, <1>7, <1>8, <1>9, <1>10, <1>11, <1>12, <1>13, <1>14,
        <1>15, <1>16, <1>17, <1>18, <1>19, <1>20, <1>21, <1>22, <1>23, <1>24, <1>25, <1>26, <1>27,
        <1>28, <1>29 DEF Next, WorkerStep, Debugger, Host, Driver

(* A release bumps the generation parked threads wait on. *)
LEMMA ParkedStep ==
  ASSUME TypeInv, PublicationInv, ParkedInv, [Next]_vars
  PROVE  ParkedInv'
  <1> USE DEF TypeInv, TypeOK, FlagsOK, CountsOK, ThreadsOK, AllOut, PublicationInv, ParkedInv,
      coordVars, domainVars, threadVars, workerVars, ctlVars, driverVars, vars, Goto, At,
      ControlFree, HasOwner, Local, StopPoint, Unpark, Publish, tryCommitPass, cancelPending,
      resumeNow, ReleaseAll, ReleasedOwn, Rollback, BeginPending, RequestRefused, Rebind
  <1>1. CASE \E t \in Threads : ThreadStep(t)
    <2>1. PICK t \in Threads : ThreadStep(t)
      BY <1>1
    <2>2. CASE Enter(t)
      BY <2>2 DEF Enter
    <2>3. CASE Claim(t)
      BY <2>3 DEF Claim
    <2>4. CASE AdmitOwn(t)
      BY <2>4 DEF AdmitOwn
    <2>5. CASE AdmitGate(t)
      BY <2>5 DEF AdmitGate
    <2>6. CASE Top(t)
      BY <2>6 DEF Top
    <2>7. CASE Instruction(t)
      BY <2>7 DEF Instruction
    <2>8. CASE Evaluate(t)
      BY <2>8 DEF Evaluate
    <2>9. CASE Finish(t)
      BY <2>9 DEF Finish
    <2>10. CASE AckReturn(t)
      BY <2>10 DEF AckReturn
    <2>11. CASE ParkGen(t)
      BY <2>11 DEF ParkGen
    <2>12. CASE ParkBit(t)
      BY <2>12 DEF ParkBit
    <2>13. CASE ParkAck(t)
      BY <2>13 DEF ParkAck
    <2>14. CASE Wake(t)
      BY <2>14 DEF Wake
    <2>15. CASE Trap(t)
      BY <2>15 DEF Trap
    <2>16. CASE Fatal(t)
      BY <2>16 DEF Fatal
    <2>17. CASE TryAccepting(t)
      BY <2>17 DEF TryAccepting
    <2>18. CASE TryStopped(t)
      BY <2>18 DEF TryStopped
    <2>19. CASE TryForming(t)
      BY <2>19 DEF TryForming
    <2>20. CASE TryOwner(t)
      BY <2>20 DEF TryOwner
    <2>21. CASE TryAsync(t)
      BY <2>21 DEF TryAsync
    <2>22. CASE TryRefused(t)
      BY <2>22 DEF TryRefused
    <2> QED
      BY <2>1, <2>2, <2>3, <2>4, <2>5, <2>6, <2>7, <2>8, <2>9, <2>10, <2>11, <2>12, <2>13, <2>14,
          <2>15, <2>16, <2>17, <2>18, <2>19, <2>20, <2>21, <2>22 DEF ThreadStep
  <1>2. CASE TakeAsync
    BY <1>2 DEF TakeAsync
  <1>3. CASE completeAsyncStop
    BY <1>3 DEF completeAsyncStop
  <1>4. CASE advancePendingStop
    <2>1. CASE ~forming
      <3>1. StopKept /\ UNCHANGED <<pc, seenGen, releaseGeneration>>
        BY <1>4, <2>1 DEF advancePendingStop, StopKept
      <3> QED
        BY <3>1 DEF StopKept
    <2>2. CASE forming /\ owners = {}
      BY <1>4, <2>2 DEF advancePendingStop
    <2>3. CASE forming /\ owners # {}
      BY <1>4, <2>3 DEF advancePendingStop
    <2> QED
      BY <2>1, <2>2, <2>3
  <1>5. CASE RunCommand
    BY <1>5 DEF RunCommand
  <1>6. CASE ReleaseOpen
    BY <1>6 DEF ReleaseOpen
  <1>7. CASE ReleaseBump
    BY <1>7 DEF ReleaseBump
  <1>8. CASE requestDebuggerPause
    BY <1>8 DEF requestDebuggerPause
  <1>9. CASE joinStop
    BY <1>9 DEF joinStop
  <1>10. CASE \E releaseHold \in BOOLEAN : resume(releaseHold)
    BY <1>10 DEF resume
  <1>11. CASE RequestAccepting
    BY <1>11 DEF RequestAccepting
  <1>12. CASE RequestStopped
    BY <1>12 DEF RequestStopped
  <1>13. CASE RequestForming
    BY <1>13 DEF RequestForming
  <1>14. CASE RequestOwner
    BY <1>14 DEF RequestOwner
  <1>15. CASE RequestHold
    BY <1>15 DEF RequestHold
  <1>16. CASE awaitQuiescence
    BY <1>16 DEF awaitQuiescence
  <1>17. CASE giveUp
    BY <1>17 DEF giveUp
  <1>18. CASE RequestJoined
    BY <1>18 DEF RequestJoined
  <1>19. CASE requestHostPause
    BY <1>19 DEF requestHostPause
  <1>20. CASE releaseHostPause
    BY <1>20 DEF releaseHostPause
  <1>21. CASE holdDropped
    BY <1>21 DEF holdDropped
  <1>22. CASE releaseForExit
    BY <1>22 DEF releaseForExit
  <1>23. CASE \E new \in BOOLEAN : beginExecution(new)
    BY <1>23 DEF beginExecution
  <1>24. CASE StartPaused
    BY <1>24 DEF StartPaused
  <1>25. CASE StartForming
    BY <1>25 DEF StartForming
  <1>26. CASE StartPending
    BY <1>26 DEF StartPending
  <1>27. CASE endExecution
    BY <1>27 DEF endExecution
  <1>28. CASE Join
    BY <1>28 DEF Join
  <1>29. CASE UNCHANGED vars
    BY <1>29
  <1> QED
    BY <1>1, <1>2, <1>3, <1>4, <1>5, <1>6, <1>7, <1>8, <1>9, <1>10, <1>11, <1>12, <1>13, <1>14,
        <1>15, <1>16, <1>17, <1>18, <1>19, <1>20, <1>21, <1>22, <1>23, <1>24, <1>25, <1>26, <1>27,
        <1>28, <1>29 DEF Next, WorkerStep, Debugger, Host, Driver

(* A parked thread has a reason to be parked, in every world: whoever formed
   the stop it acknowledged, each of the five ways a stop ends (resumeNow,
   cancelPending, the controller's rollback, the end of the execution, a
   withdrawn pass) bumps the generation after the bit it read is gone.  The
   inductive step is ParkedInv: the reason is there from the read of the bit. *)
THEOREM NoLostReleaseHolds == Spec => []NoLostRelease
<1>1. Init => TypeInv /\ PublicationInv /\ ParkedInv
  BY InitType DEF Init, PublicationInv, ParkedInv
<1>2. TypeInv /\ PublicationInv /\ ParkedInv /\ [Next]_vars
      => TypeInv' /\ PublicationInv' /\ ParkedInv'
  BY TypeStep, PublicationStep, ParkedStep
<1>3. ParkedInv => NoLostRelease
  BY DEF ParkedInv, NoLostRelease, At
<1> QED
  BY <1>1, <1>2, <1>3, PTL DEF Spec

(* Ownership changes hands only between the idle and their releaser. *)
LEMMA OwnedStep ==
  ASSUME TypeInv, OwnedInv, [Next]_vars
  PROVE  OwnedInv'
  <1> USE DEF TypeInv, TypeOK, ThreadsOK, AllOut, OwnedInv, Inside, Parking, PC, coordVars,
      domainVars, threadVars, workerVars, ctlVars, driverVars, vars, Goto, At, ControlFree,
      HasOwner, Local, StopPoint, Unpark, Publish, tryCommitPass, cancelPending, resumeNow,
      ReleaseAll, ReleasedOwn, Rollback, BeginPending, RequestRefused, Rebind
  <1>1. CASE \E t \in Threads : ThreadStep(t)
    <2>1. PICK t \in Threads : ThreadStep(t)
      BY <1>1
    <2>2. CASE Enter(t)
      BY <2>2 DEF Enter
    <2>3. CASE Claim(t)
      BY <2>3 DEF Claim
    <2>4. CASE AdmitOwn(t)
      BY <2>4 DEF AdmitOwn
    <2>5. CASE AdmitGate(t)
      BY <2>5 DEF AdmitGate
    <2>6. CASE Top(t)
      BY <2>6 DEF Top
    <2>7. CASE Instruction(t)
      BY <2>7 DEF Instruction
    <2>8. CASE Evaluate(t)
      BY <2>8 DEF Evaluate
    <2>9. CASE Finish(t)
      BY <2>9 DEF Finish
    <2>10. CASE AckReturn(t)
      BY <2>10 DEF AckReturn
    <2>11. CASE ParkGen(t)
      BY <2>11 DEF ParkGen
    <2>12. CASE ParkBit(t)
      BY <2>12 DEF ParkBit
    <2>13. CASE ParkAck(t)
      BY <2>13 DEF ParkAck
    <2>14. CASE Wake(t)
      BY <2>14 DEF Wake
    <2>15. CASE Trap(t)
      BY <2>15 DEF Trap
    <2>16. CASE Fatal(t)
      BY <2>16 DEF Fatal
    <2>17. CASE TryAccepting(t)
      BY <2>17 DEF TryAccepting
    <2>18. CASE TryStopped(t)
      BY <2>18 DEF TryStopped
    <2>19. CASE TryForming(t)
      BY <2>19 DEF TryForming
    <2>20. CASE TryOwner(t)
      BY <2>20 DEF TryOwner
    <2>21. CASE TryAsync(t)
      BY <2>21 DEF TryAsync
    <2>22. CASE TryRefused(t)
      BY <2>22 DEF TryRefused
    <2> QED
      BY <2>1, <2>2, <2>3, <2>4, <2>5, <2>6, <2>7, <2>8, <2>9, <2>10, <2>11, <2>12, <2>13, <2>14,
          <2>15, <2>16, <2>17, <2>18, <2>19, <2>20, <2>21, <2>22 DEF ThreadStep
  <1>2. CASE TakeAsync
    BY <1>2 DEF TakeAsync
  <1>3. CASE completeAsyncStop
    BY <1>3 DEF completeAsyncStop
  <1>4. CASE advancePendingStop
    BY <1>4, ZenonT(120) DEF advancePendingStop
  <1>5. CASE RunCommand
    BY <1>5 DEF RunCommand
  <1>6. CASE ReleaseOpen
    BY <1>6 DEF ReleaseOpen
  <1>7. CASE ReleaseBump
    BY <1>7 DEF ReleaseBump
  <1>8. CASE requestDebuggerPause
    BY <1>8 DEF requestDebuggerPause
  <1>9. CASE joinStop
    BY <1>9 DEF joinStop
  <1>10. CASE \E releaseHold \in BOOLEAN : resume(releaseHold)
    BY <1>10 DEF resume
  <1>11. CASE RequestAccepting
    BY <1>11 DEF RequestAccepting
  <1>12. CASE RequestStopped
    BY <1>12 DEF RequestStopped
  <1>13. CASE RequestForming
    BY <1>13 DEF RequestForming
  <1>14. CASE RequestOwner
    BY <1>14 DEF RequestOwner
  <1>15. CASE RequestHold
    BY <1>15 DEF RequestHold
  <1>16. CASE awaitQuiescence
    BY <1>16 DEF awaitQuiescence
  <1>17. CASE giveUp
    BY <1>17 DEF giveUp
  <1>18. CASE RequestJoined
    BY <1>18 DEF RequestJoined
  <1>19. CASE requestHostPause
    BY <1>19 DEF requestHostPause
  <1>20. CASE releaseHostPause
    BY <1>20 DEF releaseHostPause
  <1>21. CASE holdDropped
    BY <1>21 DEF holdDropped
  <1>22. CASE releaseForExit
    BY <1>22 DEF releaseForExit
  <1>23. CASE \E new \in BOOLEAN : beginExecution(new)
    BY <1>23 DEF beginExecution
  <1>24. CASE StartPaused
    BY <1>24 DEF StartPaused
  <1>25. CASE StartForming
    BY <1>25 DEF StartForming
  <1>26. CASE StartPending
    BY <1>26 DEF StartPending
  <1>27. CASE endExecution
    BY <1>27 DEF endExecution
  <1>28. CASE Join
    BY <1>28 DEF Join
  <1>29. CASE UNCHANGED vars
    BY <1>29
  <1> QED
    BY <1>1, <1>2, <1>3, <1>4, <1>5, <1>6, <1>7, <1>8, <1>9, <1>10, <1>11, <1>12, <1>13, <1>14,
        <1>15, <1>16, <1>17, <1>18, <1>19, <1>20, <1>21, <1>22, <1>23, <1>24, <1>25, <1>26, <1>27,
        <1>28, <1>29 DEF Next, WorkerStep, Debugger, Host, Driver

(* No step changes the world. *)
LEMMA WorldStep ==
  ASSUME TypeInv, [Next]_vars
  PROVE  world' = world
  <1> USE DEF coordVars, domainVars, threadVars, workerVars, ctlVars, driverVars, vars, Goto, At,
      ControlFree, HasOwner, Local, StopPoint, Unpark, Publish, tryCommitPass, cancelPending,
      resumeNow, ReleaseAll, ReleasedOwn, Rollback, BeginPending, RequestRefused, Rebind
  <1>1. CASE \E t \in Threads : ThreadStep(t)
    <2>1. PICK t \in Threads : ThreadStep(t)
      BY <1>1
    <2>2. CASE Enter(t)
      BY <2>2 DEF Enter
    <2>3. CASE Claim(t)
      BY <2>3 DEF Claim
    <2>4. CASE AdmitOwn(t)
      BY <2>4 DEF AdmitOwn
    <2>5. CASE AdmitGate(t)
      BY <2>5 DEF AdmitGate
    <2>6. CASE Top(t)
      BY <2>6 DEF Top
    <2>7. CASE Instruction(t)
      BY <2>7 DEF Instruction
    <2>8. CASE Evaluate(t)
      BY <2>8 DEF Evaluate
    <2>9. CASE Finish(t)
      BY <2>9 DEF Finish
    <2>10. CASE AckReturn(t)
      BY <2>10 DEF AckReturn
    <2>11. CASE ParkGen(t)
      BY <2>11 DEF ParkGen
    <2>12. CASE ParkBit(t)
      BY <2>12 DEF ParkBit
    <2>13. CASE ParkAck(t)
      BY <2>13 DEF ParkAck
    <2>14. CASE Wake(t)
      BY <2>14 DEF Wake
    <2>15. CASE Trap(t)
      BY <2>15 DEF Trap
    <2>16. CASE Fatal(t)
      BY <2>16 DEF Fatal
    <2>17. CASE TryAccepting(t)
      BY <2>17 DEF TryAccepting
    <2>18. CASE TryStopped(t)
      BY <2>18 DEF TryStopped
    <2>19. CASE TryForming(t)
      BY <2>19 DEF TryForming
    <2>20. CASE TryOwner(t)
      BY <2>20 DEF TryOwner
    <2>21. CASE TryAsync(t)
      BY <2>21 DEF TryAsync
    <2>22. CASE TryRefused(t)
      BY <2>22 DEF TryRefused
    <2> QED
      BY <2>1, <2>2, <2>3, <2>4, <2>5, <2>6, <2>7, <2>8, <2>9, <2>10, <2>11, <2>12, <2>13, <2>14,
          <2>15, <2>16, <2>17, <2>18, <2>19, <2>20, <2>21, <2>22 DEF ThreadStep
  <1>2. CASE TakeAsync
    BY <1>2 DEF TakeAsync
  <1>3. CASE completeAsyncStop
    BY <1>3 DEF completeAsyncStop
  <1>4. CASE advancePendingStop
    BY <1>4 DEF advancePendingStop
  <1>5. CASE RunCommand
    BY <1>5 DEF RunCommand
  <1>6. CASE ReleaseOpen
    BY <1>6 DEF ReleaseOpen
  <1>7. CASE ReleaseBump
    BY <1>7 DEF ReleaseBump
  <1>8. CASE requestDebuggerPause
    BY <1>8 DEF requestDebuggerPause
  <1>9. CASE joinStop
    BY <1>9 DEF joinStop
  <1>10. CASE \E releaseHold \in BOOLEAN : resume(releaseHold)
    BY <1>10 DEF resume
  <1>11. CASE RequestAccepting
    BY <1>11 DEF RequestAccepting
  <1>12. CASE RequestStopped
    BY <1>12 DEF RequestStopped
  <1>13. CASE RequestForming
    BY <1>13 DEF RequestForming
  <1>14. CASE RequestOwner
    BY <1>14 DEF RequestOwner
  <1>15. CASE RequestHold
    BY <1>15 DEF RequestHold
  <1>16. CASE awaitQuiescence
    BY <1>16 DEF awaitQuiescence
  <1>17. CASE giveUp
    BY <1>17 DEF giveUp
  <1>18. CASE RequestJoined
    BY <1>18 DEF RequestJoined
  <1>19. CASE requestHostPause
    BY <1>19 DEF requestHostPause
  <1>20. CASE releaseHostPause
    BY <1>20 DEF releaseHostPause
  <1>21. CASE holdDropped
    BY <1>21 DEF holdDropped
  <1>22. CASE releaseForExit
    BY <1>22 DEF releaseForExit
  <1>23. CASE \E new \in BOOLEAN : beginExecution(new)
    BY <1>23 DEF beginExecution
  <1>24. CASE StartPaused
    BY <1>24 DEF StartPaused
  <1>25. CASE StartForming
    BY <1>25 DEF StartForming
  <1>26. CASE StartPending
    BY <1>26 DEF StartPending
  <1>27. CASE endExecution
    BY <1>27 DEF endExecution
  <1>28. CASE Join
    BY <1>28 DEF Join
  <1>29. CASE UNCHANGED vars
    BY <1>29
  <1> QED
    BY <1>1, <1>2, <1>3, <1>4, <1>5, <1>6, <1>7, <1>8, <1>9, <1>10, <1>11, <1>12, <1>13, <1>14,
        <1>15, <1>16, <1>17, <1>18, <1>19, <1>20, <1>21, <1>22, <1>23, <1>24, <1>25, <1>26, <1>27,
        <1>28, <1>29 DEF Next, WorkerStep, Debugger, Host, Driver

(* Only a fatal error parks below the stop point. *)
LEMMA ReturnStep ==
  ASSUME TypeInv, FrozenWorld, ReturnInv, [Next]_vars
  PROVE  ReturnInv'
  <1> USE DEF FrozenWorld, Serialised, May, TypeInv, TypeOK, ThreadsOK, ReturnInv, coordVars,
      domainVars, threadVars, workerVars, ctlVars, driverVars, vars, Goto, At, ControlFree,
      HasOwner, Local, StopPoint, Unpark, Publish, tryCommitPass, cancelPending, resumeNow,
      ReleaseAll, ReleasedOwn, Rollback, BeginPending, RequestRefused, Rebind
  <1>1. CASE \E t \in Threads : ThreadStep(t)
    <2>1. PICK t \in Threads : ThreadStep(t)
      BY <1>1
    <2>2. CASE Enter(t)
      BY <2>2 DEF Enter
    <2>3. CASE Claim(t)
      BY <2>3 DEF Claim
    <2>4. CASE AdmitOwn(t)
      BY <2>4 DEF AdmitOwn
    <2>5. CASE AdmitGate(t)
      BY <2>5 DEF AdmitGate
    <2>6. CASE Top(t)
      BY <2>6 DEF Top
    <2>7. CASE Instruction(t)
      BY <2>7 DEF Instruction
    <2>8. CASE Evaluate(t)
      BY <2>8 DEF Evaluate
    <2>9. CASE Finish(t)
      BY <2>9 DEF Finish
    <2>10. CASE AckReturn(t)
      BY <2>10 DEF AckReturn
    <2>11. CASE ParkGen(t)
      BY <2>11 DEF ParkGen
    <2>12. CASE ParkBit(t)
      BY <2>12 DEF ParkBit
    <2>13. CASE ParkAck(t)
      BY <2>13 DEF ParkAck
    <2>14. CASE Wake(t)
      BY <2>14 DEF Wake
    <2>15. CASE Trap(t)
      BY <2>15 DEF Trap
    <2>16. CASE Fatal(t)
      BY <2>16 DEF Fatal
    <2>17. CASE TryAccepting(t)
      BY <2>17 DEF TryAccepting
    <2>18. CASE TryStopped(t)
      BY <2>18 DEF TryStopped
    <2>19. CASE TryForming(t)
      BY <2>19 DEF TryForming
    <2>20. CASE TryOwner(t)
      BY <2>20 DEF TryOwner
    <2>21. CASE TryAsync(t)
      BY <2>21 DEF TryAsync
    <2>22. CASE TryRefused(t)
      BY <2>22 DEF TryRefused
    <2> QED
      BY <2>1, <2>2, <2>3, <2>4, <2>5, <2>6, <2>7, <2>8, <2>9, <2>10, <2>11, <2>12, <2>13, <2>14,
          <2>15, <2>16, <2>17, <2>18, <2>19, <2>20, <2>21, <2>22 DEF ThreadStep
  <1>2. CASE TakeAsync
    BY <1>2 DEF TakeAsync
  <1>3. CASE completeAsyncStop
    BY <1>3 DEF completeAsyncStop
  <1>4. CASE advancePendingStop
    BY <1>4 DEF advancePendingStop
  <1>5. CASE RunCommand
    BY <1>5 DEF RunCommand
  <1>6. CASE ReleaseOpen
    BY <1>6 DEF ReleaseOpen
  <1>7. CASE ReleaseBump
    BY <1>7 DEF ReleaseBump
  <1>8. CASE requestDebuggerPause
    BY <1>8 DEF requestDebuggerPause
  <1>9. CASE joinStop
    BY <1>9 DEF joinStop
  <1>10. CASE \E releaseHold \in BOOLEAN : resume(releaseHold)
    BY <1>10 DEF resume
  <1>11. CASE RequestAccepting
    BY <1>11 DEF RequestAccepting
  <1>12. CASE RequestStopped
    BY <1>12 DEF RequestStopped
  <1>13. CASE RequestForming
    BY <1>13 DEF RequestForming
  <1>14. CASE RequestOwner
    BY <1>14 DEF RequestOwner
  <1>15. CASE RequestHold
    BY <1>15 DEF RequestHold
  <1>16. CASE awaitQuiescence
    BY <1>16 DEF awaitQuiescence
  <1>17. CASE giveUp
    BY <1>17 DEF giveUp
  <1>18. CASE RequestJoined
    BY <1>18 DEF RequestJoined
  <1>19. CASE requestHostPause
    BY <1>19 DEF requestHostPause
  <1>20. CASE releaseHostPause
    BY <1>20 DEF releaseHostPause
  <1>21. CASE holdDropped
    BY <1>21 DEF holdDropped
  <1>22. CASE releaseForExit
    BY <1>22 DEF releaseForExit
  <1>23. CASE \E new \in BOOLEAN : beginExecution(new)
    BY <1>23 DEF beginExecution
  <1>24. CASE StartPaused
    BY <1>24 DEF StartPaused
  <1>25. CASE StartForming
    BY <1>25 DEF StartForming
  <1>26. CASE StartPending
    BY <1>26 DEF StartPending
  <1>27. CASE endExecution
    BY <1>27 DEF endExecution
  <1>28. CASE Join
    BY <1>28 DEF Join
  <1>29. CASE UNCHANGED vars
    BY <1>29
  <1> QED
    BY <1>1, <1>2, <1>3, <1>4, <1>5, <1>6, <1>7, <1>8, <1>9, <1>10, <1>11, <1>12, <1>13, <1>14,
        <1>15, <1>16, <1>17, <1>18, <1>19, <1>20, <1>21, <1>22, <1>23, <1>24, <1>25, <1>26, <1>27,
        <1>28, <1>29 DEF Next, WorkerStep, Debugger, Host, Driver

(* A host's world has one execution, and no hold before it. *)
LEMMA HoldStep ==
  ASSUME TypeInv, FrozenWorld, HoldInv, [Next]_vars
  PROVE  HoldInv'
  <1> USE DEF FrozenWorld, Serialised, May, TypeInv, TypeOK, FlagsOK, CountsOK, PlacesOK, WorldOK,
      HoldInv, coordVars, domainVars, threadVars, workerVars, ctlVars, driverVars, vars, Goto, At,
      ControlFree, HasOwner, Local, StopPoint, Unpark, Publish, tryCommitPass, cancelPending,
      resumeNow, ReleaseAll, ReleasedOwn, Rollback, BeginPending, RequestRefused, Rebind
  <1>1. CASE \E t \in Threads : ThreadStep(t)
    <2>1. PICK t \in Threads : ThreadStep(t)
      BY <1>1
    <2>2. CASE Enter(t)
      BY <2>2 DEF Enter
    <2>3. CASE Claim(t)
      BY <2>3 DEF Claim
    <2>4. CASE AdmitOwn(t)
      BY <2>4 DEF AdmitOwn
    <2>5. CASE AdmitGate(t)
      BY <2>5 DEF AdmitGate
    <2>6. CASE Top(t)
      BY <2>6 DEF Top
    <2>7. CASE Instruction(t)
      BY <2>7 DEF Instruction
    <2>8. CASE Evaluate(t)
      BY <2>8 DEF Evaluate
    <2>9. CASE Finish(t)
      BY <2>9 DEF Finish
    <2>10. CASE AckReturn(t)
      BY <2>10 DEF AckReturn
    <2>11. CASE ParkGen(t)
      BY <2>11 DEF ParkGen
    <2>12. CASE ParkBit(t)
      BY <2>12 DEF ParkBit
    <2>13. CASE ParkAck(t)
      BY <2>13 DEF ParkAck
    <2>14. CASE Wake(t)
      BY <2>14 DEF Wake
    <2>15. CASE Trap(t)
      BY <2>15 DEF Trap
    <2>16. CASE Fatal(t)
      BY <2>16 DEF Fatal
    <2>17. CASE TryAccepting(t)
      BY <2>17 DEF TryAccepting
    <2>18. CASE TryStopped(t)
      BY <2>18 DEF TryStopped
    <2>19. CASE TryForming(t)
      BY <2>19 DEF TryForming
    <2>20. CASE TryOwner(t)
      BY <2>20 DEF TryOwner
    <2>21. CASE TryAsync(t)
      BY <2>21 DEF TryAsync
    <2>22. CASE TryRefused(t)
      BY <2>22 DEF TryRefused
    <2> QED
      BY <2>1, <2>2, <2>3, <2>4, <2>5, <2>6, <2>7, <2>8, <2>9, <2>10, <2>11, <2>12, <2>13, <2>14,
          <2>15, <2>16, <2>17, <2>18, <2>19, <2>20, <2>21, <2>22 DEF ThreadStep
  <1>2. CASE TakeAsync
    BY <1>2 DEF TakeAsync
  <1>3. CASE completeAsyncStop
    BY <1>3 DEF completeAsyncStop
  <1>4. CASE advancePendingStop
    <2>1. UNCHANGED <<ctl, phase, world, owners, runs, acceptingStops>>
      BY <1>4 DEF advancePendingStop
    <2> QED
      BY <2>1
  <1>5. CASE RunCommand
    BY <1>5 DEF RunCommand
  <1>6. CASE ReleaseOpen
    BY <1>6 DEF ReleaseOpen
  <1>7. CASE ReleaseBump
    BY <1>7 DEF ReleaseBump
  <1>8. CASE requestDebuggerPause
    BY <1>8 DEF requestDebuggerPause
  <1>9. CASE joinStop
    BY <1>9 DEF joinStop
  <1>10. CASE \E releaseHold \in BOOLEAN : resume(releaseHold)
    BY <1>10 DEF resume
  <1>11. CASE RequestAccepting
    BY <1>11 DEF RequestAccepting
  <1>12. CASE RequestStopped
    BY <1>12 DEF RequestStopped
  <1>13. CASE RequestForming
    BY <1>13 DEF RequestForming
  <1>14. CASE RequestOwner
    BY <1>14 DEF RequestOwner
  <1>15. CASE RequestHold
    BY <1>15 DEF RequestHold
  <1>16. CASE awaitQuiescence
    BY <1>16 DEF awaitQuiescence
  <1>17. CASE giveUp
    BY <1>17 DEF giveUp
  <1>18. CASE RequestJoined
    BY <1>18 DEF RequestJoined
  <1>19. CASE requestHostPause
    BY <1>19 DEF requestHostPause
  <1>20. CASE releaseHostPause
    BY <1>20 DEF releaseHostPause
  <1>21. CASE holdDropped
    BY <1>21 DEF holdDropped
  <1>22. CASE releaseForExit
    BY <1>22 DEF releaseForExit
  <1>23. CASE \E new \in BOOLEAN : beginExecution(new)
    <2>1. PICK new \in BOOLEAN : beginExecution(new)
      BY <1>23
    <2>2. runs \in Nat /\ world.runs \in Nat /\ runs < world.runs
      BY <2>1, ConstantsOK DEF beginExecution
    <2>3. ~HasOwner("Host")
      BY <2>1, <2>2 DEF beginExecution
    <2> QED
      BY <2>1, <2>2, <2>3 DEF beginExecution
  <1>24. CASE StartPaused
    BY <1>24 DEF StartPaused
  <1>25. CASE StartForming
    BY <1>25 DEF StartForming
  <1>26. CASE StartPending
    BY <1>26 DEF StartPending
  <1>27. CASE endExecution
    BY <1>27 DEF endExecution
  <1>28. CASE Join
    BY <1>28 DEF Join
  <1>29. CASE UNCHANGED vars
    BY <1>29
  <1> QED
    BY <1>1, <1>2, <1>3, <1>4, <1>5, <1>6, <1>7, <1>8, <1>9, <1>10, <1>11, <1>12, <1>13, <1>14,
        <1>15, <1>16, <1>17, <1>18, <1>19, <1>20, <1>21, <1>22, <1>23, <1>24, <1>25, <1>26, <1>27,
        <1>28, <1>29 DEF Next, WorkerStep, Debugger, Host, Driver

(* Stops do not overlap. *)
LEMMA StopStep ==
  ASSUME TypeInv, FrozenWorld, HoldInv, HotInv, StopInv, [Next]_vars
  PROVE  StopInv'
  <1> USE DEF FrozenWorld, Serialised, May, TypeInv, TypeOK, FlagsOK, PlacesOK, HoldInv, HotInv,
      Hot, StopInv, coordVars, domainVars, threadVars, workerVars, ctlVars, driverVars, vars, Goto,
      At, ControlFree, HasOwner, Local, StopPoint, Unpark, Publish, tryCommitPass, cancelPending,
      resumeNow, ReleaseAll, ReleasedOwn, Rollback, BeginPending, RequestRefused, Rebind
  <1>1. CASE \E t \in Threads : ThreadStep(t)
    <2>1. PICK t \in Threads : ThreadStep(t)
      BY <1>1
    <2>2. CASE Enter(t)
      BY <2>2 DEF Enter
    <2>3. CASE Claim(t)
      BY <2>3 DEF Claim
    <2>4. CASE AdmitOwn(t)
      BY <2>4 DEF AdmitOwn
    <2>5. CASE AdmitGate(t)
      BY <2>5 DEF AdmitGate
    <2>6. CASE Top(t)
      BY <2>6 DEF Top
    <2>7. CASE Instruction(t)
      BY <2>7 DEF Instruction
    <2>8. CASE Evaluate(t)
      BY <2>8 DEF Evaluate
    <2>9. CASE Finish(t)
      BY <2>9 DEF Finish
    <2>10. CASE AckReturn(t)
      BY <2>10 DEF AckReturn
    <2>11. CASE ParkGen(t)
      BY <2>11 DEF ParkGen
    <2>12. CASE ParkBit(t)
      BY <2>12 DEF ParkBit
    <2>13. CASE ParkAck(t)
      BY <2>13 DEF ParkAck
    <2>14. CASE Wake(t)
      BY <2>14 DEF Wake
    <2>15. CASE Trap(t)
      BY <2>15 DEF Trap
    <2>16. CASE Fatal(t)
      BY <2>16 DEF Fatal
    <2>17. CASE TryAccepting(t)
      BY <2>17 DEF TryAccepting
    <2>18. CASE TryStopped(t)
      BY <2>18 DEF TryStopped
    <2>19. CASE TryForming(t)
      BY <2>19 DEF TryForming
    <2>20. CASE TryOwner(t)
      BY <2>20 DEF TryOwner
    <2>21. CASE TryAsync(t)
      BY <2>21 DEF TryAsync
    <2>22. CASE TryRefused(t)
      BY <2>22 DEF TryRefused
    <2> QED
      BY <2>1, <2>2, <2>3, <2>4, <2>5, <2>6, <2>7, <2>8, <2>9, <2>10, <2>11, <2>12, <2>13, <2>14,
          <2>15, <2>16, <2>17, <2>18, <2>19, <2>20, <2>21, <2>22 DEF ThreadStep
  <1>2. CASE TakeAsync
    BY <1>2 DEF TakeAsync
  <1>3. CASE completeAsyncStop
    BY <1>3 DEF completeAsyncStop
  <1>4. CASE advancePendingStop
    <2>1. CASE ~forming
      <3>1. StopKept
        BY <1>4, <2>1 DEF advancePendingStop, StopKept
      <3> QED
        BY <3>1 DEF StopKept
    <2>2. CASE forming /\ owners = {}
      BY <1>4, <2>2 DEF advancePendingStop
    <2>3. CASE forming /\ owners # {}
      <3>1. UNCHANGED <<intrDebugStop, releasing>> /\ releasing = "no"
        BY <1>4, <2>3 DEF advancePendingStop
      <3>2. \/ stopped' = TRUE /\ forming' = FALSE
            \/ stopped' = stopped /\ forming' = forming
        BY <1>4, <2>3 DEF advancePendingStop
      <3>3. CASE stopped' = TRUE /\ forming' = FALSE
        BY <2>3, <3>1, <3>3
      <3>4. CASE stopped' = stopped /\ forming' = forming
        BY <2>3, <3>1, <3>4
      <3> QED
        BY <3>2, <3>3, <3>4
    <2> QED
      BY <2>1, <2>2, <2>3
  <1>5. CASE RunCommand
    BY <1>5 DEF RunCommand
  <1>6. CASE ReleaseOpen
    BY <1>6 DEF ReleaseOpen
  <1>7. CASE ReleaseBump
    BY <1>7 DEF ReleaseBump
  <1>8. CASE requestDebuggerPause
    BY <1>8 DEF requestDebuggerPause
  <1>9. CASE joinStop
    BY <1>9 DEF joinStop
  <1>10. CASE \E releaseHold \in BOOLEAN : resume(releaseHold)
    BY <1>10 DEF resume
  <1>11. CASE RequestAccepting
    BY <1>11 DEF RequestAccepting
  <1>12. CASE RequestStopped
    BY <1>12 DEF RequestStopped
  <1>13. CASE RequestForming
    BY <1>13 DEF RequestForming
  <1>14. CASE RequestOwner
    BY <1>14 DEF RequestOwner
  <1>15. CASE RequestHold
    BY <1>15 DEF RequestHold
  <1>16. CASE awaitQuiescence
    BY <1>16 DEF awaitQuiescence
  <1>17. CASE giveUp
    BY <1>17 DEF giveUp
  <1>18. CASE RequestJoined
    BY <1>18 DEF RequestJoined
  <1>19. CASE requestHostPause
    BY <1>19 DEF requestHostPause
  <1>20. CASE releaseHostPause
    BY <1>20 DEF releaseHostPause
  <1>21. CASE holdDropped
    BY <1>21 DEF holdDropped
  <1>22. CASE releaseForExit
    BY <1>22 DEF releaseForExit
  <1>23. CASE \E new \in BOOLEAN : beginExecution(new)
    BY <1>23 DEF beginExecution
  <1>24. CASE StartPaused
    BY <1>24 DEF StartPaused
  <1>25. CASE StartForming
    BY <1>25 DEF StartForming
  <1>26. CASE StartPending
    BY <1>26 DEF StartPending
  <1>27. CASE endExecution
    BY <1>27 DEF endExecution
  <1>28. CASE Join
    BY <1>28 DEF Join
  <1>29. CASE UNCHANGED vars
    BY <1>29
  <1> QED
    BY <1>1, <1>2, <1>3, <1>4, <1>5, <1>6, <1>7, <1>8, <1>9, <1>10, <1>11, <1>12, <1>13, <1>14,
        <1>15, <1>16, <1>17, <1>18, <1>19, <1>20, <1>21, <1>22, <1>23, <1>24, <1>25, <1>26, <1>27,
        <1>28, <1>29 DEF Next, WorkerStep, Debugger, Host, Driver

(* At quiescence no thread may run on: the ones inside are not idle, so they
   have acknowledged, and those that acknowledged are parked. *)
LEMMA QuiescentCold ==
  ASSUME TypeInv, OwnedInv, HotInv, forming, Quiescent(stopEpoch)
  PROVE  \A t \in Threads : pc[t] \notin Hot
<1> SUFFICES ASSUME NEW t \in Threads, pc[t] \in Hot
             PROVE  FALSE
  BY ZenonT(120)
<1>1. t \in world.threads /\ own[t] = "Executing"
  BY DEF OwnedInv, Inside, Hot
<1>2. ackEpoch[t] < stopEpoch /\ ackEpoch[t] \in Int /\ stopEpoch \in Int
  BY DEF HotInv, TypeInv, TypeOK, ThreadsOK, CountsOK
<1> QED
  BY <1>1, <1>2 DEF Quiescent

(* A pass commits only when no thread runs on. *)
LEMMA HotStep ==
  ASSUME TypeInv, FrozenWorld, HoldInv, OwnedInv, ReturnInv, StopInv, HotInv, [Next]_vars
  PROVE  HotInv'
  <1> USE DEF FrozenWorld, Serialised, May, TypeInv, TypeOK, FlagsOK, CountsOK, ThreadsOK,
      PlacesOK, AllOut, HoldInv, OwnedInv, ReturnInv, Inside, Hot, StopInv, HotInv, Quiescent,
      coordVars, domainVars, threadVars, workerVars, ctlVars, driverVars, vars, Goto, At,
      ControlFree, HasOwner, Local, StopPoint, Unpark, Publish, tryCommitPass, cancelPending,
      resumeNow, ReleaseAll, ReleasedOwn, Rollback, BeginPending, RequestRefused, Rebind
  <1>1. CASE \E t \in Threads : ThreadStep(t)
    <2>1. PICK t \in Threads : ThreadStep(t)
      BY <1>1
    <2>2. CASE Enter(t)
      BY <2>2 DEF Enter
    <2>3. CASE Claim(t)
      BY <2>3 DEF Claim
    <2>4. CASE AdmitOwn(t)
      BY <2>4 DEF AdmitOwn
    <2>5. CASE AdmitGate(t)
      BY <2>5 DEF AdmitGate
    <2>6. CASE Top(t)
      BY <2>6 DEF Top
    <2>7. CASE Instruction(t)
      BY <2>7 DEF Instruction
    <2>8. CASE Evaluate(t)
      BY <2>8 DEF Evaluate
    <2>9. CASE Finish(t)
      BY <2>9 DEF Finish
    <2>10. CASE AckReturn(t)
      BY <2>10 DEF AckReturn
    <2>11. CASE ParkGen(t)
      BY <2>11 DEF ParkGen
    <2>12. CASE ParkBit(t)
      BY <2>12 DEF ParkBit
    <2>13. CASE ParkAck(t)
      BY <2>13 DEF ParkAck
    <2>14. CASE Wake(t)
      BY <2>14 DEF Wake
    <2>15. CASE Trap(t)
      BY <2>15 DEF Trap
    <2>16. CASE Fatal(t)
      BY <2>16 DEF Fatal
    <2>17. CASE TryAccepting(t)
      BY <2>17 DEF TryAccepting
    <2>18. CASE TryStopped(t)
      BY <2>18 DEF TryStopped
    <2>19. CASE TryForming(t)
      BY <2>19 DEF TryForming
    <2>20. CASE TryOwner(t)
      BY <2>20 DEF TryOwner
    <2>21. CASE TryAsync(t)
      BY <2>21 DEF TryAsync
    <2>22. CASE TryRefused(t)
      BY <2>22 DEF TryRefused
    <2> QED
      BY <2>1, <2>2, <2>3, <2>4, <2>5, <2>6, <2>7, <2>8, <2>9, <2>10, <2>11, <2>12, <2>13, <2>14,
          <2>15, <2>16, <2>17, <2>18, <2>19, <2>20, <2>21, <2>22 DEF ThreadStep
  <1>2. CASE TakeAsync
    BY <1>2 DEF TakeAsync
  <1>3. CASE completeAsyncStop
    <2>1. CASE forming /\ stopEpoch = taken /\ Quiescent(taken)
      <3>1. \A t \in Threads : pc[t] \notin Hot
        BY <1>3, <2>1, QuiescentCold
      <3>2. stopped' = TRUE /\ forming' = FALSE /\ pc' = pc
        BY <1>3, <2>1 DEF completeAsyncStop
      <3> QED
        BY <3>1, <3>2
    <2>2. CASE ~(forming /\ stopEpoch = taken /\ Quiescent(taken))
      <3>1. stopped' = stopped /\ forming' = forming /\ UNCHANGED <<pc, releasing, stopEpoch>>
        BY <1>3, <2>2 DEF completeAsyncStop
      <3>2. \A t \in Threads : pc[t] \in Hot => ackEpoch'[t] = ackEpoch[t]
        BY <1>3, <2>2 DEF completeAsyncStop
      <3> QED
        BY <3>1, <3>2
    <2> QED
      BY <2>1, <2>2
  <1>4. CASE advancePendingStop
    <2>1. CASE ~forming
      <3>1. StopKept /\ UNCHANGED <<pc, ackEpoch, stopEpoch>>
        BY <1>4, <2>1 DEF advancePendingStop, StopKept
      <3> QED
        BY <3>1 DEF StopKept
    <2>2. CASE forming /\ owners = {}
      BY <1>4, <2>2 DEF advancePendingStop
    <2>3. CASE forming /\ owners # {}
      <3>1. CASE forming /\ stopEpoch = stopEpoch /\ Quiescent(stopEpoch)
        <4>1. \A t \in Threads : pc[t] \notin Hot
          BY <1>4, <2>3, <3>1, QuiescentCold
        <4>2. stopped' = TRUE /\ forming' = FALSE /\ pc' = pc
          BY <1>4, <2>3, <3>1 DEF advancePendingStop
        <4> QED
          BY <4>1, <4>2
      <3>2. CASE ~(forming /\ stopEpoch = stopEpoch /\ Quiescent(stopEpoch))
        <4>1. stopped' = stopped /\ forming' = forming /\ UNCHANGED <<pc, releasing, stopEpoch>>
          BY <1>4, <2>3, <3>2 DEF advancePendingStop
        <4>2. \A t \in Threads : pc[t] \in Hot => ackEpoch'[t] = ackEpoch[t]
          BY <1>4, <2>3, <3>2, ZenonT(120) DEF advancePendingStop
        <4> QED
          BY <4>1, <4>2
      <3> QED
        BY <3>1, <3>2
    <2> QED
      BY <2>1, <2>2, <2>3
  <1>5. CASE RunCommand
    BY <1>5 DEF RunCommand
  <1>6. CASE ReleaseOpen
    BY <1>6 DEF ReleaseOpen
  <1>7. CASE ReleaseBump
    BY <1>7 DEF ReleaseBump
  <1>8. CASE requestDebuggerPause
    BY <1>8 DEF requestDebuggerPause
  <1>9. CASE joinStop
    BY <1>9 DEF joinStop
  <1>10. CASE \E releaseHold \in BOOLEAN : resume(releaseHold)
    BY <1>10 DEF resume
  <1>11. CASE RequestAccepting
    BY <1>11 DEF RequestAccepting
  <1>12. CASE RequestStopped
    BY <1>12 DEF RequestStopped
  <1>13. CASE RequestForming
    BY <1>13 DEF RequestForming
  <1>14. CASE RequestOwner
    BY <1>14 DEF RequestOwner
  <1>15. CASE RequestHold
    BY <1>15 DEF RequestHold
  <1>16. CASE awaitQuiescence
    BY <1>16 DEF awaitQuiescence
  <1>17. CASE giveUp
    BY <1>17 DEF giveUp
  <1>18. CASE RequestJoined
    BY <1>18 DEF RequestJoined
  <1>19. CASE requestHostPause
    BY <1>19 DEF requestHostPause
  <1>20. CASE releaseHostPause
    BY <1>20 DEF releaseHostPause
  <1>21. CASE holdDropped
    BY <1>21 DEF holdDropped
  <1>22. CASE releaseForExit
    BY <1>22 DEF releaseForExit
  <1>23. CASE \E new \in BOOLEAN : beginExecution(new)
    BY <1>23 DEF beginExecution
  <1>24. CASE StartPaused
    BY <1>24 DEF StartPaused
  <1>25. CASE StartForming
    BY <1>25 DEF StartForming
  <1>26. CASE StartPending
    BY <1>26 DEF StartPending
  <1>27. CASE endExecution
    BY <1>27 DEF endExecution
  <1>28. CASE Join
    BY <1>28 DEF Join
  <1>29. CASE UNCHANGED vars
    BY <1>29
  <1> QED
    BY <1>1, <1>2, <1>3, <1>4, <1>5, <1>6, <1>7, <1>8, <1>9, <1>10, <1>11, <1>12, <1>13, <1>14,
        <1>15, <1>16, <1>17, <1>18, <1>19, <1>20, <1>21, <1>22, <1>23, <1>24, <1>25, <1>26, <1>27,
        <1>28, <1>29 DEF Next, WorkerStep, Debugger, Host, Driver

(* The invariants every world has. *)
BaseInv == TypeInv /\ PublicationInv /\ ParkedInv /\ OwnedInv

(* Init establishes them, and what Frozen needs. *)
LEMMA InitInv ==
  ASSUME Init PROVE BaseInv /\ FrozenInv
<1>1. TypeInv /\ PublicationInv /\ ParkedInv
  BY InitType DEF Init, PublicationInv, ParkedInv
<1>2. OwnedInv
  BY ZenonT(120) DEF Init, OwnedInv, Inside, Parking
<1>3. ReturnInv /\ StopInv /\ HotInv /\ HoldInv
  BY DEF Init, ReturnInv, StopInv, HotInv, Hot, HoldInv, ControlFree, HasOwner
<1> QED
  BY <1>1, <1>2, <1>3 DEF BaseInv, FrozenInv

(* Every step keeps the invariants every world has. *)
LEMMA BaseStep ==
  ASSUME BaseInv, [Next]_vars PROVE BaseInv'
BY TypeStep, PublicationStep, ParkedStep, OwnedStep DEF BaseInv

(* Every step keeps what Frozen needs, in the worlds it is about. *)
LEMMA FrozenStep ==
  ASSUME BaseInv, FrozenInv, [Next]_vars PROVE FrozenInv'
<1> SUFFICES ASSUME FrozenWorld'
             PROVE  (ReturnInv /\ StopInv /\ HotInv /\ HoldInv)'
  BY DEF FrozenInv
<1>1. FrozenWorld
  BY WorldStep DEF BaseInv, FrozenWorld, Serialised
<1> QED
  BY <1>1, ReturnStep, HoldStep, StopStep, HotStep DEF BaseInv, FrozenInv

(* While a stop is committed no thread executes user code or evaluates the
   dataflow network, for any number of threads, stops and executions, however
   traps, pauses, holds, releases, passes and stop points interleave.  Besides
   the types the invariant has four parts: no thread on its way to user code
   has acknowledged the stop that is forming (HotInv), stops do not overlap
   (StopInv), threads inside own their execution (OwnedInv) and park nowhere
   but at a stop point they test again (ReturnInv). *)
THEOREM FrozenHolds == Spec => []Frozen
<1>1. Init => BaseInv /\ FrozenInv
  BY InitInv
<1>2. BaseInv /\ FrozenInv /\ [Next]_vars => BaseInv' /\ FrozenInv'
  BY BaseStep, FrozenStep
<1>3. FrozenInv => Frozen
  BY ZenonT(120) DEF FrozenInv, FrozenWorld, HotInv, Hot, Frozen
<1> QED
  BY <1>1, <1>2, <1>3, PTL DEF Spec

(* Only the host's own release, or an exit's, withdraws a stop it holds. *)
LEMMA HeldStep ==
  ASSUME TypeInv, HeldWorld, HeldInv, [Next]_vars
  PROVE  HeldInv'
  <1> USE DEF HeldWorld, Serialised, May, TypeInv, TypeOK, FlagsOK, CountsOK, PlacesOK, WorldOK,
      HeldInv, Wanted, coordVars, domainVars, threadVars, workerVars, ctlVars, driverVars, vars,
      Goto, At, ControlFree, HasOwner, Local, StopPoint, Unpark, Publish, tryCommitPass,
      cancelPending, resumeNow, ReleaseAll, ReleasedOwn, Rollback, BeginPending, RequestRefused,
      Rebind
  <1>1. CASE \E t \in Threads : ThreadStep(t)
    <2>1. PICK t \in Threads : ThreadStep(t)
      BY <1>1
    <2>2. CASE Enter(t)
      BY <2>2 DEF Enter
    <2>3. CASE Claim(t)
      BY <2>3 DEF Claim
    <2>4. CASE AdmitOwn(t)
      BY <2>4 DEF AdmitOwn
    <2>5. CASE AdmitGate(t)
      BY <2>5 DEF AdmitGate
    <2>6. CASE Top(t)
      BY <2>6 DEF Top
    <2>7. CASE Instruction(t)
      BY <2>7 DEF Instruction
    <2>8. CASE Evaluate(t)
      BY <2>8 DEF Evaluate
    <2>9. CASE Finish(t)
      BY <2>9 DEF Finish
    <2>10. CASE AckReturn(t)
      BY <2>10 DEF AckReturn
    <2>11. CASE ParkGen(t)
      BY <2>11 DEF ParkGen
    <2>12. CASE ParkBit(t)
      BY <2>12 DEF ParkBit
    <2>13. CASE ParkAck(t)
      BY <2>13 DEF ParkAck
    <2>14. CASE Wake(t)
      BY <2>14 DEF Wake
    <2>15. CASE Trap(t)
      BY <2>15 DEF Trap
    <2>16. CASE Fatal(t)
      BY <2>16 DEF Fatal
    <2>17. CASE TryAccepting(t)
      BY <2>17 DEF TryAccepting
    <2>18. CASE TryStopped(t)
      BY <2>18 DEF TryStopped
    <2>19. CASE TryForming(t)
      BY <2>19 DEF TryForming
    <2>20. CASE TryOwner(t)
      BY <2>20 DEF TryOwner
    <2>21. CASE TryAsync(t)
      BY <2>21 DEF TryAsync
    <2>22. CASE TryRefused(t)
      BY <2>22 DEF TryRefused
    <2> QED
      BY <2>1, <2>2, <2>3, <2>4, <2>5, <2>6, <2>7, <2>8, <2>9, <2>10, <2>11, <2>12, <2>13, <2>14,
          <2>15, <2>16, <2>17, <2>18, <2>19, <2>20, <2>21, <2>22 DEF ThreadStep
  <1>2. CASE TakeAsync
    BY <1>2 DEF TakeAsync
  <1>3. CASE completeAsyncStop
    BY <1>3 DEF completeAsyncStop
  <1>4. CASE advancePendingStop
    <2>1. UNCHANGED <<ctl, phase, world, owners, runs, acceptingStops, commands>>
      BY <1>4 DEF advancePendingStop
    <2>2. HasOwner("Host") /\ (forming \/ stopped) => forming' \/ stopped'
      <3>1. CASE ~forming
        <4>1. StopKept
          BY <1>4, <3>1 DEF advancePendingStop, StopKept
        <4> QED
          BY <4>1 DEF StopKept
      <3>2. CASE forming /\ owners = {}
        BY <3>2
      <3>3. CASE forming /\ owners # {}
        <4>1. stopped' = TRUE \/ forming' = forming
          BY <1>4, <3>3 DEF advancePendingStop
        <4> QED
          BY <3>3, <4>1
      <3> QED
        BY <3>1, <3>2, <3>3
    <2> QED
      BY <2>1, <2>2
  <1>5. CASE RunCommand
    <2>1. UNCHANGED <<ctl, phase, world, owners, runs,
        acceptingStops>> /\ commands' = Tail(commands)
      BY <1>5 DEF RunCommand
    <2>2. commands # <<>> /\ commands \in Seq({"host", "exit"})
      BY <1>5 DEF RunCommand
    <2>3. \A i \in 1..Len(commands') : i + 1 \in 1..Len(commands) /\ commands'[i] = commands[i + 1]
      BY <2>1, <2>2
    <2>4. 1 \in 1..Len(commands) /\ Head(commands) = commands[1]
      BY <2>2
    <2>5. Head(commands) = "exit" => ~acceptingStops
      BY <2>4
    <2>6. acceptingStops /\ HasOwner("Host") /\ (forming \/ stopped) => forming' \/ stopped'
      <3> SUFFICES ASSUME acceptingStops, HasOwner("Host"), forming \/ stopped
                   PROVE  forming' \/ stopped'
        OBVIOUS
      <3>1. ~Wanted(Head(commands))
        BY <2>5
      <3>2. forming' = forming /\ stopped' = stopped
        BY <1>5, <3>1 DEF RunCommand
      <3> QED
        BY <3>2
    <2>7. \A i \in 1..Len(commands') :
            commands'[i] = "exit" => "exit" \in world'.may /\ ~acceptingStops' /\ runs' >= 1
      BY <2>1, <2>3
    <2> QED
      BY <2>1, <2>6, <2>7
  <1>6. CASE ReleaseOpen
    BY <1>6 DEF ReleaseOpen
  <1>7. CASE ReleaseBump
    BY <1>7 DEF ReleaseBump
  <1>8. CASE requestDebuggerPause
    BY <1>8 DEF requestDebuggerPause
  <1>9. CASE joinStop
    BY <1>9 DEF joinStop
  <1>10. CASE \E releaseHold \in BOOLEAN : resume(releaseHold)
    BY <1>10 DEF resume
  <1>11. CASE RequestAccepting
    BY <1>11 DEF RequestAccepting
  <1>12. CASE RequestStopped
    BY <1>12 DEF RequestStopped
  <1>13. CASE RequestForming
    BY <1>13 DEF RequestForming
  <1>14. CASE RequestOwner
    BY <1>14 DEF RequestOwner
  <1>15. CASE RequestHold
    BY <1>15 DEF RequestHold
  <1>16. CASE awaitQuiescence
    BY <1>16 DEF awaitQuiescence
  <1>17. CASE giveUp
    BY <1>17 DEF giveUp
  <1>18. CASE RequestJoined
    BY <1>18 DEF RequestJoined
  <1>19. CASE requestHostPause
    BY <1>19 DEF requestHostPause
  <1>20. CASE releaseHostPause
    BY <1>20 DEF releaseHostPause
  <1>21. CASE holdDropped
    BY <1>21 DEF holdDropped
  <1>22. CASE releaseForExit
    BY <1>22 DEF releaseForExit
  <1>23. CASE \E new \in BOOLEAN : beginExecution(new)
    <2>1. PICK new \in BOOLEAN : beginExecution(new)
      BY <1>23
    <2>2. runs \in Nat /\ world.runs \in Nat /\ runs < world.runs
      BY <2>1, ConstantsOK DEF beginExecution
    <2>3. \A i \in 1..Len(commands) : commands[i] # "exit"
      BY <2>2
    <2>4. UNCHANGED <<ctl, commands, world>> /\ phase' = "starting" /\ runs' = runs + 1
      BY <2>1 DEF beginExecution
    <2> QED
      BY <2>2, <2>3, <2>4
  <1>24. CASE StartPaused
    BY <1>24 DEF StartPaused
  <1>25. CASE StartForming
    BY <1>25 DEF StartForming
  <1>26. CASE StartPending
    BY <1>26 DEF StartPending
  <1>27. CASE endExecution
    BY <1>27 DEF endExecution
  <1>28. CASE Join
    BY <1>28 DEF Join
  <1>29. CASE UNCHANGED vars
    BY <1>29
  <1> QED
    BY <1>1, <1>2, <1>3, <1>4, <1>5, <1>6, <1>7, <1>8, <1>9, <1>10, <1>11, <1>12, <1>13, <1>14,
        <1>15, <1>16, <1>17, <1>18, <1>19, <1>20, <1>21, <1>22, <1>23, <1>24, <1>25, <1>26, <1>27,
        <1>28, <1>29 DEF Next, WorkerStep, Debugger, Host, Driver

(* While the host holds and an execution that accepts stops is under way, a
   stop is forming or in force: for any threads, executions and queue length.
   The invariant adds the publication before the execution is active, and that
   a queued exit finds an execution that accepts no stop. *)
THEOREM HostHeldHolds == Spec => []HostHeld
<1>1. Init => TypeInv /\ HeldInv
  <2> SUFFICES ASSUME Init
               PROVE  HeldInv
    BY InitType
  <2>1. \A i \in 1..Len(commands) : FALSE
    BY DEF Init
  <2> QED
    BY <2>1 DEF Init, HeldInv, HasOwner
<1>2. TypeInv /\ HeldInv /\ [Next]_vars => TypeInv' /\ HeldInv'
  <2> SUFFICES ASSUME TypeInv, HeldInv, [Next]_vars
               PROVE  HeldInv'
    BY TypeStep
  <2>1. CASE HeldWorld
    BY <2>1, HeldStep
  <2>2. CASE ~HeldWorld
    BY <2>2, WorldStep DEF HeldInv, HeldWorld, Serialised
  <2> QED
    BY <2>1, <2>2
<1>3. HeldInv => HostHeld
  BY DEF HeldInv, HeldWorld, HostHeld
<1> QED
  BY <1>1, <1>2, <1>3, PTL DEF Spec

=============================================================================
