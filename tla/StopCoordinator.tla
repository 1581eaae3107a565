--------------------------- MODULE StopCoordinator ---------------------------
(***************************************************************************)
(* Debugger and host stops of one execution domain: a stop is published    *)
(* lock-free (beginStop), threads acknowledge it at their stop points or   *)
(* are acknowledged while idle, and the worker or the controller commits   *)
(* it when every thread has.  Release clears the publication and bumps     *)
(* releaseGeneration, which parked threads wait on.                        *)
(*                                                                         *)
(* Actors: the debuggee's threads, the debug worker, the debugger's        *)
(* controlling thread, the embedding host, and the driver that begins and  *)
(* ends executions.  A section under controlMutex_ is one action, except   *)
(* resumeNow, whose steps the lock-free beginStop can fall between: while  *)
(* releasing # "no" the mutex is held.                                     *)
(***************************************************************************)
EXTENDS Integers, Sequences

CONSTANTS
  Threads,     \* the debuggee's threads
  RT,          \* those driven in slices: they acknowledge and return Paused
  Worlds,      \* the programs, debuggers and hosts behaviours are about
  MaxCommands  \* bound on the worker's queued commands

(* What the actors of a world may do: breakpoints and steps are armed; fatal
   errors stop (stopOnFatal); the debugger pauses without blocking
   (requestDebuggerPause) or makes blocking requests (requestStop); the
   embedding host pauses and releases, and its pauses may race the start of an
   execution; a run is asked to exit (releaseForExit). *)
Abilities == {"trap", "fatal", "pause", "block", "host", "race", "exit"}

(* threads are the threads of the domain; epochs bounds the stops of one
   domain, and runs the executions. *)
ASSUME ConstantsOK ==
  /\ RT \subseteq Threads /\ MaxCommands \in Nat
  /\ Worlds \subseteq [threads : SUBSET Threads, may : SUBSET Abilities, epochs : Nat, runs : Nat]

VARIABLES
  world,       \* the world this behaviour is about: it never changes
  acceptingStops, stopped, forming, pending, owners,
  pendingWokenEpoch, asyncPending, holdActive,
  stopEpoch, admissionClosed, intrDebugStop, releaseGeneration,
  own,         \* per thread: debugOwnership
  ackEpoch,    \* per thread: debugAckEpoch
  pc,          \* per thread: where it is
  ret,         \* per thread: where ackAndPark returns to
  seenGen,     \* per thread: the generation ackAndPark read
  releasing,   \* resumeNow: its next step
  keepHold,    \* resumeNow: called with releaseHold = false
  commands,    \* the worker's command queue
  taken,       \* worker: the epoch completeAsyncStop took, 0 for none
  ctl,         \* controller: where requestStop is
  ctlEpoch,    \* controller: the epoch it formed
  ctlAdded,    \* controller: requestStop added the Debugger share
  phase,       \* driver: idle, starting, forming, publishing, active, ending, ended
  runs         \* executions begun

coordVars  == <<acceptingStops, stopped, forming, pending, owners, pendingWokenEpoch,
                asyncPending, holdActive>>
domainVars == <<stopEpoch, admissionClosed, intrDebugStop, releaseGeneration>>
threadVars == <<own, ackEpoch, pc, ret, seenGen>>
workerVars == <<releasing, keepHold, commands, taken>>
ctlVars    == <<ctl, ctlEpoch, ctlAdded>>
driverVars == <<world, phase, runs>>
vars == <<coordVars, domainVars, threadVars, workerVars, ctlVars, driverVars>>

PC == {"out", "fast", "own", "gate", "top", "run", "eval",
       "accepting", "stopped", "forming", "owner", "async", "refused",
       "park", "parkbit", "parkack", "parked", "return"}

FlagsOK ==
  /\ acceptingStops \in BOOLEAN /\ stopped \in BOOLEAN /\ forming \in BOOLEAN
  /\ pending \in BOOLEAN /\ asyncPending \in BOOLEAN /\ holdActive \in BOOLEAN
  /\ admissionClosed \in BOOLEAN /\ intrDebugStop \in BOOLEAN
  /\ keepHold \in BOOLEAN /\ ctlAdded \in BOOLEAN

CountsOK ==
  /\ pendingWokenEpoch \in Nat /\ stopEpoch \in Nat /\ releaseGeneration \in Nat
  /\ taken \in Nat /\ ctlEpoch \in Nat /\ runs \in Nat

ThreadsOK ==
  /\ own \in [Threads -> {"Idle", "Executing", "StoppedExternal"}]
  /\ ackEpoch \in [Threads -> 0..stopEpoch] /\ seenGen \in [Threads -> 0..releaseGeneration]
  /\ pc \in [Threads -> PC] /\ ret \in [Threads -> {"own", "top", "run", "accepting"}]

PlacesOK ==
  /\ owners \subseteq {"Debugger", "Host"}
  /\ releasing \in {"no", "open", "bump"}
  /\ commands \in Seq({"host", "exit"})
  /\ ctl \in {"idle", "stopped", "forming", "owner", "hold", "await", "join"}
  /\ phase \in {"idle", "starting", "forming", "publishing", "active", "ending", "ended"}

(* Every variable keeps its type; no thread acknowledges an epoch, or waits on
   a generation, that its domain has not reached. *)
TypeOK == FlagsOK /\ CountsOK /\ ThreadsOK /\ PlacesOK

Init ==
  /\ world \in Worlds
  /\ acceptingStops = TRUE /\ stopped = FALSE /\ forming = FALSE /\ pending = FALSE
  /\ owners = {} /\ pendingWokenEpoch = 0 /\ asyncPending = FALSE /\ holdActive = FALSE
  /\ stopEpoch = 0 /\ admissionClosed = FALSE /\ intrDebugStop = FALSE /\ releaseGeneration = 0
  /\ own = [t \in Threads |-> "Idle"] /\ ackEpoch = [t \in Threads |-> 0]
  /\ pc = [t \in Threads |-> "out"] /\ ret = [t \in Threads |-> "own"]
  /\ seenGen = [t \in Threads |-> 0]
  /\ releasing = "no" /\ keepHold = FALSE /\ commands = <<>> /\ taken = 0
  /\ ctl = "idle" /\ ctlEpoch = 0 /\ ctlAdded = FALSE
  /\ phase = "idle" /\ runs = 0

-----------------------------------------------------------------------------
May(x)      == x \in world.may
Goto(t, l)  == pc' = [pc EXCEPT ![t] = l]
At(t, l)    == pc[t] = l
ControlFree == releasing = "no"
HasOwner(o) == o \in owners

(* beginStop once it has won: epoch, admission gate, interrupt bit. *)
Publish ==
  /\ forming' = TRUE
  /\ stopEpoch' = stopEpoch + 1
  /\ admissionClosed' = TRUE /\ intrDebugStop' = TRUE
  /\ UNCHANGED releaseGeneration

(* What releaseAll does to the threads acknowledged while idle. *)
ReleasedOwn == [t \in Threads |-> IF own[t] = "StoppedExternal" THEN "Idle" ELSE own[t]]

(* releaseAll while no stop can begin: forming is still set. *)
ReleaseAll ==
  /\ intrDebugStop' = FALSE /\ admissionClosed' = FALSE
  /\ own' = ReleasedOwn
  /\ releaseGeneration' = releaseGeneration + 1
  /\ UNCHANGED <<stopEpoch, ackEpoch, pc, ret, seenGen>>

Rollback ==
  /\ ReleaseAll
  /\ forming' = FALSE /\ pending' = FALSE
  /\ UNCHANGED <<stopped, pendingWokenEpoch, asyncPending, holdActive>>

cancelPending(releaseHold) ==
  /\ ReleaseAll
  /\ forming' = FALSE /\ pending' = FALSE
  /\ holdActive' = (holdActive /\ ~releaseHold)
  /\ UNCHANGED <<stopped, pendingWokenEpoch, asyncPending>>

(* resumeNow, first step: a new stop may begin from here on. *)
resumeNow(releaseHold) ==
  /\ stopped' = FALSE
  /\ releasing' = "open" /\ keepHold' = ~releaseHold
  /\ UNCHANGED <<forming, pending, pendingWokenEpoch, asyncPending, holdActive>>

(* resumeNow, releaseAll: the publication goes, idle threads are let go. *)
ReleaseOpen ==
  /\ releasing = "open"
  /\ intrDebugStop' = FALSE /\ admissionClosed' = FALSE
  /\ own' = ReleasedOwn
  /\ releasing' = "bump"
  /\ UNCHANGED <<coordVars, stopEpoch, releaseGeneration, ackEpoch, pc, ret, seenGen, keepHold,
                 commands, taken, ctlVars, driverVars>>

(* resumeNow, the rest: parked threads are let go, then the hold. *)
ReleaseBump ==
  /\ releasing = "bump"
  /\ releaseGeneration' = releaseGeneration + 1
  /\ holdActive' = (holdActive /\ keepHold)
  /\ releasing' = "no" /\ keepHold' = FALSE
  /\ phase' = IF phase = "ending" THEN "ended" ELSE phase
  /\ UNCHANGED <<acceptingStops, stopped, forming, pending, owners, pendingWokenEpoch, asyncPending,
                 stopEpoch, admissionClosed, intrDebugStop, threadVars, commands, taken,
                 ctlVars, world, runs>>

-----------------------------------------------------------------------------
(* Quiescence *)

(* Every thread has acknowledged or is idle, no evaluator is active. *)
Quiescent(e) ==
  \A t \in world.threads : (ackEpoch[t] >= e \/ own[t] = "Idle") /\ ~At(t, "eval")

(* One pass: idle threads are acknowledged, and the stop commits if it can. *)
tryCommitPass(e, pend) ==
  LET idle == {t \in world.threads : ackEpoch[t] < e /\ own[t] = "Idle"}
      live == forming /\ stopEpoch = e
  IN  /\ own' = [t \in Threads |-> IF live /\ t \in idle THEN "StoppedExternal" ELSE own[t]]
      /\ ackEpoch' = [t \in Threads |-> IF live /\ t \in idle THEN e ELSE ackEpoch[t]]
      /\ IF live /\ Quiescent(e)
         THEN stopped' = TRUE /\ forming' = FALSE /\ pending' = FALSE
         ELSE pending' = (IF live THEN pend ELSE pending) /\ UNCHANGED <<stopped, forming>>
      /\ UNCHANGED <<pc, ret, seenGen>>

-----------------------------------------------------------------------------
(* A debuggee thread *)

(* A stop point: RT threads acknowledge and return, others park. *)
StopPoint(t, r) ==
  /\ Goto(t, IF t \in RT THEN "return" ELSE "park")
  /\ ret' = [ret EXCEPT ![t] = r]

Local(t) == UNCHANGED <<coordVars, domainVars, workerVars, ctlVars, driverVars>>

(* execute(): the fast path tests the bit first. *)
Enter(t) ==
  /\ At(t, "out") /\ phase = "active" /\ t \in world.threads
  /\ Goto(t, IF intrDebugStop THEN "own" ELSE "fast")
  /\ UNCHANGED <<own, ackEpoch, ret, seenGen>> /\ Local(t)

(* Seeded fault: ownership is claimed whatever it was. *)
Claim_Store(t) ==
  /\ At(t, "fast")
  /\ own' = [own EXCEPT ![t] = "Executing"]
  /\ Goto(t, "run")
  /\ UNCHANGED <<ackEpoch, ret, seenGen>> /\ Local(t)

Claim(t) ==
  /\ At(t, "fast")
  /\ IF own[t] = "Idle"
     THEN own' = [own EXCEPT ![t] = "Executing"] /\ Goto(t, "top")
     ELSE Goto(t, "own") /\ UNCHANGED own
  /\ UNCHANGED <<ackEpoch, ret, seenGen>> /\ Local(t)

(* admitOrPark: stopped while idle? *)
AdmitOwn(t) ==
  /\ At(t, "own")
  /\ IF own[t] # "StoppedExternal" THEN Goto(t, "gate") /\ UNCHANGED ret
     ELSE IF t \in RT THEN Goto(t, "out") /\ UNCHANGED ret
     ELSE StopPoint(t, "own")
  /\ UNCHANGED <<own, ackEpoch, seenGen>> /\ Local(t)

(* admitOrPark: admission closed? *)
AdmitGate(t) ==
  /\ At(t, "gate")
  /\ IF admissionClosed THEN StopPoint(t, "own") ELSE Goto(t, "fast") /\ UNCHANGED ret
  /\ UNCHANGED <<own, ackEpoch, seenGen>> /\ Local(t)

(* The dispatch loop's stop point. *)
Top(t) ==
  /\ At(t, "top")
  /\ IF intrDebugStop THEN StopPoint(t, "top") ELSE Goto(t, "run") /\ UNCHANGED ret
  /\ UNCHANGED <<own, ackEpoch, seenGen>> /\ Local(t)

(* User code: an instruction, a dataflow evaluation, or the end. *)
Instruction(t) ==
  /\ At(t, "run") /\ Goto(t, "top")
  /\ UNCHANGED <<own, ackEpoch, ret, seenGen>> /\ Local(t)

Evaluate(t) ==
  /\ \/ At(t, "run") /\ Goto(t, "eval")
     \/ At(t, "eval") /\ Goto(t, "run")
  /\ UNCHANGED <<own, ackEpoch, ret, seenGen>> /\ Local(t)

Finish(t) ==
  /\ At(t, "run")
  /\ own' = [own EXCEPT ![t] = "Idle"]
  /\ Goto(t, "out")
  /\ UNCHANGED <<ackEpoch, ret, seenGen>> /\ Local(t)

(* ackNoPark, then Paused to the caller. *)
AckReturn(t) ==
  /\ At(t, "return")
  /\ ackEpoch' = [ackEpoch EXCEPT ![t] = stopEpoch]
  /\ own' = [own EXCEPT ![t] = IF @ = "Executing" THEN "Idle" ELSE @]
  /\ Goto(t, "out") /\ ret' = [ret EXCEPT ![t] = "own"]
  /\ UNCHANGED seenGen /\ Local(t)

-----------------------------------------------------------------------------
(* ackAndPark *)

Unpark(t) ==
  /\ Goto(t, ret[t])
  /\ ret' = [ret EXCEPT ![t] = IF @ = "accepting" THEN "run" ELSE "own"]
  /\ seenGen' = [seenGen EXCEPT ![t] = 0]

ParkGen(t) ==
  /\ At(t, "park")
  /\ seenGen' = [seenGen EXCEPT ![t] = releaseGeneration]
  /\ Goto(t, "parkbit")
  /\ UNCHANGED <<own, ackEpoch, ret>> /\ Local(t)

(* Seeded fault: the generation is read after the acknowledgement. *)
ParkAck_LateGen(t) ==
  /\ At(t, "parkack")
  /\ ackEpoch' = [ackEpoch EXCEPT ![t] = stopEpoch]
  /\ seenGen' = [seenGen EXCEPT ![t] = releaseGeneration]
  /\ Goto(t, "parked")
  /\ UNCHANGED <<own, ret>> /\ Local(t)

ParkBit(t) ==
  /\ At(t, "parkbit")
  /\ IF intrDebugStop THEN Goto(t, "parkack") /\ UNCHANGED <<ret, seenGen>> ELSE Unpark(t)
  /\ UNCHANGED <<own, ackEpoch>> /\ Local(t)

ParkAck(t) ==
  /\ At(t, "parkack")
  /\ ackEpoch' = [ackEpoch EXCEPT ![t] = stopEpoch]
  /\ Goto(t, "parked")
  /\ UNCHANGED <<own, ret, seenGen>> /\ Local(t)

Wake(t) ==
  /\ At(t, "parked") /\ releaseGeneration # seenGen[t]
  /\ Unpark(t)
  /\ UNCHANGED <<own, ackEpoch>> /\ Local(t)

-----------------------------------------------------------------------------
(* tryBeginAsyncStop, at a statement boundary or for a fatal error *)

Trap(t) ==
  /\ May("trap") /\ At(t, "top") /\ ~intrDebugStop
  /\ Goto(t, "accepting") /\ ret' = [ret EXCEPT ![t] = "top"]
  /\ UNCHANGED <<own, ackEpoch, seenGen>> /\ Local(t)

(* After its stop, a fatal error is raised without another stop point. *)
Fatal(t) ==
  /\ May("fatal") /\ At(t, "run") /\ t \notin RT
  /\ Goto(t, "accepting") /\ ret' = [ret EXCEPT ![t] = "run"]
  /\ UNCHANGED <<own, ackEpoch, seenGen>> /\ Local(t)

TryAccepting(t) ==
  /\ At(t, "accepting")
  /\ Goto(t, IF acceptingStops THEN "stopped" ELSE "refused")
  /\ UNCHANGED <<own, ackEpoch, ret, seenGen>> /\ Local(t)

TryStopped(t) ==
  /\ At(t, "stopped")
  /\ Goto(t, IF stopped THEN "refused" ELSE "forming")
  /\ UNCHANGED <<own, ackEpoch, ret, seenGen>> /\ Local(t)

(* The exchange of forming_; at the bound the failed-stop backoff refuses. *)
TryForming(t) ==
  /\ At(t, "forming")
  /\ IF forming \/ stopEpoch = world.epochs
     THEN Goto(t, "refused") /\ UNCHANGED <<forming, domainVars>>
     ELSE Goto(t, "owner") /\ Publish
  /\ UNCHANGED <<acceptingStops, stopped, pending, owners, pendingWokenEpoch, asyncPending,
                 holdActive, own, ackEpoch, ret, seenGen, workerVars, ctlVars, driverVars>>

TryOwner(t) ==
  /\ At(t, "owner")
  /\ owners' = owners \union {"Debugger"}
  /\ Goto(t, "async")
  /\ UNCHANGED <<acceptingStops, stopped, forming, pending, pendingWokenEpoch, asyncPending,
                 holdActive, domainVars, own, ackEpoch, ret, seenGen, workerVars, ctlVars,
                 driverVars>>

TryAsync(t) ==
  /\ At(t, "async")
  /\ asyncPending' = TRUE
  /\ StopPoint(t, ret[t])
  /\ UNCHANGED <<acceptingStops, stopped, forming, pending, owners, pendingWokenEpoch, holdActive,
                 domainVars, own, ackEpoch, seenGen, workerVars, ctlVars, driverVars>>

(* Refused: join the stop that is there (a fatal error tries again), or go on. *)
TryRefused(t) ==
  /\ At(t, "refused")
  /\ IF intrDebugStop
     THEN StopPoint(t, IF ret[t] = "run" THEN "accepting" ELSE "top")
     ELSE Goto(t, "run") /\ ret' = [ret EXCEPT ![t] = "own"]
  /\ UNCHANGED <<own, ackEpoch, seenGen>> /\ Local(t)

-----------------------------------------------------------------------------
(* The debug worker *)

TakeAsync ==
  /\ asyncPending /\ taken = 0
  /\ asyncPending' = FALSE /\ taken' = stopEpoch
  /\ UNCHANGED <<acceptingStops, stopped, forming, pending, owners, pendingWokenEpoch, holdActive,
                 domainVars, threadVars, releasing, keepHold, commands, ctlVars, driverVars>>

(* Seeded fault: a stop that cannot commit yet is not left pending. *)
completeAsyncStop_Once ==
  /\ taken # 0 /\ ControlFree
  /\ pendingWokenEpoch' = taken /\ holdActive' = TRUE
  /\ tryCommitPass(taken, pending)
  /\ taken' = 0
  /\ UNCHANGED <<acceptingStops, owners, asyncPending, domainVars, releasing, keepHold, commands,
                 ctlVars, driverVars>>

(* completeAsyncStop: the hold is opened, then one pass. *)
completeAsyncStop ==
  /\ taken # 0 /\ ControlFree
  /\ pendingWokenEpoch' = taken /\ holdActive' = TRUE
  /\ tryCommitPass(taken, TRUE)
  /\ taken' = 0
  /\ UNCHANGED <<acceptingStops, owners, asyncPending, domainVars, releasing, keepHold, commands,
                 ctlVars, driverVars>>

advancePendingStop ==
  /\ pending /\ ControlFree /\ taken = 0
  /\ \/ /\ ~forming /\ pending' = FALSE
        /\ UNCHANGED <<acceptingStops, stopped, forming, owners, pendingWokenEpoch, asyncPending,
                       holdActive, domainVars, threadVars>>
     \/ /\ forming /\ owners = {} /\ cancelPending(acceptingStops)
        /\ UNCHANGED <<acceptingStops, owners>>
     \/ /\ forming /\ owners # {}
        /\ pendingWokenEpoch' = stopEpoch
        /\ holdActive' = (holdActive \/ pendingWokenEpoch # stopEpoch)
        /\ tryCommitPass(stopEpoch, TRUE)
        /\ UNCHANGED <<acceptingStops, owners, asyncPending, domainVars>>
  /\ UNCHANGED <<workerVars, ctlVars, driverVars>>

(* Seeded fault: a host's release is carried out whoever owns the stop now. *)
Wanted_Always(c) == TRUE

(* Is the queued release still wanted?  An exit's always is. *)
Wanted(c) == c = "exit" \/ owners = {}

(* The command at the head: the host's release, or an exit's. *)
RunCommand ==
  /\ commands # <<>> /\ ControlFree /\ taken = 0
  /\ commands' = Tail(commands)
  /\ LET exit   == Head(commands) = "exit"
         wanted == Wanted(Head(commands))
     IN  \/ /\ wanted /\ stopped /\ resumeNow(~exit)
            /\ UNCHANGED <<domainVars, threadVars>>
         \/ /\ wanted /\ ~stopped /\ pending /\ forming /\ cancelPending(~exit)
            /\ UNCHANGED <<releasing, keepHold>>
         \/ /\ ~wanted \/ ~(stopped \/ (pending /\ forming))
            /\ UNCHANGED <<stopped, forming, pending, pendingWokenEpoch, asyncPending, holdActive,
                           domainVars, threadVars, releasing, keepHold>>
  /\ UNCHANGED <<acceptingStops, owners, taken, ctlVars, driverVars>>

-----------------------------------------------------------------------------
(* The debugger *)

(* beginStop by a thread that holds controlMutex_, with what its callers add. *)
BeginPending(owner) ==
  /\ acceptingStops /\ ~stopped /\ ~forming /\ stopEpoch < world.epochs
  /\ Publish
  /\ owners' = owners \union {owner}
  /\ pendingWokenEpoch' = stopEpoch + 1 /\ pending' = TRUE /\ holdActive' = TRUE

requestDebuggerPause ==
  /\ May("pause") /\ ctl = "idle" /\ ControlFree
  /\ \/ /\ stopped \/ forming
        /\ owners' = owners \union {"Debugger"}
        /\ UNCHANGED <<forming, pending, pendingWokenEpoch, holdActive, domainVars>>
     \/ BeginPending("Debugger")
  /\ UNCHANGED <<acceptingStops, stopped, asyncPending, threadVars, workerVars, ctlVars, driverVars>>

joinStop ==
  /\ May("block") /\ ctl = "idle" /\ ControlFree /\ stopped
  /\ owners' = owners \union {"Debugger"}
  /\ UNCHANGED <<acceptingStops, stopped, forming, pending, pendingWokenEpoch, asyncPending,
                 holdActive, domainVars, threadVars, workerVars, ctlVars, driverVars>>

(* Continue, and with releaseHold = FALSE the resume of a step. *)
resume(releaseHold) ==
  /\ ctl = "idle" /\ ControlFree
  /\ releaseHold \/ (stopped /\ ~HasOwner("Host"))
  /\ owners' = owners \ {"Debugger"}
  /\ \/ /\ ~HasOwner("Host") /\ stopped /\ resumeNow(releaseHold)
        /\ UNCHANGED <<domainVars, threadVars>>
     \/ /\ ~HasOwner("Host") /\ ~stopped /\ pending /\ forming /\ cancelPending(releaseHold)
        /\ UNCHANGED <<releasing, keepHold>>
     \/ /\ HasOwner("Host") \/ ~(stopped \/ (pending /\ forming))
        /\ UNCHANGED <<stopped, forming, pending, pendingWokenEpoch, asyncPending, holdActive,
                       domainVars, threadVars, releasing, keepHold>>
  /\ UNCHANGED <<acceptingStops, commands, taken, ctlVars, driverVars>>

(* requestStop: a blocking request, its beginStop lock-free *)

(* Not begun: join a pending stop, or give up. *)
RequestRefused ==
  IF forming /\ pending
  THEN /\ ctl' = "join"
       /\ ctlAdded' = ~HasOwner("Debugger")
       /\ owners' = owners \union {"Debugger"}
  ELSE /\ ctl' = "idle"
       /\ UNCHANGED <<ctlAdded, owners>>

RequestAccepting ==
  /\ May("block") /\ ctl = "idle"
  /\ IF acceptingStops THEN ctl' = "stopped" /\ UNCHANGED <<ctlAdded, owners>> ELSE RequestRefused
  /\ UNCHANGED <<acceptingStops, stopped, forming, pending, pendingWokenEpoch, asyncPending,
                 holdActive, domainVars, threadVars, workerVars, ctlEpoch, driverVars>>

RequestStopped ==
  /\ ctl = "stopped"
  /\ IF stopped THEN RequestRefused ELSE ctl' = "forming" /\ UNCHANGED <<ctlAdded, owners>>
  /\ UNCHANGED <<acceptingStops, stopped, forming, pending, pendingWokenEpoch, asyncPending,
                 holdActive, domainVars, threadVars, workerVars, ctlEpoch, driverVars>>

RequestForming ==
  /\ ctl = "forming"
  /\ IF forming \/ stopEpoch = world.epochs
     THEN RequestRefused /\ UNCHANGED <<forming, domainVars, ctlEpoch>>
     ELSE /\ Publish
          /\ ctl' = "owner" /\ ctlEpoch' = stopEpoch + 1
          /\ UNCHANGED <<ctlAdded, owners>>
  /\ UNCHANGED <<acceptingStops, stopped, pending, pendingWokenEpoch, asyncPending, holdActive,
                 threadVars, workerVars, driverVars>>

RequestOwner ==
  /\ ctl = "owner" /\ ctl' = "hold"
  /\ owners' = owners \union {"Debugger"}
  /\ UNCHANGED <<acceptingStops, stopped, forming, pending, pendingWokenEpoch, asyncPending,
                 holdActive, domainVars, threadVars, workerVars, ctlEpoch, ctlAdded, driverVars>>

RequestHold ==
  /\ ctl = "hold" /\ ControlFree /\ ctl' = "await"
  /\ pendingWokenEpoch' = ctlEpoch /\ holdActive' = TRUE
  /\ UNCHANGED <<acceptingStops, stopped, forming, pending, owners, asyncPending, domainVars,
                 threadVars, workerVars, ctlEpoch, ctlAdded, driverVars>>

(* awaitQuiescence: committed, withdrawn, or another pass later. *)
awaitQuiescence ==
  /\ ctl = "await" /\ ControlFree
  /\ tryCommitPass(ctlEpoch, pending)
  /\ ctl' = IF forming' THEN "await" ELSE "idle"
  /\ UNCHANGED <<acceptingStops, owners, pendingWokenEpoch, asyncPending, holdActive, domainVars,
                 workerVars, ctlEpoch, ctlAdded, driverVars>>

(* The deadline passes: rolled back, or left pending as the host's. *)
giveUp ==
  /\ ctl = "await" /\ ControlFree /\ ctl' = "idle"
  /\ \/ /\ ~forming \/ stopEpoch # ctlEpoch
        /\ UNCHANGED <<stopped, forming, pending, owners, pendingWokenEpoch, asyncPending, holdActive,
                       domainVars, threadVars>>
     \/ /\ forming /\ stopEpoch = ctlEpoch /\ HasOwner("Host")
        /\ owners' = owners \ {"Debugger"} /\ pending' = TRUE
        /\ UNCHANGED <<stopped, forming, pendingWokenEpoch, asyncPending, holdActive, domainVars,
                       threadVars>>
     \/ /\ forming /\ stopEpoch = ctlEpoch /\ ~HasOwner("Host")
        /\ owners' = owners \ {"Debugger"}
        /\ Rollback
  /\ UNCHANGED <<acceptingStops, workerVars, ctlEpoch, ctlAdded, driverVars>>

(* A joined stop: it stopped, or it went or took too long and the share goes. *)
RequestJoined ==
  /\ ctl = "join" /\ ctl' = "idle"
  /\ owners' = IF ~stopped /\ ctlAdded THEN owners \ {"Debugger"} ELSE owners
  /\ UNCHANGED <<acceptingStops, stopped, forming, pending, pendingWokenEpoch, asyncPending,
                 holdActive, domainVars, threadVars, workerVars, ctlEpoch, ctlAdded, driverVars>>

-----------------------------------------------------------------------------
(* The embedding host *)

requestHostPause ==
  /\ May("host") /\ ControlFree /\ ~HasOwner("Host")
  /\ May("race") \/ phase \in {"active", "ended"} \/ (phase = "idle" /\ ~acceptingStops)
  /\ \/ /\ stopped \/ forming \/ ~acceptingStops
        /\ owners' = owners \union {"Host"}
        /\ UNCHANGED <<forming, pending, pendingWokenEpoch, holdActive, domainVars>>
     \/ BeginPending("Host")
  /\ UNCHANGED <<acceptingStops, stopped, asyncPending, threadVars, workerVars, ctlVars, driverVars>>

(* The physical release is the worker's. *)
releaseHostPause ==
  /\ HasOwner("Host") /\ Len(commands) < MaxCommands
  /\ owners' = owners \ {"Host"}
  /\ commands' = IF HasOwner("Debugger") THEN commands ELSE Append(commands, "host")
  /\ UNCHANGED <<acceptingStops, stopped, forming, pending, pendingWokenEpoch, asyncPending,
                 holdActive, domainVars, threadVars, releasing, keepHold, taken, ctlVars, driverVars>>

(* The host gives its hold up; refused while a stop is forming or in force. *)
holdDropped ==
  /\ May("host") /\ ControlFree /\ ~stopped /\ ~forming /\ holdActive
  /\ holdActive' = FALSE
  /\ UNCHANGED <<acceptingStops, stopped, forming, pending, owners, pendingWokenEpoch, asyncPending,
                 domainVars, threadVars, workerVars, ctlVars, driverVars>>

(* A run is asked to exit: exit beats every owner. *)
releaseForExit ==
  /\ May("exit") /\ phase = "active" /\ acceptingStops /\ Len(commands) < MaxCommands
  /\ acceptingStops' = FALSE
  /\ owners' = owners \ {"Debugger"}
  /\ commands' = Append(commands, "exit")
  /\ UNCHANGED <<stopped, forming, pending, pendingWokenEpoch, asyncPending, holdActive, domainVars,
                 threadVars, releasing, keepHold, taken, ctlVars, driverVars>>

-----------------------------------------------------------------------------
(* The driver *)

(* Seeded fault: the acknowledgements of the old domain's threads are kept. *)
Rebind_KeepAcks(new) ==
  IF new
  THEN /\ stopEpoch' = 0 /\ admissionClosed' = FALSE /\ intrDebugStop' = FALSE
       /\ releaseGeneration' = 0
       /\ pendingWokenEpoch' = 0
       /\ own' = [t \in Threads |-> "Idle"]
       /\ UNCHANGED <<ackEpoch, pc, ret, seenGen>>
  ELSE UNCHANGED <<domainVars, pendingWokenEpoch, threadVars>>

(* rebind: a program run has its own domain, and its own threads. *)
Rebind(new) ==
  IF new
  THEN /\ stopEpoch' = 0 /\ admissionClosed' = FALSE /\ intrDebugStop' = FALSE
       /\ releaseGeneration' = 0
       /\ pendingWokenEpoch' = 0
       /\ ackEpoch' = [t \in Threads |-> 0] /\ own' = [t \in Threads |-> "Idle"]
       /\ UNCHANGED <<pc, ret, seenGen>>
  ELSE UNCHANGED <<domainVars, pendingWokenEpoch, threadVars>>

beginExecution(new) ==
  /\ phase = "idle" /\ runs < world.runs
  /\ new => ControlFree /\ ~stopped /\ ~forming
  /\ Rebind(new)
  /\ acceptingStops' = TRUE
  /\ phase' = "starting" /\ runs' = runs + 1
  /\ UNCHANGED <<stopped, forming, pending, owners, asyncPending, holdActive, workerVars, ctlVars,
                 world>>

(* A host hold placed earlier: the execution starts paused. *)
StartPaused ==
  /\ phase = "starting"
  /\ phase' = IF HasOwner("Host") /\ ~stopped THEN "forming" ELSE "active"
  /\ UNCHANGED <<coordVars, domainVars, threadVars, workerVars, ctlVars, world, runs>>

StartForming ==
  /\ phase = "forming"
  /\ IF forming
     THEN phase' = "active" /\ UNCHANGED <<forming, domainVars>>
     ELSE phase' = "publishing" /\ stopEpoch < world.epochs /\ Publish
  /\ UNCHANGED <<acceptingStops, stopped, pending, owners, pendingWokenEpoch, asyncPending,
                 holdActive, threadVars, workerVars, ctlVars, world, runs>>

StartPending ==
  /\ phase = "publishing" /\ phase' = "active"
  /\ pending' = TRUE
  /\ UNCHANGED <<acceptingStops, stopped, forming, owners, pendingWokenEpoch, asyncPending,
                 holdActive, domainVars, threadVars, workerVars, ctlVars, world, runs>>

endExecution ==
  /\ phase = "active" /\ ControlFree
  /\ phase' = IF stopped THEN "ending" ELSE "ended"
  /\ acceptingStops' = FALSE
  /\ owners' = owners \ {"Debugger"}
  /\ \/ /\ stopped
        /\ stopped' = FALSE /\ pending' = FALSE
        /\ releasing' = "open" /\ keepHold' = TRUE
        /\ UNCHANGED <<forming, pendingWokenEpoch, asyncPending, holdActive, domainVars, threadVars>>
     \/ /\ ~stopped /\ (forming \/ intrDebugStop)
        /\ Rollback
        /\ UNCHANGED <<releasing, keepHold>>
     \/ /\ ~stopped /\ ~forming /\ ~intrDebugStop
        /\ pending' = FALSE
        /\ UNCHANGED <<stopped, forming, pendingWokenEpoch, asyncPending, holdActive, domainVars,
                       threadVars, releasing, keepHold>>
  /\ UNCHANGED <<commands, taken, ctlVars, world, runs>>

(* joinAllThreads returns. *)
Join ==
  /\ phase = "ended" /\ \A t \in Threads : At(t, "out")
  /\ phase' = "idle"
  /\ UNCHANGED <<coordVars, domainVars, threadVars, workerVars, ctlVars, world, runs>>

-----------------------------------------------------------------------------
ThreadStep(t) ==
  \/ Enter(t) \/ Claim(t) \/ AdmitOwn(t) \/ AdmitGate(t) \/ Top(t) \/ Instruction(t) \/ Evaluate(t)
  \/ Finish(t)
  \/ AckReturn(t) \/ ParkGen(t) \/ ParkBit(t) \/ ParkAck(t) \/ Wake(t)
  \/ Trap(t) \/ Fatal(t) \/ TryAccepting(t) \/ TryStopped(t) \/ TryForming(t) \/ TryOwner(t)
  \/ TryAsync(t) \/ TryRefused(t)

WorkerStep ==
  \/ TakeAsync \/ completeAsyncStop \/ advancePendingStop \/ RunCommand
  \/ ReleaseOpen \/ ReleaseBump

Debugger ==
  \/ requestDebuggerPause \/ joinStop \/ \E releaseHold \in BOOLEAN : resume(releaseHold)
  \/ RequestAccepting \/ RequestStopped \/ RequestForming \/ RequestOwner \/ RequestHold
  \/ awaitQuiescence \/ giveUp \/ RequestJoined

Host == requestHostPause \/ releaseHostPause \/ holdDropped \/ releaseForExit

Driver ==
  \/ \E new \in BOOLEAN : beginExecution(new)
  \/ StartPaused \/ StartForming \/ StartPending \/ endExecution \/ Join

Next == (\E t \in Threads : ThreadStep(t)) \/ WorkerStep \/ Debugger \/ Host \/ Driver

Spec == Init /\ [][Next]_vars

(* The worker's waits are all timed, so it keeps polling; a thread is always
   scheduled again, and user code that evaluates for ever would still pass an
   instruction boundary; the driver finishes what it published.  Nothing is
   assumed of the debugger or the host. *)
FairSpec ==
  /\ Spec
  /\ \A t \in Threads : WF_vars(ThreadStep(t)) /\ SF_vars(Instruction(t))
  /\ WF_vars(TakeAsync) /\ WF_vars(completeAsyncStop) /\ WF_vars(advancePendingStop)
  /\ WF_vars(ReleaseOpen) /\ WF_vars(ReleaseBump) /\ WF_vars(StartForming) /\ WF_vars(StartPending)

-----------------------------------------------------------------------------
(* Stops are begun under controlMutex_ or by a trap: a blocking request, and a
   host pause that races the start of an execution, publish beside a stop that
   is being committed (the two reads of beginStop). *)
Serialised == world.may \intersect {"block", "race"} = {}

(* While a stop is committed no thread of the domain executes user code or
   evaluates the dataflow network, whichever of the trap, the worker, the
   debugger and the host formed it and however their releases and the threads'
   stop points interleave (tryCommitPass, ackAndPark, releaseAll, admitOrPark).
   Without fatal-error stops: debugFatalStopIfArmed runs on when ackAndPark
   returns on a generation read before the stop it acknowledged.  And without
   a hold placed before an execution: beginExecution publishes beside a stop
   that is being committed or released, as a blocking request does. *)
Frozen ==
  /\ Serialised
  /\ "fatal" \notin world.may
  /\ "host" \in world.may => world.runs <= 1
  /\ stopped
  => \A t \in Threads : pc[t] \notin {"run", "eval"}

(* While the host holds and an execution that accepts stops is under way, a stop
   is forming or in force: the execution starts paused under a hold placed
   before it, and neither the debugger's continue nor a release the host itself
   queued before it took the hold again lets it go (the owner rules of
   StopCoordinator.h).  An exit's release belongs to its own execution: queued
   in one, it may run in the next (releaseForExit). *)
HostHeld ==
  /\ Serialised
  /\ "exit" \in world.may => world.runs <= 1
  /\ phase = "active" /\ acceptingStops /\ HasOwner("Host")
  => forming \/ stopped

(* A parked thread has a reason to be parked: the stop it acknowledged is
   forming or in force, or its release is under way and will bump the
   generation the thread waits on (the comment in ackAndPark: level-triggered,
   no lost wakeup). *)
NoLostRelease ==
  \A t \in Threads :
    At(t, "parked") /\ releaseGeneration = seenGen[t] => stopped \/ forming \/ ~ControlFree

(* A published stop is resolved: it commits, or whoever may withdraw it does.
   No thread, gate or hand-over from a trap to the worker leaves it forming for
   ever with threads parked behind it (completeAsyncStop: a stop is never
   rolled back for being slow). *)
StopResolves == Serialised /\ forming ~> ~forming

=============================================================================
