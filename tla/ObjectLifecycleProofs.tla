----------------------- MODULE ObjectLifecycleProofs -----------------------
(***************************************************************************)
(* The reference counts, the sweep and the reclaimer are right: the counts *)
(* are those of the references there are, nothing is used after it was     *)
(* freed, and together they implement ObjectHeap.                          *)
(***************************************************************************)
EXTENDS ObjectLifecycleSteps

(* An actor instance handed over for destruction refers to nothing. *)
LEMMA Bare ==
  ASSUME TypeInv, LinkInv, BatchInv, NEW q \in finalize, NEW k \in Slots
  PROVE  ref[q][k] = None
<1>1. q \in Actors /\ q \in Objs /\ q \notin Natives
  BY NoneParts DEF TypeInv
<1>2. dropClaimed[q]
  BY <1>1 DEF BatchInv, BatchOK
<1>3. ref[q]["edge"] = None /\ ref[q]["version"] = None /\ ref[q]["hidden"] = None
  BY <1>1, <1>2 DEF LinkInv, LinkOK
<1> QED
  BY <1>3 DEF Slots

(* Between the trim and the release of the world nobody has a step to take. *)
LEMMA Quiet ==
  ASSUME TypeInv, MarkInv, PhaseInv, gc = "sweep"
  PROVE  /\ \A a \in Actor : Count(a) = 0
         /\ \A o : ~Retiring(o) /\ ~Claiming(o) /\ ~Swept(o) /\ ~InBatch(o)
<1>1. rec = "idle" /\ \A t \in Threads : Idle(t)
  BY DEF MarkInv, InProgress
<1>2. Idle(Gc) /\ Idle(Rec) /\ swept = <<>> /\ batch = <<>>
  BY <1>1 DEF PhaseInv
<1>3. \A a \in Actor : Count(a) = 0
  <2>1. ASSUME NEW a \in Actor PROVE Count(a) = 0
    <3>1. Idle(a)
      BY <1>1, <1>2 DEF Actor
    <3> QED
      BY <3>1, CntType DEF Idle, Count, TypeInv
  <2> QED
    BY <2>1
<1>4. \A o : ~Retiring(o) /\ ~Claiming(o)
  BY <1>3 DEF Retiring, Claiming
<1> QED
  BY <1>2, <1>3, <1>4, EmptyIn DEF Swept, InBatch

(* What threads hold is live. *)
LEMMA HeldInvStep ==
  ASSUME TypeInv, NameInv, StrongInv, WeakInv, LinkInv, PlaceInv, BatchInv, RefInv, HeldInv,
         DecInv, ClaimsInv, RetireInv, ThreadInv, StringInv, UnweakInv, MarkInv, PhaseInv,
         TableInv, [Next]_vars
  PROVE  HeldInv'
<1> SUFFICES ASSUME NEW w \in Threads, NEW x \in held'[w] PROVE Live(x)'
  BY DEF HeldInv
<1>1. x \in Objs
  BY TypeStep DEF TypeInv
<1>2. CASE x \in held[w]
  <2>1. Live(x) /\ strong[x] >= 1
    BY <1>1, <1>2, Owned DEF HeldInv
  <2>2. ~(Sweep /\ x \in Unmarked)
    BY <1>2 DEF Sweep, Unmarked, MarkInv, InProgress, Roots
  <2> QED
    BY <1>1, <2>1, <2>2, LiveKept
<1>3. CASE x \notin held[w] /\ Gets(w, x)
  <2>1. CASE Born(x) /\ ~collecting'[x]
    BY <2>1 DEF Born, Live
  <2>2. CASE Live(x)
    <3>1. ~Dies(x)
      BY <1>3 DEF Dies, Claim, Sweep, values
    <3> QED
      BY <1>1, <2>2, <3>1, LiveStep
  <2> QED
    BY <1>3, <2>1, <2>2 DEF Gets
<1> QED
  BY <1>1, <1>2, <1>3, HeldStep

(* A referrer is taken by the reclaimer no later than its target. *)
LEMMA BehindStep ==
  ASSUME TypeInv, NameInv, StrongInv, WeakInv, LinkInv, PlaceInv, BatchInv, RefInv, HeldInv,
         DecInv, ClaimsInv, RetireInv, ThreadInv, StringInv, UnweakInv, MarkInv, PhaseInv,
         TableInv, NEW x \in Objs, NEW y \in Objs, NEW j \in Slots, ref[x][j] = y, Behind(x, y),
         Waiting(y), phase[x] = "built", [Next]_vars
  PROVE  Behind(x, y)'
<1>0. world.threads \subseteq Threads
  BY WorldThreads
<1>1. ASSUME NEW t \in Threads, NEW o \in Objs, New(t, o) PROVE Behind(x, y)'
  BY <1>1 DEF New, counts, claims, values, collector, reclaimer, strings, Build, Ready, Bump,
      Behind, InBatch, Queued, Swept
<1>2. ASSUME NEW t \in Threads, NEW u \in Threads, NEW o \in Objs, Share(t, u, o)
      PROVE  Behind(x, y)'
  BY <1>2 DEF Share, counts, claims, values, collector, reclaimer, strings, Ready, Bump, Behind,
      InBatch, Queued, Swept
<1>3. ASSUME NEW t \in Threads, NEW o \in Objs, Drop(t, o) PROVE Behind(x, y)'
  BY <1>3 DEF Drop, counts, claims, values, collector, reclaimer, strings, Ready, Behind,
      InBatch, Queued, Swept
<1>4. ASSUME NEW t \in Threads, NEW o \in Objs, NEW k \in Slots, NEW p \in Objs, Store(t, o, k, p)
      PROVE  Behind(x, y)'
  BY <1>4 DEF Store, counts, claims, values, collector, reclaimer, strings, Ready, Behind,
      InBatch, Queued, Swept
<1>5. ASSUME NEW t \in Threads, Put(t) PROVE Behind(x, y)'
  BY <1>5 DEF Put, counts, claims, values, collector, reclaimer, strings, Bump, Behind, InBatch,
      Queued, Swept
<1>6. ASSUME NEW t \in Threads, NEW o \in Objs, NEW k \in Slots, Load(t, o, k) PROVE Behind(x, y)'
  BY <1>6 DEF Load, counts, claims, values, collector, reclaimer, strings, Ready, Bump, Behind,
      InBatch, Queued, Swept
<1>7. ASSUME NEW t \in Threads, NEW o \in Objs, NEW v \in Versions, SaveVersion(t, o, v)
      PROVE  Behind(x, y)'
  BY <1>7 DEF SaveVersion, counts, claims, values, collector, reclaimer, strings, Build, Ready,
      Behind, InBatch, Queued, Swept
<1>8. ASSUME NEW t \in Threads, NEW o \in Objs, WeakRef(t, o) PROVE Behind(x, y)'
  BY <1>8 DEF WeakRef, counts, claims, values, collector, reclaimer, strings, Ready, Bump,
      Behind, InBatch, Queued, Swept
<1>9. ASSUME NEW t \in Threads, NEW o \in Objs, DropWeak(t, o) PROVE Behind(x, y)'
  BY <1>9 DEF DropWeak, counts, claims, values, collector, reclaimer, strings, FreedIfLast,
      Ready, Bump, Behind, InBatch, Queued, Swept
<1>10. ASSUME NEW t \in Threads, NEW o \in Objs, StrongRef(t, o) PROVE Behind(x, y)'
  BY <1>10 DEF StrongRef, counts, claims, values, collector, reclaimer, strings, Ready, Behind,
      InBatch, Queued, Swept
<1>11. ASSUME NEW t \in Threads, TryIncRef(t) PROVE Behind(x, y)'
  BY <1>11 DEF TryIncRef, counts, claims, values, collector, reclaimer, strings, Bump, Behind,
      InBatch, Queued, Swept
<1>12. ASSUME NEW t \in Threads, Recheck(t) PROVE Behind(x, y)'
  BY <1>12 DEF Recheck, counts, claims, values, collector, reclaimer, strings, Behind, InBatch,
      Queued, Swept
<1>13. ASSUME NEW t \in Threads, Intern(t) PROVE Behind(x, y)'
  BY <1>13 DEF Intern, counts, claims, values, collector, reclaimer, strings, Ready, Behind,
      InBatch, Queued, Swept
<1>14. ASSUME NEW t \in Threads, Lookup(t) PROVE Behind(x, y)'
  BY <1>14 DEF Lookup, counts, claims, values, collector, reclaimer, strings, Bump, Behind,
      InBatch, Queued, Swept
<1>15. ASSUME NEW t \in Threads, NEW s \in Strings, AllocString(t, s) PROVE Behind(x, y)'
  BY <1>15 DEF AllocString, counts, claims, values, collector, reclaimer, strings, Build,
      Behind, InBatch, Queued, Swept
<1>16. ASSUME NEW t \in Threads, PublishString(t) PROVE Behind(x, y)'
  BY <1>16 DEF PublishString, counts, claims, values, collector, reclaimer, strings, Behind,
      InBatch, Queued, Swept
<1>17. ASSUME NEW t \in Threads, Own(t) PROVE Behind(x, y)'
  BY <1>17 DEF Own, counts, claims, values, collector, reclaimer, strings, Bump, Behind,
      InBatch, Queued, Swept
<1>18. ASSUME NEW a \in Actor, DecRef(a) PROVE Behind(x, y)'
  BY <1>18 DEF DecRef, counts, claims, values, collector, reclaimer, strings, Bump, Behind,
      InBatch, Queued, Swept
<1>19. ASSUME NEW a \in Actor, Claim(a) PROVE Behind(x, y)'
  BY <1>19 DEF Claim, counts, claims, values, collector, reclaimer, strings, Behind, InBatch,
      Queued, Swept
<1>20. ASSUME NEW a \in Actor, DropOnce(a) PROVE Behind(x, y)'
  BY <1>20 DEF DropOnce, counts, claims, values, collector, reclaimer, strings, Behind, InBatch,
      Queued, Swept
<1>21. ASSUME NEW a \in Actor, Null(a) PROVE Behind(x, y)'
  BY <1>21 DEF Null, counts, claims, values, collector, reclaimer, strings, Behind, InBatch,
      Queued, Swept
<1>22. ASSUME NEW a \in Actor, Retire(a) PROVE Behind(x, y)'
  <2>1. Current(a) # y
    BY <1>22, RetireHere, Owned DEF Retire
  <2>2. ToSet(queue') = ToSet(queue) \cup {Current(a)}
    BY <1>22, RetireHere, AppendIn DEF Retire, TypeInv
  <2> QED
    BY <1>22, <2>1, <2>2 DEF Retire, collector, reclaimer, Behind, InBatch, Queued, Swept
<1>23. ASSUME Mark PROVE Behind(x, y)'
  BY <1>23 DEF Mark, counts, claims, values, collector, reclaimer, strings, Behind, InBatch,
      Queued, Swept
<1>24. ASSUME NEW o \in Objs, Trim(o) PROVE Behind(x, y)'
  BY <1>24 DEF Trim, counts, claims, values, collector, reclaimer, strings, Behind, InBatch,
      Queued, Swept
<1>25. ASSUME TrimDone PROVE Behind(x, y)'
  BY <1>25 DEF TrimDone, counts, claims, values, collector, reclaimer, strings, Behind, InBatch,
      Queued, Swept
<1>26. ASSUME Sweep PROVE Behind(x, y)'
  <2>1. ToSet(swept') = Unmarked
    BY <1>26, SetSeq DEF Sweep, Unmarked
  <2>2. y \notin Unmarked
    BY DEF Unmarked, Waiting
  <2> QED
    BY <1>26, <2>1, <2>2 DEF Sweep, reclaimer, Behind, InBatch, Queued, Swept
<1>27. ASSUME Publish PROVE Behind(x, y)'
  <2>1. ToSet(queue') = ToSet(queue) \cup ToSet(swept) /\ ToSet(swept') = {}
    BY <1>27, JoinIn, EmptyIn DEF Publish, TypeInv
  <2> QED
    BY <1>27, <2>1 DEF Publish, reclaimer, Behind, InBatch, Queued, Swept
<1>28. ASSUME Drain PROVE Behind(x, y)'
  <2>1. ToSet(batch) = {} /\ ToSet(queue') = {}
    BY <1>28, EmptyIn DEF Drain, PhaseInv
  <2> QED
    BY <1>28, <2>1 DEF Drain, collector, Behind, InBatch, Queued, Swept
<1>29. ASSUME DropNext PROVE Behind(x, y)'
  BY <1>29 DEF DropNext, counts, claims, values, collector, reclaimer, strings, Behind, InBatch,
      Queued, Swept
<1>30. ASSUME Hold PROVE Behind(x, y)'
  BY <1>30 DEF Hold, counts, claims, values, collector, reclaimer, strings, Behind, InBatch,
      Queued, Swept
<1>31. ASSUME DestroyNext PROVE Behind(x, y)'
  BY <1>31 DEF DestroyNext, counts, claims, values, collector, reclaimer, strings, Destroy,
      SelfErase, Behind, InBatch, Queued, Swept
<1>32. ASSUME NEW a \in Actor, Unweak(a) PROVE Behind(x, y)'
  BY <1>32 DEF Unweak, counts, claims, values, collector, reclaimer, strings, FreedIfLast, Bump,
      Behind, InBatch, Queued, Swept
<1>33. ASSUME ReleaseHolds PROVE Behind(x, y)'
  <2>1. ~ToVisit(x) /\ rec = "destroy"
    BY <1>33, EmptyIn DEF ReleaseHolds, ToVisit
  <2>2. x \notin finalize
    BY Bare, NoneParts
  <2>3. ~InBatch(x)
    BY <2>1, <2>2 DEF BatchInv, BatchOK
  <2>4. ToSet(batch') = {}
    BY <1>33, EmptyIn DEF ReleaseHolds
  <2> QED
    BY <1>33, <2>3, <2>4 DEF ReleaseHolds, collector, Behind, InBatch, Queued, Swept
<1>34. ASSUME NEW o \in Actors, FinalizeActor(o) PROVE Behind(x, y)'
  BY <1>34 DEF FinalizeActor, counts, claims, values, collector, reclaimer, strings, Bump,
      Behind, InBatch, Queued, Swept
<1>35. ASSUME UNCHANGED vars PROVE Behind(x, y)'
  BY <1>35 DEF vars, counts, claims, values, collector, reclaimer, strings, Behind, InBatch,
      Queued, Swept
<1> QED
  BY <1>0, <1>1, <1>2, <1>3, <1>4, <1>5, <1>6, <1>7, <1>8, <1>9, <1>10, <1>11, <1>12, <1>13,
      <1>14, <1>15, <1>16, <1>17, <1>18, <1>19, <1>20, <1>21, <1>22, <1>23, <1>24, <1>25, <1>26,
      <1>27, <1>28, <1>29, <1>30, <1>31, <1>32, <1>33, <1>34, <1>35, StepKinds

(* A referrer is not destroyed while it refers. *)
LEMMA StaysBuilt ==
  ASSUME TypeInv, NameInv, StrongInv, WeakInv, LinkInv, PlaceInv, BatchInv, RefInv, HeldInv,
         DecInv, ClaimsInv, RetireInv, ThreadInv, StringInv, UnweakInv, MarkInv, PhaseInv,
         TableInv, NEW x \in Objs, [Next]_vars, NEW j \in Slots, ref[x][j] # None,
         ref'[x][j] # None, phase[x] = "built"
  PROVE  phase'[x] = "built"
<1>1. phase'[x] = phase[x] \/ Ends(x)
  BY PhaseStep DEF Born
<1>2. ASSUME DestroyNext, x = Head(rest), x \notin Actors PROVE FALSE
  <2>1. ToVisit(x) /\ InBatch(x) /\ rec = "destroy"
    BY <1>2, HeadIn DEF DestroyNext, ToVisit, TypeInv, BatchInv, BatchOK
  <2>2. dropClaimed[x]
    BY <2>1 DEF BatchInv, BatchOK
  <2>3. j = "hidden"
    BY <2>2 DEF LinkInv, LinkOK, Slots
  <2> QED
    BY <1>2, <2>3, DestroyRef DEF Sets
<1>3. ~FinalizeActor(x)
  BY Bare DEF FinalizeActor
<1> QED
  BY <1>1, <1>2, <1>3 DEF Ends

(* What only the unreachable refer to is swept with them. *)
LEMMA SweptTogether ==
  ASSUME TypeInv, NameInv, StrongInv, WeakInv, LinkInv, PlaceInv, BatchInv, RefInv, HeldInv,
         DecInv, ClaimsInv, RetireInv, ThreadInv, StringInv, UnweakInv, MarkInv, PhaseInv,
         TableInv, NEW x \in Objs, Sweep, [Next]_vars, NEW j \in Slots, NEW p \in Unmarked,
         ref[x][j] = p, phase[x] = "built"
  PROVE  Dead(x)' /\ Waiting(p)' /\ Behind(x, p)'
<1>1. ToSet(swept') = Unmarked /\ Unmarked \subseteq Objs
  BY SetSeq DEF Sweep, Unmarked
<1>2. gc = "sweep" /\ InProgress
  BY DEF Sweep, InProgress
<1>3. x \notin marked
  <2>1. p \in Targets(x)
    BY NoneParts DEF Targets, Unmarked
  <2> QED
    BY <1>2, <2>1 DEF MarkInv, Closed, Unmarked
<1>4. p \in Objs /\ phase[p] = "built" /\ ~collecting[p] /\ phase' = phase
  BY DEF Sweep, Unmarked
<1>5. Waiting(p)'
  BY <1>1, <1>4 DEF Sweep, Waiting, Swept
<1>6. ~Queued(p) /\ ~InBatch(p) /\ UNCHANGED <<queue, batch>>
  BY <1>4, <1>2, Quiet DEF PlaceInv, PlaceOK, Dead, Sweep, reclaimer
<1>7. CASE Live(x)
  <2>1. x \in Unmarked
    BY <1>3, <1>7 DEF LinkInv, LinkOK, Unmarked, Live
  <2>2. Dead(x)' /\ Swept(x)'
    BY <2>1, <1>1, <1>4 DEF Sweep, Dead, Swept
  <2> QED
    BY <1>5, <1>6, <2>2 DEF Behind, Queued, InBatch
<1>8. CASE Dead(x)
  <2>1. Queued(x)
    BY <1>2, <1>8, Quiet, Bare, NoneParts DEF PlaceInv, PlaceOK, Unmarked
  <2>2. Dead(x)' /\ Queued(x)'
    BY <1>6, <1>8, <2>1, <1>4 DEF Sweep, Dead, Queued
  <2> QED
    BY <1>5, <1>6, <2>2 DEF Behind, Queued, InBatch
<1> QED
  BY <1>7, <1>8 DEF Live, Dead

(* The live refer to the live, the dead to what is not reclaimed before them. *)
LEMMA RefInvStep ==
  ASSUME TypeInv, NameInv, StrongInv, WeakInv, LinkInv, PlaceInv, BatchInv, RefInv, HeldInv,
         DecInv, ClaimsInv, RetireInv, ThreadInv, StringInv, UnweakInv, MarkInv, PhaseInv,
         TableInv, [Next]_vars
  PROVE  RefInv'
<1> SUFFICES ASSUME NEW x \in Objs, NEW j \in Slots, NEW p, p = ref'[x][j], p # None PROVE RefOK(x, p)'
  BY DEF RefInv
<1>1. p \in Objs
  BY TypeStep DEF TypeInv
<1>2. CASE p = ref[x][j]
  <2>1. RefOK(x, p) /\ strong[p] >= 1
    BY <1>1, <1>2, Owned DEF RefInv
  <2>2. phase[x] = "built" /\ phase'[x] = "built"
    BY <2>1, <1>2, StaysBuilt DEF RefOK
  <2>3. CASE Live(p)
    <3>1. Live(p)' \/ (Sweep /\ p \in Unmarked)
      BY <1>1, <2>1, <2>3, LiveKept
    <3>2. ASSUME Sweep, p \in Unmarked PROVE Dead(x)' /\ Waiting(p)' /\ Behind(x, p)'
      BY <1>2, <2>2, <3>2, SweptTogether
    <3> QED
      BY <2>2, <3>1, <3>2 DEF RefOK
  <2>4. CASE Dead(x) /\ Waiting(p) /\ Behind(x, p)
    <3>1. Dead(x)'
      BY <2>2, <2>4, CollectStep DEF Dead, Dies
    <3>2. ~(ReleaseHolds /\ InBatch(p))
      <4> SUFFICES ASSUME ReleaseHolds, InBatch(p) PROVE FALSE
        OBVIOUS
      <4>1. ~ToVisit(x) /\ rec = "destroy"
        BY EmptyIn DEF ReleaseHolds, ToVisit
      <4>2. x \in finalize
        BY <2>2, <2>4, <4>1 DEF Behind, BatchInv, BatchOK
      <4> QED
        BY <4>2, <1>2, Bare
    <3>3. Waiting(p)'
      BY <1>1, <2>4, <3>2, WaitingStep
    <3>4. Behind(x, p)'
      BY <1>1, <1>2, <2>2, <2>4, BehindStep
    <3> QED
      BY <2>2, <3>1, <3>3, <3>4 DEF RefOK
  <2> QED
    BY <2>1, <2>3, <2>4 DEF RefOK
<1>3. ASSUME NEW t \in Threads, Put(t), x = Head(todo[t]).into, p = Head(todo[t]).obj PROVE RefOK(x, p)'
  <2>1. Live(x) /\ Live(p)
    BY <1>3, PutHere DEF HeldInv, Put
  <2> QED
    BY <1>3, <2>1 DEF Put, RefOK, Live, claims
<1>4. ASSUME NEW t \in Threads, NEW o \in Objs, NEW v \in Versions, SaveVersion(t, o, v),
             (x = v /\ p = ref[o]["edge"]) \/ (x = o /\ p = v)
      PROVE  RefOK(x, p)'
  <2>1. v \in Objs /\ phase[v] = "none" /\ ~collecting[v]
    BY <1>4, NoneParts, NotBuilt DEF SaveVersion, Build
  <2>2. Live(o)
    BY <1>4 DEF SaveVersion, HeldInv
  <2>3. Live(o)' /\ Live(v)'
    BY <1>4, <2>1, <2>2 DEF SaveVersion, Build, Live, TypeInv
  <2>4. p = ref[o]["edge"] => Live(p)'
    <3> SUFFICES ASSUME p = ref[o]["edge"] PROVE Live(p)'
      OBVIOUS
    <3>1. Live(p)
      BY <2>2, LiveTarget DEF Slots
    <3> QED
      BY <1>1, <1>4, <2>1, <3>1 DEF SaveVersion, Build, Live, TypeInv
  <2> QED
    BY <1>4, <2>3, <2>4 DEF RefOK, Live
<1> QED
  BY <1>2, <1>3, <1>4, RefStep DEF Filled

-----------------------------------------------------------------------------
(* The steps in progress. *)

(* What the steps of an object name. *)
LEMMA StepName ==
  ASSUME TypeInv, NameInv, NEW b \in Actor, NEW m \in 1 .. Cnt(todo, b),
         Stp(todo, b, m).op \notin {"lookup", "alloc"}
  PROVE  Stp(todo, b, m).obj \in Objs
BY DEF NameInv, NameOK, Count, Step

(* Where a step of a given name comes from. *)
LEMMA OriginOf ==
  ASSUME TypeInv, NameInv, [Next]_vars, NEW b \in Actor, NEW m \in 1 .. Cnt(todo', b)
  PROVE  /\ Stp(todo', b, m).op = "claim" => Same(b, m) \/ NewClaim(b, m)
         /\ Stp(todo', b, m).op = "retire" => Same(b, m) \/ NewRetire(b, m)
         /\ Stp(todo', b, m).op = "publish" => Same(b, m) \/ NewPublish(b, m)
         /\ Stp(todo', b, m).op = "own" => Same(b, m) \/ NewOwn(b, m)
         /\ Stp(todo', b, m).op = "unweak" => Same(b, m) \/ NewUnweak(b, m)
<1>1. Same(b, m) \/ NewStep(b, m)
  BY Origin
<1>2. NewDec(b, m) => Stp(todo', b, m).op = "dec"
  BY DEF NewDec, Then1Is, PutOp
<1>3. NewClaim(b, m) => Stp(todo', b, m).op = "claim"
  BY DEF NewClaim, Then1Is, PutOp
<1>4. NewRetire(b, m) => Stp(todo', b, m).op = "retire"
  BY DEF NewRetire, Then1Is, PutOp
<1>5. NewNull(b, m) => Stp(todo', b, m).op = "null"
  BY DEF NewNull, Then1Is, PutOp
<1>6. NewDropOnce(b, m) => Stp(todo', b, m).op = "dropOnce"
  BY DEF NewDropOnce, Then1Is, PutOp
<1>7. NewPut(b, m) => Stp(todo', b, m).op = "put"
  BY DEF NewPut, Then1Is, PutOp
<1>8. NewTry(b, m) => Stp(todo', b, m).op = "try"
  BY DEF NewTry, Then1Is, PutOp
<1>9. NewRecheck(b, m) => Stp(todo', b, m).op = "recheck"
  BY DEF NewRecheck, Then1Is, PutOp
<1>10. NewLookup(b, m) => Stp(todo', b, m).op = "lookup"
  BY DEF NewLookup, Then1Is, PutOp
<1>11. NewAlloc(b, m) => Stp(todo', b, m).op = "alloc"
  BY DEF NewAlloc, Then1Is, PutOp
<1>12. NewPublish(b, m) => Stp(todo', b, m).op = "publish"
  BY DEF NewPublish, Then1Is, PutOp
<1>13. NewOwn(b, m) => Stp(todo', b, m).op = "own"
  BY DEF NewOwn, Then1Is, PutOp
<1>14. NewUnweak(b, m) => Stp(todo', b, m).op = "unweak"
  BY DEF NewUnweak, Then1Is, PutOp
<1> QED
  BY <1>1, <1>2, <1>3, <1>4, <1>5, <1>6, <1>7, <1>8, <1>9, <1>10, <1>11, <1>12, <1>13, <1>14 DEF NewStep

(* Who has a step to take is not idle, and no sweep is under way. *)
LEMMA Busy ==
  ASSUME TypeInv, MarkInv, PhaseInv, NEW b \in Actor, NEW m \in 1 .. Cnt(todo, b)
  PROVE  ~Idle(b) /\ ~Sweep
<1>1. ~Idle(b)
  <2>1. Cnt(todo, b) \in Nat /\ (todo[b] = <<>> <=> Cnt(todo, b) = 0)
    BY CntType DEF TypeInv
  <2> QED
    BY <2>1 DEF Idle
<1>2. ~Sweep
  BY Quiet DEF Sweep, Count
<1> QED
  BY <1>1, <1>2

(* What a step in progress owns stays live. *)
LEMMA OwnedKept ==
  ASSUME TypeInv, NameInv, StrongInv, WeakInv, LinkInv, PlaceInv, BatchInv, RefInv, HeldInv,
         DecInv, ClaimsInv, RetireInv, ThreadInv, StringInv, UnweakInv, MarkInv, PhaseInv,
         TableInv, NEW x \in Objs, [Next]_vars, NEW b \in Actor, NEW m \in 1 .. Cnt(todo, b),
         Live(x), strong[x] >= 1
  PROVE  Live(x)'
BY LiveKept, Busy

(* What the reclaimer works on is not given back meanwhile. *)
LEMMA WaitingKept ==
  ASSUME TypeInv, NameInv, StrongInv, WeakInv, LinkInv, PlaceInv, BatchInv, RefInv, HeldInv,
         DecInv, ClaimsInv, RetireInv, ThreadInv, StringInv, UnweakInv, MarkInv, PhaseInv,
         TableInv, NEW x \in Objs, [Next]_vars, NEW m \in 1 .. Cnt(todo, Rec), Waiting(x)
  PROVE  Waiting(x)'
<1>1. ~Idle(Rec)
  BY Busy, ActorParts
<1> QED
  BY <1>1, WaitingStep DEF ReleaseHolds

(* Who has no owner gets none, unless it is built or made by a thread. *)
LEMMA ZeroKept ==
  ASSUME TypeInv, NameInv, StrongInv, WeakInv, LinkInv, PlaceInv, BatchInv, RefInv, HeldInv,
         DecInv, ClaimsInv, RetireInv, ThreadInv, StringInv, UnweakInv, MarkInv, PhaseInv,
         TableInv, NEW x \in Objs, [Next]_vars, strong[x] = 0
  PROVE  \/ strong'[x] = 0
         \/ Born(x) /\ ~collecting'[x]
         \/ /\ Live(x) /\ Live(x)' /\ ~Claiming(x)
            /\ \E t \in Threads : (Own(t) \/ PublishString(t)) /\ x = Current(t)
<1>1. strong'[x] \in Int
  BY TypeStep DEF TypeInv
<1>2. strong'[x] >= 0
  <2>1. ASSUME NEW a \in Actor, DecRef(a), x = Current(a) PROVE FALSE
    BY <2>1, DecHere DEF DecRef
  <2> QED
    BY <2>1, FallStep DEF Falls
<1> QED
  BY <1>1, <1>2, RiseStep DEF Rises

(* A reference that a step will release is to what is live, or to what the reclaimer holds. *)
LEMMA DecInvStep ==
  ASSUME TypeInv, NameInv, StrongInv, WeakInv, LinkInv, PlaceInv, BatchInv, RefInv, HeldInv,
         DecInv, ClaimsInv, RetireInv, ThreadInv, StringInv, UnweakInv, MarkInv, PhaseInv,
         TableInv, [Next]_vars
  PROVE  \A b \in Actor : \A m \in 1 .. Cnt(todo', b) : DecOK(b, m)'
<1> SUFFICES ASSUME NEW b \in Actor, NEW m \in 1 .. Cnt(todo', b)
             PROVE  DecOK(b, m)'
  OBVIOUS
<1>1. CASE Same(b, m)
  <2>0. PICK o : o = Stp(todo, b, m).obj
    OBVIOUS
  <2>1. m \in 1 .. Cnt(todo, b) /\ Stp(todo', b, m) = Stp(todo, b, m) /\ m \in 1 .. Count(b)
    BY <1>1 DEF Same, Count
  <2>2. DecOK(b, m) /\ Step(b, m) = Stp(todo, b, m)
    BY <2>1 DEF DecInv, Step
  <2>3. ASSUME Stp(todo, b, m).op \in {"dec", "recheck"} PROVE o \in Objs /\ strong[o] >= 1
    <3>1. o \in Objs
      BY <2>0, <2>1, <2>3, StepName
    <3> QED
      BY <3>1, <2>0, <2>1, <2>2, <2>3, OwnedBy
  <2>4. ASSUME Stp(todo, b, m).op = "dec" PROVE Live(o)' \/ (b = Rec /\ Waiting(o)')
    <3>1. Live(o) \/ (b = Rec /\ Waiting(o))
      BY <2>0, <2>2, <2>4 DEF DecOK
    <3>2. Live(o) => Live(o)'
      BY <2>1, <2>3, <2>4, OwnedKept
    <3>3. b = Rec /\ Waiting(o) => Waiting(o)'
      BY <2>1, <2>3, <2>4, WaitingKept
    <3> QED
      BY <3>1, <3>2, <3>3
  <2>5. ASSUME Stp(todo, b, m).op = "recheck" PROVE b \in Threads /\ m = 1 /\ Live(o)' /\ o \notin held'[b]
    <3>1. b \in Threads /\ m = 1 /\ Live(o) /\ o \notin held[b]
      BY <2>0, <2>2, <2>5 DEF DecOK
    <3>2. Live(o)'
      BY <2>1, <2>3, <2>5, <3>1, OwnedKept
    <3>3. ~Idle(b)
      BY <2>1, Busy
    <3>4. ~Recheck(b)
      <4> SUFFICES ASSUME Recheck(b) PROVE FALSE
        OBVIOUS
      <4>1. Count(b) = 1
        BY <3>1, RecheckHere DEF Recheck
      <4> QED
        BY <1>1, <3>1, <4>1, TakenGone DEF Takes, Count
    <3>5. ~Own(b)
      <4> SUFFICES ASSUME Own(b) PROVE FALSE
        OBVIOUS
      <4>1. Step(b, Count(b)).op = "own"
        BY Here DEF Own
      <4>2. Count(b) = 1 \/ Step(b, 1).op = "dec"
        BY <3>1, OwnHere DEF Own, Has
      <4> QED
        BY <2>2, <2>5, <3>1, <4>1, <4>2
    <3>6. o \in held'[b] => o \in held[b] \/ Gets(b, o)
      BY <3>1, <2>3, <2>5, HeldStep
    <3> QED
      BY <3>1, <3>2, <3>3, <3>4, <3>5, <3>6 DEF Gets
  <2>6. o = Stp(todo', b, m).obj
    BY <2>0, <2>1
  <2> QED
    BY <2>1, <2>4, <2>5, <2>6 DEF DecOK, Step
<1>2. CASE NewDec(b, m)
  <2>1. PICK x \in Objs :
          /\ Then1Is(b, m, "dec", x)
          /\ \/ b \in Threads /\ \E o \in Objs : Drop(b, o) /\ x = o
             \/ b \in Threads /\ \E o \in Objs, k \in Slots, p \in Objs : Store(b, o, k, p) /\ x = ref[o][k]
             \/ b \in Threads /\ Recheck(b) /\ ~linked[Current(b)] /\ x = Current(b)
             \/ b \in Threads /\ Lookup(b) /\ Found /\ x = table
             \/ b \in Threads /\ PublishString(b) /\ Found /\ x \in {table, Current(b)}
             \/ DropOnce(b) /\ ~dropClaimed[Current(b)] /\ \E k \in {"edge", "version"} : x = ref[Current(b)][k]
             \/ b = Gc /\ \E o \in Objs : Trim(o) /\ x = ref[o]["version"]
             \/ b = Rec /\ DestroyNext /\ Head(rest) \notin Actors /\ x = ref[Head(rest)]["hidden"]
    BY <1>2 DEF NewDec
  <2> SUFFICES Live(x)' \/ (b = Rec /\ Waiting(x)')
    BY <2>1 DEF DecOK, Step, Then1Is
  <2>2. ASSUME NEW o \in Objs, b \in Threads, Drop(b, o), x = o PROVE Live(x)'
    BY <2>2 DEF Drop, HeldInv, Live, claims
  <2>3. ASSUME NEW o \in Objs, NEW k \in Slots, NEW p \in Objs, b \in Threads, Store(b, o, k, p), x = ref[o][k]
        PROVE  Live(x)'
    <3>1. Live(o) /\ ref[o][k] # None
      BY <2>3, NoneParts DEF Store, HeldInv
    <3>2. Live(x)
      BY <2>3, <3>1, LiveTarget
    <3> QED
      BY <2>3, <3>2 DEF Store, Live, claims
  <2>4. ASSUME b \in Threads, Recheck(b), x = Current(b) PROVE Live(x)'
    <3>1. Live(x)
      BY <2>4, RecheckHere DEF Recheck
    <3> QED
      BY <2>4, <3>1 DEF Recheck, Live, claims
  <2>5. ASSUME Lookup(b), Found, x = table PROVE Live(x)'
    <3>1. Live(x)
      BY <2>5, FoundLive
    <3> QED
      BY <2>5, <3>1 DEF Lookup, Live, claims
  <2>6. ASSUME b \in Threads, PublishString(b), Found, x \in {table, Current(b)} PROVE Live(x)'
    <3>1. Live(x)
      BY <2>6, FoundLive, PublishNow DEF PublishString, Fresh
    <3> QED
      BY <2>6, <3>1 DEF PublishString, Live, claims
  <2>7. ASSUME NEW k \in {"edge", "version"}, DropOnce(b), x = ref[Current(b)][k]
        PROVE  Live(x)' \/ (b = Rec /\ Waiting(x)')
    <3> DEFINE c == Current(b)
    <3>1. c \in Objs /\ k \in Slots /\ x # None
      BY <2>7, DropOnceRef, NoneParts DEF Slots
    <3>2. RefOK(c, x)
      BY <2>7, <3>1 DEF RefInv
    <3>3. CASE Live(x)
      BY <2>7, <3>3 DEF DropOnce, Live
    <3>4. CASE Waiting(x) /\ Behind(c, x)
      <4>1. Doing(b, "dropOnce")
        BY <2>7 DEF DropOnce
      <4>2. CASE Retiring(c)
        BY <3>1, <3>4, <4>2, RetiringParts DEF Behind, Waiting
      <4>3. CASE b = Rec
        <5>1. Count(b) \in 1 .. Cnt(todo, Rec)
          BY <4>1, <4>3, Here DEF Count
        <5> QED
          BY <4>3, <3>4, <5>1, WaitingKept
      <4> QED
        BY <4>1, <4>2, <4>3, DropOnceHere
    <3> QED
      BY <3>2, <3>3, <3>4 DEF RefOK
  <2>8. ASSUME NEW o \in Objs, Trim(o), x = ref[o]["version"] PROVE Live(x)'
    <3>1. ref[o]["version"] # None /\ ~collecting[o] /\ "version" \in Slots
      BY <2>8 DEF Trim, Slots
    <3>2. Live(o)
      BY <3>1 DEF RefInv, RefOK, Live
    <3>3. Live(x)
      BY <2>8, <3>1, <3>2, LiveTarget
    <3> QED
      BY <2>8, <3>3 DEF Trim, Live, claims
  <2>9. ASSUME b = Rec, DestroyNext, x = ref[Head(rest)]["hidden"] PROVE Live(x)' \/ (b = Rec /\ Waiting(x)')
    <3>1. Head(rest) \in Objs /\ ToVisit(Head(rest)) /\ "hidden" \in Slots /\ x # None
      BY <2>9, HeadIn, NoneParts DEF DestroyNext, ToVisit, TypeInv, Slots
    <3>2. Dead(Head(rest)) /\ RefOK(Head(rest), x)
      BY <2>9, <3>1 DEF BatchInv, BatchOK, RefInv
    <3>3. Live(x) => Live(x)'
      BY <2>9, <3>1, <3>2 DEF DestroyNext, Destroy, Live, Dead, TypeInv, claims
    <3>4. Waiting(x) => Waiting(x)'
      BY <2>9, WaitingStep DEF DestroyNext, ReleaseHolds
    <3> QED
      BY <2>9, <3>2, <3>3, <3>4 DEF RefOK
  <2> QED
    BY <2>1, <2>2, <2>3, <2>4, <2>5, <2>6, <2>7, <2>8, <2>9
<1>3. CASE NewClaim(b, m)
  BY <1>3 DEF NewClaim, Then1Is, PutOp, DecOK, Step
<1>4. CASE NewRetire(b, m)
  BY <1>4 DEF NewRetire, Then1Is, PutOp, DecOK, Step
<1>5. CASE NewNull(b, m)
  BY <1>5 DEF NewNull, Then1Is, PutOp, DecOK, Step
<1>6. CASE NewDropOnce(b, m)
  BY <1>6 DEF NewDropOnce, Then1Is, PutOp, DecOK, Step
<1>7. CASE NewPut(b, m)
  BY <1>7 DEF NewPut, Then1Is, PutOp, DecOK, Step
<1>8. CASE NewTry(b, m)
  BY <1>8 DEF NewTry, Then1Is, PutOp, DecOK, Step
<1>9. CASE NewRecheck(b, m)
  <2>0. PICK o : o = Current(b)
    OBVIOUS
  <2>1. b \in Threads /\ TryIncRef(b) /\ strong[o] > 0 /\ m = Cnt(todo, b) /\ Then1Is(b, m, "recheck", o)
    BY <1>9, <2>0 DEF NewRecheck
  <2>2. o \in Objs /\ Count(b) = 1 /\ o \notin held[b] /\ (Live(o) \/ strong[o] = 0)
    BY <2>0, <2>1, TryHere DEF TryIncRef
  <2>3. Live(o)
    BY <2>1, <2>2 DEF TypeInv
  <2>4. Live(o)' /\ held' = held
    BY <2>1, <2>3 DEF TryIncRef, Live, claims, values
  <2> QED
    BY <2>1, <2>2, <2>4 DEF DecOK, Step, Then1Is, Count
<1>10. CASE NewLookup(b, m)
  BY <1>10 DEF NewLookup, Then1Is, PutOp, DecOK, Step
<1>11. CASE NewAlloc(b, m)
  BY <1>11 DEF NewAlloc, Then1Is, PutOp, DecOK, Step
<1>12. CASE NewPublish(b, m)
  BY <1>12 DEF NewPublish, Then1Is, PutOp, DecOK, Step
<1>13. CASE NewOwn(b, m)
  BY <1>13 DEF NewOwn, Then1Is, PutOp, DecOK, Step
<1>14. CASE NewUnweak(b, m)
  BY <1>14 DEF NewUnweak, Then1Is, PutOp, DecOK, Step
<1> QED
  BY Origin, <1>1, <1>2, <1>3, <1>4, <1>5, <1>6, <1>7, <1>8, <1>9, <1>10, <1>11, <1>12, <1>13,
      <1>14 DEF NewStep

(* Who is being claimed has no owner, and one actor claims it. *)
LEMMA ClaimsInvStep ==
  ASSUME TypeInv, NameInv, StrongInv, WeakInv, LinkInv, PlaceInv, BatchInv, RefInv, HeldInv,
         DecInv, ClaimsInv, RetireInv, ThreadInv, StringInv, UnweakInv, MarkInv, PhaseInv,
         TableInv, [Next]_vars
  PROVE  \A b \in Actor : \A m \in 1 .. Cnt(todo', b) : ClaimOK(b, m)'
<1> SUFFICES ASSUME NEW b \in Actor, NEW m \in 1 .. Cnt(todo', b)
             PROVE  ClaimOK(b, m)'
  OBVIOUS
<1>1. CASE Same(b, m)
  <2>0. PICK o : o = Stp(todo, b, m).obj
    OBVIOUS
  <2>1. m \in 1 .. Cnt(todo, b) /\ Stp(todo', b, m) = Stp(todo, b, m) /\ m \in 1 .. Count(b)
    BY <1>1 DEF Same, Count
  <2>2. ClaimOK(b, m) /\ Step(b, m) = Stp(todo, b, m)
    BY <2>1 DEF ClaimsInv, Step
  <2> SUFFICES ASSUME Stp(todo, b, m).op = "claim"
               PROVE  /\ m = Cnt(todo', b) /\ strong'[o] = 0 /\ (Live(o)' \/ (b = Rec /\ Waiting(o)'))
                      /\ \A c \in Actor : \A n \in 1 .. Cnt(todo', c) : Then1Is(c, n, "claim", o) => c = b
    BY <2>0, <2>1 DEF ClaimOK, Has, Count, Step, Then1Is
  <2>3. o \in Objs /\ Has(b, m, "claim", o) /\ Claiming(o)
    BY <2>0, <2>1, StepName DEF Has, Step, Claiming
  <2>4. /\ m = Cnt(todo, b) /\ strong[o] = 0 /\ (Live(o) \/ (b = Rec /\ Waiting(o)))
        /\ \A c \in Actor : \A n \in 1 .. Count(c) : Has(c, n, "claim", o) => c = b
    BY <2>0, <2>2 DEF ClaimOK, Count
  <2>5. m = Cnt(todo', b)
    BY <1>1, <2>4 DEF Same
  <2>6. strong'[o] = 0
    <3>1. ~Born(o)
      BY <2>3, <2>4, NotBuilt DEF Born, Live, Waiting
    <3> QED
      BY <2>3, <2>4, <3>1, ZeroKept
  <2>7. Live(o) => Live(o)'
    <3>1. ASSUME NEW a \in Actor, Claim(a), o = Current(a) PROVE FALSE
      <4>1. a = b
        BY <2>1, <2>3, <3>1, ClaimHere DEF Claim
      <4> QED
        BY <1>1, <2>4, <3>1, <4>1, TakenGone DEF Takes
    <3>2. ~Dies(o)
      BY <2>1, <3>1, Busy DEF Dies
    <3> QED
      BY <2>3, <3>2, LiveStep
  <2>8. b = Rec /\ Waiting(o) => Waiting(o)'
    BY <2>1, <2>3, WaitingKept
  <2>9. ASSUME NEW c \in Actor, NEW n \in 1 .. Cnt(todo', c), Then1Is(c, n, "claim", o) PROVE c = b
    <3>1. CASE Same(c, n)
      BY <2>4, <2>9, <3>1 DEF Same, Has, Count, Step, Then1Is
    <3>2. CASE NewClaim(c, n)
      BY <2>3, <2>4, <2>9, <3>2, DecHere DEF NewClaim, DecRef, Then1Is
    <3> QED
      BY <2>9, <3>1, <3>2, OriginOf DEF Then1Is
  <2> QED
    BY <2>4, <2>5, <2>6, <2>7, <2>8, <2>9
<1>2. CASE NewDec(b, m)
  BY <1>2 DEF NewDec, Then1Is, PutOp, ClaimOK, Step
<1>3. CASE NewClaim(b, m)
  <2>0. PICK o : o = Current(b)
    OBVIOUS
  <2>1. /\ DecRef(b) /\ strong[o] <= 1 /\ m = Cnt(todo, b) /\ m = Cnt(todo', b)
        /\ Then1Is(b, m, "claim", o)
    BY <1>3, <2>0 DEF NewClaim
  <2> SUFFICES /\ strong'[o] = 0 /\ (Live(o)' \/ (b = Rec /\ Waiting(o)'))
               /\ \A c \in Actor : \A n \in 1 .. Cnt(todo', c) : Then1Is(c, n, "claim", o) => c = b
    BY <2>1 DEF ClaimOK, Has, Count, Step, Then1Is
  <2>2. /\ o \in Objs /\ strong[o] \in Nat /\ strong[o] >= 1
        /\ Live(o) \/ (b = Rec /\ Waiting(o))
    BY <2>0, <2>1, DecHere DEF DecRef
  <2>3. strong' = [strong EXCEPT ![o] = strong[o] + (-1)]
    BY <2>0, <2>1 DEF DecRef, Bump
  <2>4. strong'[o] = 0
    BY <2>1, <2>2, <2>3 DEF TypeInv
  <2>5. Live(o) => Live(o)'
    BY <2>1 DEF DecRef, Live, claims
  <2>6. b = Rec /\ Waiting(o) => Waiting(o)'
    <3>1. Count(b) \in 1 .. Cnt(todo, b)
      BY <2>1, Here DEF DecRef, Count
    <3> QED
      BY <2>2, <3>1, WaitingKept
  <2>7. ASSUME NEW c \in Actor, NEW n \in 1 .. Cnt(todo', c), Then1Is(c, n, "claim", o) PROVE c = b
    <3>1. CASE Same(c, n)
      <4>1. Claiming(o)
        BY <2>7, <3>1 DEF Same, Claiming, Has, Count, Step, Then1Is
      <4> QED
        BY <2>2, <4>1, ClaimingParts
    <3>2. CASE NewClaim(c, n) /\ c # b
      <4>1. DecRef(c) /\ n = Cnt(todo, c) /\ Stp(todo', c, n).op = "claim"
        BY <3>2 DEF NewClaim, Then1Is
      <4>2. Stp(todo, c, Cnt(todo, c)).op = "dec" /\ Cnt(todo, c) \in Nat \ {0}
        BY <4>1, DecRefShape DEF Now
      <4>3. Stp(todo', c, n) = Stp(todo, c, n)
        BY <2>1, <3>2, <4>1, <4>2, DecRefShape DEF After0, After1, Keeps
      <4> QED
        BY <4>1, <4>2, <4>3
    <3> QED
      BY <2>7, <3>1, <3>2, OriginOf DEF Then1Is
  <2> QED
    BY <2>2, <2>4, <2>5, <2>6, <2>7
<1>4. CASE NewRetire(b, m)
  BY <1>4 DEF NewRetire, Then1Is, PutOp, ClaimOK, Step
<1>5. CASE NewNull(b, m)
  BY <1>5 DEF NewNull, Then1Is, PutOp, ClaimOK, Step
<1>6. CASE NewDropOnce(b, m)
  BY <1>6 DEF NewDropOnce, Then1Is, PutOp, ClaimOK, Step
<1>7. CASE NewPut(b, m)
  BY <1>7 DEF NewPut, Then1Is, PutOp, ClaimOK, Step
<1>8. CASE NewTry(b, m)
  BY <1>8 DEF NewTry, Then1Is, PutOp, ClaimOK, Step
<1>9. CASE NewRecheck(b, m)
  BY <1>9 DEF NewRecheck, Then1Is, PutOp, ClaimOK, Step
<1>10. CASE NewLookup(b, m)
  BY <1>10 DEF NewLookup, Then1Is, PutOp, ClaimOK, Step
<1>11. CASE NewAlloc(b, m)
  BY <1>11 DEF NewAlloc, Then1Is, PutOp, ClaimOK, Step
<1>12. CASE NewPublish(b, m)
  BY <1>12 DEF NewPublish, Then1Is, PutOp, ClaimOK, Step
<1>13. CASE NewOwn(b, m)
  BY <1>13 DEF NewOwn, Then1Is, PutOp, ClaimOK, Step
<1>14. CASE NewUnweak(b, m)
  BY <1>14 DEF NewUnweak, Then1Is, PutOp, ClaimOK, Step
<1> QED
  BY Origin, <1>1, <1>2, <1>3, <1>4, <1>5, <1>6, <1>7, <1>8, <1>9, <1>10, <1>11, <1>12, <1>13,
      <1>14 DEF NewStep

(* While the reclaimer has a step to take its batch stays. *)
LEMMA BusyReclaimer ==
  ASSUME TypeInv, PhaseInv, ~Idle(Rec), [Next]_vars
  PROVE  UNCHANGED <<rec, batch, rest>>
<1>0. world.threads \subseteq Threads
  BY WorldThreads
<1>1. ASSUME NEW t \in Threads, NEW o \in Objs, New(t, o) PROVE UNCHANGED <<rec, batch, rest>>
  BY <1>1 DEF New, counts, claims, values, collector, reclaimer, strings, Build, Ready, Bump
<1>2. ASSUME NEW t \in Threads, NEW u \in Threads, NEW o \in Objs, Share(t, u, o)
      PROVE  UNCHANGED <<rec, batch, rest>>
  BY <1>2 DEF Share, counts, claims, values, collector, reclaimer, strings, Ready, Bump
<1>3. ASSUME NEW t \in Threads, NEW o \in Objs, Drop(t, o) PROVE UNCHANGED <<rec, batch, rest>>
  BY <1>3 DEF Drop, counts, claims, values, collector, reclaimer, strings, Ready
<1>4. ASSUME NEW t \in Threads, NEW o \in Objs, NEW k \in Slots, NEW p \in Objs, Store(t, o, k, p)
      PROVE  UNCHANGED <<rec, batch, rest>>
  BY <1>4 DEF Store, counts, claims, values, collector, reclaimer, strings, Ready
<1>5. ASSUME NEW t \in Threads, Put(t) PROVE UNCHANGED <<rec, batch, rest>>
  BY <1>5 DEF Put, counts, claims, values, collector, reclaimer, strings, Bump
<1>6. ASSUME NEW t \in Threads, NEW o \in Objs, NEW k \in Slots, Load(t, o, k)
      PROVE  UNCHANGED <<rec, batch, rest>>
  BY <1>6 DEF Load, counts, claims, values, collector, reclaimer, strings, Ready, Bump
<1>7. ASSUME NEW t \in Threads, NEW o \in Objs, NEW v \in Versions, SaveVersion(t, o, v)
      PROVE  UNCHANGED <<rec, batch, rest>>
  BY <1>7 DEF SaveVersion, counts, claims, values, collector, reclaimer, strings, Build, Ready
<1>8. ASSUME NEW t \in Threads, NEW o \in Objs, WeakRef(t, o) PROVE UNCHANGED <<rec, batch, rest>>
  BY <1>8 DEF WeakRef, counts, claims, values, collector, reclaimer, strings, Ready, Bump
<1>9. ASSUME NEW t \in Threads, NEW o \in Objs, DropWeak(t, o)
      PROVE  UNCHANGED <<rec, batch, rest>>
  BY <1>9 DEF DropWeak, counts, claims, values, collector, reclaimer, strings, FreedIfLast,
      Ready, Bump
<1>10. ASSUME NEW t \in Threads, NEW o \in Objs, StrongRef(t, o)
      PROVE  UNCHANGED <<rec, batch, rest>>
  BY <1>10 DEF StrongRef, counts, claims, values, collector, reclaimer, strings, Ready
<1>11. ASSUME NEW t \in Threads, TryIncRef(t) PROVE UNCHANGED <<rec, batch, rest>>
  BY <1>11 DEF TryIncRef, counts, claims, values, collector, reclaimer, strings, Bump
<1>12. ASSUME NEW t \in Threads, Recheck(t) PROVE UNCHANGED <<rec, batch, rest>>
  BY <1>12 DEF Recheck, counts, claims, values, collector, reclaimer, strings
<1>13. ASSUME NEW t \in Threads, Intern(t) PROVE UNCHANGED <<rec, batch, rest>>
  BY <1>13 DEF Intern, counts, claims, values, collector, reclaimer, strings, Ready
<1>14. ASSUME NEW t \in Threads, Lookup(t) PROVE UNCHANGED <<rec, batch, rest>>
  BY <1>14 DEF Lookup, counts, claims, values, collector, reclaimer, strings, Bump
<1>15. ASSUME NEW t \in Threads, NEW s \in Strings, AllocString(t, s)
      PROVE  UNCHANGED <<rec, batch, rest>>
  BY <1>15 DEF AllocString, counts, claims, values, collector, reclaimer, strings, Build
<1>16. ASSUME NEW t \in Threads, PublishString(t) PROVE UNCHANGED <<rec, batch, rest>>
  BY <1>16 DEF PublishString, counts, claims, values, collector, reclaimer, strings
<1>17. ASSUME NEW t \in Threads, Own(t) PROVE UNCHANGED <<rec, batch, rest>>
  BY <1>17 DEF Own, counts, claims, values, collector, reclaimer, strings, Bump
<1>18. ASSUME NEW a \in Actor, DecRef(a) PROVE UNCHANGED <<rec, batch, rest>>
  BY <1>18 DEF DecRef, counts, claims, values, collector, reclaimer, strings, Bump
<1>19. ASSUME NEW a \in Actor, Claim(a) PROVE UNCHANGED <<rec, batch, rest>>
  BY <1>19 DEF Claim, counts, claims, values, collector, reclaimer, strings
<1>20. ASSUME NEW a \in Actor, DropOnce(a) PROVE UNCHANGED <<rec, batch, rest>>
  BY <1>20 DEF DropOnce, counts, claims, values, collector, reclaimer, strings
<1>21. ASSUME NEW a \in Actor, Null(a) PROVE UNCHANGED <<rec, batch, rest>>
  BY <1>21 DEF Null, counts, claims, values, collector, reclaimer, strings
<1>22. ASSUME NEW a \in Actor, Retire(a) PROVE UNCHANGED <<rec, batch, rest>>
  BY <1>22 DEF Retire, counts, claims, values, collector, reclaimer, strings
<1>23. ASSUME Mark PROVE UNCHANGED <<rec, batch, rest>>
  BY <1>23 DEF Mark, counts, claims, values, collector, reclaimer, strings
<1>24. ASSUME NEW o \in Objs, Trim(o) PROVE UNCHANGED <<rec, batch, rest>>
  BY <1>24 DEF Trim, counts, claims, values, collector, reclaimer, strings
<1>25. ASSUME TrimDone PROVE UNCHANGED <<rec, batch, rest>>
  BY <1>25 DEF TrimDone, counts, claims, values, collector, reclaimer, strings
<1>26. ASSUME Sweep PROVE UNCHANGED <<rec, batch, rest>>
  BY <1>26 DEF Sweep, counts, claims, values, collector, reclaimer, strings
<1>27. ASSUME Publish PROVE UNCHANGED <<rec, batch, rest>>
  BY <1>27 DEF Publish, counts, claims, values, collector, reclaimer, strings
<1>28. ASSUME Drain PROVE UNCHANGED <<rec, batch, rest>>
  BY <1>28 DEF Drain, PhaseInv
<1>29. ASSUME DropNext PROVE UNCHANGED <<rec, batch, rest>>
  BY <1>29 DEF DropNext, counts, claims, values, collector, reclaimer, strings
<1>30. ASSUME Hold PROVE UNCHANGED <<rec, batch, rest>>
  BY <1>30 DEF Hold, counts, claims, values, collector, reclaimer, strings
<1>31. ASSUME DestroyNext PROVE UNCHANGED <<rec, batch, rest>>
  BY <1>31 DEF DestroyNext, counts, claims, values, collector, reclaimer, strings, Destroy,
      SelfErase
<1>32. ASSUME NEW a \in Actor, Unweak(a) PROVE UNCHANGED <<rec, batch, rest>>
  BY <1>32 DEF Unweak, counts, claims, values, collector, reclaimer, strings, FreedIfLast, Bump
<1>33. ASSUME ReleaseHolds PROVE UNCHANGED <<rec, batch, rest>>
  BY <1>33 DEF ReleaseHolds, counts, claims, values, collector, reclaimer, strings
<1>34. ASSUME NEW o \in Actors, FinalizeActor(o) PROVE UNCHANGED <<rec, batch, rest>>
  BY <1>34 DEF FinalizeActor, counts, claims, values, collector, reclaimer, strings, Bump
<1>35. ASSUME UNCHANGED vars PROVE UNCHANGED <<rec, batch, rest>>
  BY <1>35 DEF vars, counts, claims, values, collector, reclaimer, strings
<1> QED
  BY <1>0, <1>1, <1>2, <1>3, <1>4, <1>5, <1>6, <1>7, <1>8, <1>9, <1>10, <1>11, <1>12, <1>13,
      <1>14, <1>15, <1>16, <1>17, <1>18, <1>19, <1>20, <1>21, <1>22, <1>23, <1>24, <1>25, <1>26,
      <1>27, <1>28, <1>29, <1>30, <1>31, <1>32, <1>33, <1>34, <1>35, StepKinds

(* A dead object that is being retired stays so. *)
LEMMA DeadStays ==
  ASSUME TypeInv, NameInv, StrongInv, WeakInv, LinkInv, PlaceInv, BatchInv, RefInv, HeldInv,
         DecInv, ClaimsInv, RetireInv, ThreadInv, StringInv, UnweakInv, MarkInv, PhaseInv,
         TableInv, NEW x \in Objs, [Next]_vars, Retiring(x)
  PROVE  Dead(x)' /\ strong'[x] = 0
<1>1. Dead(x) /\ strong[x] = 0 /\ ~InBatch(x) /\ x \notin finalize
  BY RetiringParts
<1>2. ~(DestroyNext /\ x = Head(rest))
  <2> SUFFICES ASSUME DestroyNext, x = Head(rest) PROVE FALSE
    OBVIOUS
  <2>1. ToVisit(x)
    BY HeadIn DEF DestroyNext, ToVisit, TypeInv
  <2> QED
    BY <1>1, <2>1 DEF BatchInv, BatchOK
<1>3. ~FinalizeActor(x)
  BY <1>1 DEF FinalizeActor
<1>4. phase'[x] = phase[x]
  BY <1>1, <1>2, <1>3, PhaseStep DEF Born, Ends, Dead
<1>5. collecting'[x]
  BY <1>1, CollectStep DEF Dies, Dead
<1>6. strong'[x] = 0
  BY <1>1, ZeroKept DEF Born, Dead, Live
<1> QED
  BY <1>1, <1>4, <1>5, <1>6 DEF Dead

(* The steps under one that stays stay. *)
LEMMA BelowStays ==
  ASSUME TypeInv, NameInv, [Next]_vars, NEW b \in Actor, NEW m, Same(b, m),
         m - 1 \in 1 .. Cnt(todo, b), m \in Nat
  PROVE  m - 1 \in 1 .. Cnt(todo', b) /\ Stp(todo', b, m - 1) = Stp(todo, b, m - 1)
<1>1. Cnt(todo, b) \in Nat /\ m - 1 # Cnt(todo, b)
  <2>1. Cnt(todo, b) \in Nat
    BY CntType DEF TypeInv
  <2> QED
    BY <2>1 DEF Same
<1> QED
  BY <1>1, Persist DEF Stays

(* Who is being retired is dead, and one actor retires it once. *)
LEMMA RetireInvStep ==
  ASSUME TypeInv, NameInv, StrongInv, WeakInv, LinkInv, PlaceInv, BatchInv, RefInv, HeldInv,
         DecInv, ClaimsInv, RetireInv, ThreadInv, StringInv, UnweakInv, MarkInv, PhaseInv,
         TableInv, [Next]_vars
  PROVE  \A b \in Actor : \A m \in 1 .. Cnt(todo', b) : RetireOK(b, m)'
<1> SUFFICES ASSUME NEW b \in Actor, NEW m \in 1 .. Cnt(todo', b)
             PROVE  RetireOK(b, m)'
  OBVIOUS
<1>1. CASE Same(b, m)
  <2>0. PICK o : o = Stp(todo, b, m).obj
    OBVIOUS
  <2>1. /\ m \in 1 .. Cnt(todo, b) /\ Stp(todo', b, m) = Stp(todo, b, m) /\ m \in 1 .. Count(b)
        /\ Stp(todo', b, m).obj = o /\ m \in Nat
    BY <1>1, <2>0 DEF Same, Count
  <2>2. RetireOK(b, m) /\ Step(b, m) = Stp(todo, b, m)
    BY <2>1 DEF RetireInv, Step
  <2>3. ASSUME Stp(todo, b, m).op = "retire"
        PROVE  /\ Dead(o)' /\ strong'[o] = 0
               /\ \A c \in Actor : \A n \in 1 .. Cnt(todo', c) : Then1Is(c, n, "retire", o) => c = b /\ n = m
    <3>1. o \in Objs /\ Has(b, m, "retire", o) /\ Retiring(o)
      BY <2>0, <2>1, <2>3, StepName DEF Has, Step, Retiring
    <3>2. Dead(o) /\ \A c \in Actor : \A n \in 1 .. Count(c) : Has(c, n, "retire", o) => c = b /\ n = m
      BY <2>0, <2>2, <2>3 DEF RetireOK
    <3>3. Dead(o)' /\ strong'[o] = 0
      BY <3>1, DeadStays
    <3>4. ASSUME NEW c \in Actor, NEW n \in 1 .. Cnt(todo', c), Then1Is(c, n, "retire", o) PROVE c = b /\ n = m
      <4>1. CASE Same(c, n)
        BY <3>2, <3>4, <4>1 DEF Same, Has, Count, Step, Then1Is
      <4>2. CASE NewRetire(c, n)
        BY <3>2, <3>4, <4>2 DEF NewRetire, Then1Is, Dead
      <4> QED
        BY <3>4, <4>1, <4>2, OriginOf DEF Then1Is
    <3> QED
      BY <3>3, <3>4
  <2>4. ASSUME Stp(todo, b, m).op = "null" PROVE Then1Is(b, m - 1, "retire", o)
    <3>1. m - 1 \in 1 .. Cnt(todo, b) /\ Stp(todo, b, m - 1).op = "retire" /\ Stp(todo, b, m - 1).obj = o
      BY <2>0, <2>2, <2>4 DEF RetireOK, Has, Count, Step
    <3> QED
      BY <1>1, <2>1, <3>1, BelowStays DEF Then1Is
  <2>5. ASSUME Stp(todo, b, m).op = "dropOnce"
        PROVE  \/ Then1Is(b, m - 1, "null", o)
               \/ b = Rec /\ m = 1 /\ rec' = "drop" /\ InBatch(o)' /\ ~ToVisit(o)'
    <3>1. CASE Has(b, m - 1, "null", o)
      <4>1. m - 1 \in 1 .. Cnt(todo, b) /\ Stp(todo, b, m - 1).op = "null" /\ Stp(todo, b, m - 1).obj = o
        BY <3>1 DEF Has, Count, Step
      <4> QED
        BY <1>1, <2>1, <4>1, BelowStays DEF Then1Is
    <3>2. CASE b = Rec /\ m = 1 /\ rec = "drop" /\ InBatch(o) /\ ~ToVisit(o)
      <4>1. ~Idle(Rec)
        BY <2>1, <3>2, Busy
      <4> QED
        BY <3>2, <4>1, BusyReclaimer DEF InBatch, ToVisit
    <3> QED
      BY <2>0, <2>2, <2>5, <3>1, <3>2 DEF RetireOK
  <2> QED
    BY <2>1, <2>3, <2>4, <2>5 DEF RetireOK, Has, Count, Step, Then1Is
<1>2. CASE NewDec(b, m)
  BY <1>2 DEF NewDec, Then1Is, PutOp, RetireOK, Step
<1>3. CASE NewClaim(b, m)
  BY <1>3 DEF NewClaim, Then1Is, PutOp, RetireOK, Step
<1>4. CASE NewRetire(b, m)
  <2>0. PICK o : o = Current(b)
    OBVIOUS
  <2>1. Claim(b) /\ ~collecting[o] /\ m = Cnt(todo, b) /\ Then1Is(b, m, "retire", o) /\ Doing(b, "claim")
    BY <1>4, <2>0 DEF NewRetire, Claim
  <2> SUFFICES /\ Dead(o)' /\ strong'[o] = 0
               /\ \A c \in Actor : \A n \in 1 .. Cnt(todo', c) : Then1Is(c, n, "retire", o) => c = b /\ n = m
    BY <2>1 DEF RetireOK, Has, Count, Step, Then1Is
  <2>2. /\ o \in Objs /\ strong[o] = 0 /\ Live(o)
        /\ \A c \in Actor : \A n \in 1 .. Count(c) : Has(c, n, "claim", o) => c = b
    BY <2>0, <2>1, ClaimHere DEF Waiting
  <2>3. Dead(o)' /\ strong'[o] = 0
    BY <2>0, <2>1, <2>2 DEF Claim, Dead, Live, counts, TypeInv
  <2>4. ASSUME NEW c \in Actor, NEW n \in 1 .. Cnt(todo', c), Then1Is(c, n, "retire", o) PROVE c = b /\ n = m
    <3>1. CASE Same(c, n)
      <4>1. n \in 1 .. Count(c) /\ Step(c, n).op = "retire" /\ Step(c, n).obj = o
        BY <2>4, <3>1 DEF Same, Count, Step, Then1Is
      <4>2. Dead(o)
        BY <4>1 DEF RetireInv, RetireOK
      <4> QED
        BY <2>2, <4>2 DEF Live, Dead
    <3>2. CASE NewRetire(c, n)
      <4>1. Claim(c) /\ n = Cnt(todo, c) /\ Current(c) = o
        BY <2>4, <3>2 DEF NewRetire, Then1Is
      <4>2. Count(c) \in 1 .. Count(c) /\ Has(c, Count(c), "claim", o)
        BY <4>1, Here DEF Claim, Has
      <4> QED
        BY <2>1, <2>2, <4>1, <4>2
    <3> QED
      BY <2>4, <3>1, <3>2, OriginOf DEF Then1Is
  <2> QED
    BY <2>3, <2>4
<1>5. CASE NewNull(b, m)
  BY <1>5 DEF NewNull, RetireOK, Has, Count, Step, Then1Is
<1>6. CASE NewDropOnce(b, m)
  <2>1. CASE Claim(b) /\ Then1Is(b, m, "dropOnce", Current(b)) /\ Then1Is(b, m - 1, "null", Current(b))
    BY <2>1 DEF RetireOK, Has, Count, Step, Then1Is
  <2>2. CASE b = Rec /\ DropNext /\ m = 1 /\ Then1Is(b, m, "dropOnce", Head(rest))
    <3>0. PICK o : o = Head(rest)
      OBVIOUS
    <3>1. o \in ToSet(rest) /\ o \in Objs /\ o \notin ToSet(rest') /\ rec = "drop" /\ rec' = rec /\ batch' = batch
      <4>1. rest \in Seq(Objs) /\ rest # <<>> /\ Once(rest) /\ rest' = Tail(rest)
        BY <2>2 DEF DropNext, TypeInv, BatchInv, Once
      <4> QED
        BY <2>2, <3>0, <4>1, HeadIn, TailOnce, ListParts DEF DropNext
    <3>2. InBatch(o)
      BY <3>1 DEF BatchInv, BatchOK, ToVisit
    <3>3. rec' = "drop" /\ InBatch(o)' /\ ~ToVisit(o)'
      BY <3>1, <3>2 DEF InBatch, ToVisit
    <3> QED
      BY <2>2, <3>0, <3>3 DEF RetireOK, Step, Then1Is
  <2> QED
    BY <1>6, <2>1, <2>2 DEF NewDropOnce
<1>7. CASE NewPut(b, m)
  BY <1>7 DEF NewPut, Then1Is, PutOp, RetireOK, Step
<1>8. CASE NewTry(b, m)
  BY <1>8 DEF NewTry, Then1Is, PutOp, RetireOK, Step
<1>9. CASE NewRecheck(b, m)
  BY <1>9 DEF NewRecheck, Then1Is, PutOp, RetireOK, Step
<1>10. CASE NewLookup(b, m)
  BY <1>10 DEF NewLookup, Then1Is, PutOp, RetireOK, Step
<1>11. CASE NewAlloc(b, m)
  BY <1>11 DEF NewAlloc, Then1Is, PutOp, RetireOK, Step
<1>12. CASE NewPublish(b, m)
  BY <1>12 DEF NewPublish, Then1Is, PutOp, RetireOK, Step
<1>13. CASE NewOwn(b, m)
  BY <1>13 DEF NewOwn, Then1Is, PutOp, RetireOK, Step
<1>14. CASE NewUnweak(b, m)
  BY <1>14 DEF NewUnweak, Then1Is, PutOp, RetireOK, Step
<1> QED
  BY Origin, <1>1, <1>2, <1>3, <1>4, <1>5, <1>6, <1>7, <1>8, <1>9, <1>10, <1>11, <1>12, <1>13,
      <1>14 DEF NewStep

(* A thread gives up a weak Value at the beginning of an operation. *)
LEMMA WeakLoss ==
  ASSUME TypeInv, NEW x \in Objs, NEW w \in Threads, [Next]_vars
  PROVE  x \in weakHeld[w] => x \in weakHeld'[w] \/ Idle(w)
<1>0. world.threads \subseteq Threads
  BY WorldThreads
<1>1. ASSUME NEW t \in Threads, NEW o \in Objs, New(t, o)
      PROVE  x \in weakHeld[w] => x \in weakHeld'[w] \/ Idle(w)
  BY <1>1 DEF New, counts, claims, values, collector, reclaimer, strings, Build, Ready, Bump
<1>2. ASSUME NEW t \in Threads, NEW u \in Threads, NEW o \in Objs, Share(t, u, o)
      PROVE  x \in weakHeld[w] => x \in weakHeld'[w] \/ Idle(w)
  BY <1>2 DEF Share, counts, claims, values, collector, reclaimer, strings, Ready, Bump
<1>3. ASSUME NEW t \in Threads, NEW o \in Objs, Drop(t, o)
      PROVE  x \in weakHeld[w] => x \in weakHeld'[w] \/ Idle(w)
  BY <1>3 DEF Drop, counts, claims, values, collector, reclaimer, strings, Ready
<1>4. ASSUME NEW t \in Threads, NEW o \in Objs, NEW k \in Slots, NEW p \in Objs, Store(t, o, k, p)
      PROVE  x \in weakHeld[w] => x \in weakHeld'[w] \/ Idle(w)
  BY <1>4 DEF Store, counts, claims, values, collector, reclaimer, strings, Ready
<1>5. ASSUME NEW t \in Threads, Put(t) PROVE x \in weakHeld[w] => x \in weakHeld'[w] \/ Idle(w)
  BY <1>5 DEF Put, counts, claims, values, collector, reclaimer, strings, Bump
<1>6. ASSUME NEW t \in Threads, NEW o \in Objs, NEW k \in Slots, Load(t, o, k)
      PROVE  x \in weakHeld[w] => x \in weakHeld'[w] \/ Idle(w)
  BY <1>6 DEF Load, counts, claims, values, collector, reclaimer, strings, Ready, Bump
<1>7. ASSUME NEW t \in Threads, NEW o \in Objs, NEW v \in Versions, SaveVersion(t, o, v)
      PROVE  x \in weakHeld[w] => x \in weakHeld'[w] \/ Idle(w)
  BY <1>7 DEF SaveVersion, counts, claims, values, collector, reclaimer, strings, Build, Ready
<1>8. ASSUME NEW t \in Threads, NEW o \in Objs, WeakRef(t, o)
      PROVE  x \in weakHeld[w] => x \in weakHeld'[w] \/ Idle(w)
  BY <1>8 DEF WeakRef, Ready, TypeInv
<1>9. ASSUME NEW t \in Threads, NEW o \in Objs, DropWeak(t, o)
      PROVE  x \in weakHeld[w] => x \in weakHeld'[w] \/ Idle(w)
  BY <1>9 DEF DropWeak, Ready, TypeInv
<1>10. ASSUME NEW t \in Threads, NEW o \in Objs, StrongRef(t, o)
      PROVE  x \in weakHeld[w] => x \in weakHeld'[w] \/ Idle(w)
  BY <1>10 DEF StrongRef, counts, claims, values, collector, reclaimer, strings, Ready
<1>11. ASSUME NEW t \in Threads, TryIncRef(t)
      PROVE  x \in weakHeld[w] => x \in weakHeld'[w] \/ Idle(w)
  BY <1>11 DEF TryIncRef, counts, claims, values, collector, reclaimer, strings, Bump
<1>12. ASSUME NEW t \in Threads, Recheck(t)
      PROVE  x \in weakHeld[w] => x \in weakHeld'[w] \/ Idle(w)
  BY <1>12 DEF Recheck, counts, claims, values, collector, reclaimer, strings
<1>13. ASSUME NEW t \in Threads, Intern(t)
      PROVE  x \in weakHeld[w] => x \in weakHeld'[w] \/ Idle(w)
  BY <1>13 DEF Intern, counts, claims, values, collector, reclaimer, strings, Ready
<1>14. ASSUME NEW t \in Threads, Lookup(t)
      PROVE  x \in weakHeld[w] => x \in weakHeld'[w] \/ Idle(w)
  BY <1>14 DEF Lookup, counts, claims, values, collector, reclaimer, strings, Bump
<1>15. ASSUME NEW t \in Threads, NEW s \in Strings, AllocString(t, s)
      PROVE  x \in weakHeld[w] => x \in weakHeld'[w] \/ Idle(w)
  BY <1>15 DEF AllocString, counts, claims, values, collector, reclaimer, strings, Build
<1>16. ASSUME NEW t \in Threads, PublishString(t)
      PROVE  x \in weakHeld[w] => x \in weakHeld'[w] \/ Idle(w)
  BY <1>16 DEF PublishString, counts, claims, values, collector, reclaimer, strings
<1>17. ASSUME NEW t \in Threads, Own(t) PROVE x \in weakHeld[w] => x \in weakHeld'[w] \/ Idle(w)
  BY <1>17 DEF Own, counts, claims, values, collector, reclaimer, strings, Bump
<1>18. ASSUME NEW a \in Actor, DecRef(a) PROVE x \in weakHeld[w] => x \in weakHeld'[w] \/ Idle(w)
  BY <1>18 DEF DecRef, counts, claims, values, collector, reclaimer, strings, Bump
<1>19. ASSUME NEW a \in Actor, Claim(a) PROVE x \in weakHeld[w] => x \in weakHeld'[w] \/ Idle(w)
  BY <1>19 DEF Claim, counts, claims, values, collector, reclaimer, strings
<1>20. ASSUME NEW a \in Actor, DropOnce(a)
      PROVE  x \in weakHeld[w] => x \in weakHeld'[w] \/ Idle(w)
  BY <1>20 DEF DropOnce, counts, claims, values, collector, reclaimer, strings
<1>21. ASSUME NEW a \in Actor, Null(a) PROVE x \in weakHeld[w] => x \in weakHeld'[w] \/ Idle(w)
  BY <1>21 DEF Null, counts, claims, values, collector, reclaimer, strings
<1>22. ASSUME NEW a \in Actor, Retire(a) PROVE x \in weakHeld[w] => x \in weakHeld'[w] \/ Idle(w)
  BY <1>22 DEF Retire, counts, claims, values, collector, reclaimer, strings
<1>23. ASSUME Mark PROVE x \in weakHeld[w] => x \in weakHeld'[w] \/ Idle(w)
  BY <1>23 DEF Mark, counts, claims, values, collector, reclaimer, strings
<1>24. ASSUME NEW o \in Objs, Trim(o) PROVE x \in weakHeld[w] => x \in weakHeld'[w] \/ Idle(w)
  BY <1>24 DEF Trim, counts, claims, values, collector, reclaimer, strings
<1>25. ASSUME TrimDone PROVE x \in weakHeld[w] => x \in weakHeld'[w] \/ Idle(w)
  BY <1>25 DEF TrimDone, counts, claims, values, collector, reclaimer, strings
<1>26. ASSUME Sweep PROVE x \in weakHeld[w] => x \in weakHeld'[w] \/ Idle(w)
  BY <1>26 DEF Sweep, counts, claims, values, collector, reclaimer, strings
<1>27. ASSUME Publish PROVE x \in weakHeld[w] => x \in weakHeld'[w] \/ Idle(w)
  BY <1>27 DEF Publish, counts, claims, values, collector, reclaimer, strings
<1>28. ASSUME Drain PROVE x \in weakHeld[w] => x \in weakHeld'[w] \/ Idle(w)
  BY <1>28 DEF Drain, counts, claims, values, collector, reclaimer, strings
<1>29. ASSUME DropNext PROVE x \in weakHeld[w] => x \in weakHeld'[w] \/ Idle(w)
  BY <1>29 DEF DropNext, counts, claims, values, collector, reclaimer, strings
<1>30. ASSUME Hold PROVE x \in weakHeld[w] => x \in weakHeld'[w] \/ Idle(w)
  BY <1>30 DEF Hold, counts, claims, values, collector, reclaimer, strings
<1>31. ASSUME DestroyNext PROVE x \in weakHeld[w] => x \in weakHeld'[w] \/ Idle(w)
  BY <1>31 DEF DestroyNext, counts, claims, values, collector, reclaimer, strings, Destroy,
      SelfErase
<1>32. ASSUME NEW a \in Actor, Unweak(a) PROVE x \in weakHeld[w] => x \in weakHeld'[w] \/ Idle(w)
  BY <1>32 DEF Unweak, counts, claims, values, collector, reclaimer, strings, FreedIfLast, Bump
<1>33. ASSUME ReleaseHolds PROVE x \in weakHeld[w] => x \in weakHeld'[w] \/ Idle(w)
  BY <1>33 DEF ReleaseHolds, counts, claims, values, collector, reclaimer, strings
<1>34. ASSUME NEW o \in Actors, FinalizeActor(o)
      PROVE  x \in weakHeld[w] => x \in weakHeld'[w] \/ Idle(w)
  BY <1>34 DEF FinalizeActor, counts, claims, values, collector, reclaimer, strings, Bump
<1>35. ASSUME UNCHANGED vars PROVE x \in weakHeld[w] => x \in weakHeld'[w] \/ Idle(w)
  BY <1>35 DEF vars, counts, claims, values, collector, reclaimer, strings
<1> QED
  BY <1>0, <1>1, <1>2, <1>3, <1>4, <1>5, <1>6, <1>7, <1>8, <1>9, <1>10, <1>11, <1>12, <1>13,
      <1>14, <1>15, <1>16, <1>17, <1>18, <1>19, <1>20, <1>21, <1>22, <1>23, <1>24, <1>25, <1>26,
      <1>27, <1>28, <1>29, <1>30, <1>31, <1>32, <1>33, <1>34, <1>35, StepKinds

(* The step that stores is not among those that stay. *)
LEMMA PutDone ==
  ASSUME TypeInv, NameInv, ThreadInv, NEW t \in Threads, Put(t), NEW m \in 1 .. Cnt(todo, t),
         Same(t, m)
  PROVE  FALSE
<1>1. t \in Actor /\ Count(t) \in 1 .. Count(t) /\ Step(t, Count(t)).op = "put"
  BY ActorParts, Here DEF Put
<1>2. ThreadOK(t, Count(t))
  BY <1>1 DEF ThreadInv
<1>3. Count(t) = 1
  BY <1>1, <1>2 DEF ThreadOK
<1>4. m = Cnt(todo, t)
  BY <1>3 DEF Count
<1> QED
  BY <1>1, <1>4, TakenGone DEF Takes

(* A store under way keeps its slot empty and its objects held; a promotion its weak Value. *)
LEMMA ThreadInvStep ==
  ASSUME TypeInv, NameInv, StrongInv, WeakInv, LinkInv, PlaceInv, BatchInv, RefInv, HeldInv,
         DecInv, ClaimsInv, RetireInv, ThreadInv, StringInv, UnweakInv, MarkInv, PhaseInv,
         TableInv, [Next]_vars
  PROVE  \A b \in Actor : \A m \in 1 .. Cnt(todo', b) : ThreadOK(b, m)'
<1> SUFFICES ASSUME NEW b \in Actor, NEW m \in 1 .. Cnt(todo', b)
             PROVE  ThreadOK(b, m)'
  OBVIOUS
<1>1. CASE Same(b, m)
  <2>0. PICK o : o = Stp(todo, b, m).obj
    OBVIOUS
  <2>1. m \in 1 .. Cnt(todo, b) /\ Stp(todo', b, m) = Stp(todo, b, m) /\ m \in 1 .. Count(b) /\ ~Idle(b)
    <3>1. m \in 1 .. Cnt(todo, b)
      BY <1>1 DEF Same
    <3> QED
      BY <1>1, <3>1, Busy DEF Same, Count
  <2>2. ThreadOK(b, m) /\ Step(b, m) = Stp(todo, b, m)
    BY <2>1 DEF ThreadInv, Step
  <2>3. CASE Stp(todo, b, m).op = "put"
    <3>0. PICK q, k : q = Stp(todo, b, m).into /\ k = Stp(todo, b, m).slot
      OBVIOUS
    <3>1. /\ b = Writer /\ m = 1 /\ o \in held[b] /\ q \in held[b] /\ ref[q][k] = None
          /\ k = "hidden" => q \in Natives
      BY <2>0, <2>2, <2>3, <3>0 DEF ThreadOK
    <3>2. b \in Threads /\ o \in Objs /\ q \in Objs /\ k \in Slots
      <4>1. NameOK(b, m)
        BY <2>1 DEF NameInv
      <4> QED
        BY <2>0, <2>2, <2>3, <3>0, <3>1, <4>1, ActorParts DEF NameOK, Slots
    <3>3. o \in held'[b] /\ q \in held'[b]
      BY <2>1, <3>1, <3>2, HeldLoss
    <3>4. ~Filled(q, k)
      <4>1. ASSUME NEW t \in Threads, Put(t) PROVE FALSE
        <5>1. t = b
          BY <3>1, <4>1, PutHere DEF Put
        <5> QED
          BY <1>1, <2>1, <4>1, <5>1, PutDone
      <4>2. ASSUME NEW t \in Threads, NEW p \in Objs, NEW v \in Versions, SaveVersion(t, p, v) PROVE FALSE
        BY <2>1, <3>1, <4>2 DEF SaveVersion, Ready
      <4> QED
        BY <4>1, <4>2 DEF Filled
    <3>5. ref'[q][k] = None
      BY <3>1, <3>2, <3>4, RefStep
    <3> QED
      BY <2>0, <2>1, <2>3, <3>0, <3>1, <3>3, <3>5 DEF ThreadOK, Step
  <2>4. CASE Stp(todo, b, m).op = "try"
    <3>1. /\ b \in Threads /\ m = 1 /\ o \in weakHeld[b] /\ o \notin held[b]
          /\ Live(o) \/ strong[o] = 0
      BY <2>0, <2>2, <2>4 DEF ThreadOK
    <3>2. o \in Objs
      BY <2>0, <2>1, <2>4, StepName
    <3>3. o \in weakHeld'[b]
      BY <2>1, <3>1, <3>2, WeakLoss
    <3>4. o \notin held'[b]
      <4>1. ~Recheck(b)
        <5> SUFFICES ASSUME Recheck(b) PROVE FALSE
          OBVIOUS
        <5>1. Count(b) = 1 /\ Step(b, Count(b)).op = "recheck"
          BY <3>1, RecheckHere, Here DEF Recheck
        <5> QED
          BY <2>2, <2>4, <3>1, <5>1
      <4>2. ~Own(b)
        <5> SUFFICES ASSUME Own(b) PROVE FALSE
          OBVIOUS
        <5>1. Step(b, Count(b)).op = "own" /\ (Count(b) = 1 \/ Step(b, 1).op = "dec")
          BY <3>1, Here, OwnHere DEF Own, Has
        <5> QED
          BY <2>2, <2>4, <3>1, <5>1
      <4> QED
        BY <2>1, <3>1, <3>2, <4>1, <4>2, HeldStep DEF Gets
    <3>5. Live(o)' \/ strong'[o] = 0
      <4>1. CASE strong[o] = 0
        BY <3>2, <4>1, ZeroKept DEF Born, Live
      <4>2. CASE Live(o) /\ strong[o] # 0
        <5>1. strong[o] \in Nat
          BY <3>2, Owned
        <5> QED
          BY <2>1, <3>2, <4>2, <5>1, OwnedKept
      <4> QED
        BY <3>1, <4>1, <4>2
    <3> QED
      BY <2>0, <2>1, <2>4, <3>1, <3>3, <3>4, <3>5 DEF ThreadOK, Step
  <2> QED
    BY <2>1, <2>3, <2>4 DEF ThreadOK, Step
<1>2. CASE NewDec(b, m)
  BY <1>2 DEF NewDec, Then1Is, PutOp, ThreadOK, Step
<1>3. CASE NewClaim(b, m)
  BY <1>3 DEF NewClaim, Then1Is, PutOp, ThreadOK, Step
<1>4. CASE NewRetire(b, m)
  BY <1>4 DEF NewRetire, Then1Is, PutOp, ThreadOK, Step
<1>5. CASE NewNull(b, m)
  BY <1>5 DEF NewNull, Then1Is, PutOp, ThreadOK, Step
<1>6. CASE NewDropOnce(b, m)
  BY <1>6 DEF NewDropOnce, Then1Is, PutOp, ThreadOK, Step
<1>7. CASE NewPut(b, m)
  <2>1. PICK o \in Objs, k \in {"edge", "hidden"}, p \in Objs :
          /\ b \in Threads /\ Store(b, o, k, p) /\ m = 1 /\ m \in 1 .. Cnt(todo', b)
          /\ Stp(todo', b, m) = PutOp(p, o, k)
    BY <1>7 DEF NewPut
  <2>2. b = Writer /\ o \in held'[b] /\ p \in held'[b] /\ (k = "hidden" => o \in Natives)
    BY <2>1 DEF Store, MayStore
  <2>3. k \in Slots
    BY DEF Slots
  <2>4. ref'[o][k] = None
    BY <2>1, <2>3, StoreRef DEF Sets
  <2> QED
    BY <2>1, <2>2, <2>4 DEF ThreadOK, Step, PutOp
<1>8. CASE NewTry(b, m)
  <2>1. PICK o \in Objs : b \in Threads /\ StrongRef(b, o) /\ m = 1 /\ Then1Is(b, m, "try", o)
    BY <1>8 DEF NewTry
  <2>2. /\ o \in weakHeld'[b] /\ o \notin held'[b] /\ linked[o] /\ strong' = strong
        /\ UNCHANGED <<phase, collecting>>
    BY <2>1 DEF StrongRef, values, counts, claims
  <2>3. Live(o) \/ strong[o] = 0
    <3>1. LinkOK(o)
      BY DEF LinkInv
    <3> QED
      BY <2>2, <3>1 DEF LinkOK, Live, TypeInv
  <2>4. Live(o)' \/ strong'[o] = 0
    BY <2>2, <2>3 DEF Live
  <2> QED
    BY <2>1, <2>2, <2>4 DEF ThreadOK, Step, Then1Is
<1>9. CASE NewRecheck(b, m)
  BY <1>9 DEF NewRecheck, Then1Is, PutOp, ThreadOK, Step
<1>10. CASE NewLookup(b, m)
  BY <1>10 DEF NewLookup, Then1Is, PutOp, ThreadOK, Step
<1>11. CASE NewAlloc(b, m)
  BY <1>11 DEF NewAlloc, Then1Is, PutOp, ThreadOK, Step
<1>12. CASE NewPublish(b, m)
  BY <1>12 DEF NewPublish, Then1Is, PutOp, ThreadOK, Step
<1>13. CASE NewOwn(b, m)
  BY <1>13 DEF NewOwn, Then1Is, PutOp, ThreadOK, Step
<1>14. CASE NewUnweak(b, m)
  BY <1>14 DEF NewUnweak, Then1Is, PutOp, ThreadOK, Step
<1> QED
  BY Origin, <1>1, <1>2, <1>3, <1>4, <1>5, <1>6, <1>7, <1>8, <1>9, <1>10, <1>11, <1>12, <1>13,
      <1>14 DEF NewStep

(* The shared weak count is released by the reclaimer, for an object of its batch. *)
LEMMA UnweakInvStep ==
  ASSUME TypeInv, NameInv, StrongInv, WeakInv, LinkInv, PlaceInv, BatchInv, RefInv, HeldInv,
         DecInv, ClaimsInv, RetireInv, ThreadInv, StringInv, UnweakInv, MarkInv, PhaseInv,
         TableInv, [Next]_vars
  PROVE  \A b \in Actor : \A m \in 1 .. Cnt(todo', b) : UnweakOK(b, m)'
<1> SUFFICES ASSUME NEW b \in Actor, NEW m \in 1 .. Cnt(todo', b)
             PROVE  UnweakOK(b, m)'
  OBVIOUS
<1>1. CASE Same(b, m)
  <2>0. PICK o : o = Stp(todo, b, m).obj
    OBVIOUS
  <2>1. m \in 1 .. Cnt(todo, b) /\ Stp(todo', b, m) = Stp(todo, b, m) /\ m \in 1 .. Count(b) /\ ~Idle(b)
    <3>1. m \in 1 .. Cnt(todo, b)
      BY <1>1 DEF Same
    <3> QED
      BY <1>1, <3>1, Busy DEF Same, Count
  <2>2. UnweakOK(b, m) /\ Step(b, m) = Stp(todo, b, m)
    BY <2>1 DEF UnweakInv, Step
  <2> SUFFICES ASSUME Stp(todo, b, m).op = "unweak"
               PROVE  b = Rec /\ m = 1 /\ rec' = "destroy" /\ phase'[o] = "destroyed" /\ InBatch(o)'
    BY <2>0, <2>1 DEF UnweakOK, Step
  <2>3. b = Rec /\ m = 1 /\ rec = "destroy" /\ phase[o] = "destroyed" /\ InBatch(o) /\ o \in Objs
    BY <2>0, <2>1, <2>2, StepName DEF UnweakOK
  <2>4. UNCHANGED <<rec, batch>>
    BY <2>1, <2>3, BusyReclaimer
  <2>5. weak[o] # 1
    <3>1. Shared(o) = 1 /\ Kept(o) = 1
      BY <2>0, <2>1, <2>2, <2>3 DEF Shared, Kept, Unweaking, Has
    <3>2. IsFiniteSet(WeakBy(o)) /\ weak[o] = Cardinality(WeakBy(o)) + Shared(o) + Kept(o)
      BY <2>3 DEF WeakInv, WeakOK
    <3>3. Cardinality(WeakBy(o)) \in Nat
      BY <3>2, FS_CardinalityType
    <3> QED
      BY <3>1, <3>2, <3>3
  <2>6. phase'[o] = "destroyed"
    BY <2>3, <2>5, PhaseStep DEF Born, Ends
  <2> QED
    BY <2>3, <2>4, <2>6 DEF InBatch
<1>2. CASE NewDec(b, m)
  BY <1>2 DEF NewDec, Then1Is, PutOp, UnweakOK, Step
<1>3. CASE NewClaim(b, m)
  BY <1>3 DEF NewClaim, Then1Is, PutOp, UnweakOK, Step
<1>4. CASE NewRetire(b, m)
  BY <1>4 DEF NewRetire, Then1Is, PutOp, UnweakOK, Step
<1>5. CASE NewNull(b, m)
  BY <1>5 DEF NewNull, Then1Is, PutOp, UnweakOK, Step
<1>6. CASE NewDropOnce(b, m)
  BY <1>6 DEF NewDropOnce, Then1Is, PutOp, UnweakOK, Step
<1>7. CASE NewPut(b, m)
  BY <1>7 DEF NewPut, Then1Is, PutOp, UnweakOK, Step
<1>8. CASE NewTry(b, m)
  BY <1>8 DEF NewTry, Then1Is, PutOp, UnweakOK, Step
<1>9. CASE NewRecheck(b, m)
  BY <1>9 DEF NewRecheck, Then1Is, PutOp, UnweakOK, Step
<1>10. CASE NewLookup(b, m)
  BY <1>10 DEF NewLookup, Then1Is, PutOp, UnweakOK, Step
<1>11. CASE NewAlloc(b, m)
  BY <1>11 DEF NewAlloc, Then1Is, PutOp, UnweakOK, Step
<1>12. CASE NewPublish(b, m)
  BY <1>12 DEF NewPublish, Then1Is, PutOp, UnweakOK, Step
<1>13. CASE NewOwn(b, m)
  BY <1>13 DEF NewOwn, Then1Is, PutOp, UnweakOK, Step
<1>14. CASE NewUnweak(b, m)
  <2>0. PICK o : o = Head(rest)
    OBVIOUS
  <2>1. b = Rec /\ DestroyNext /\ o \notin Actors /\ m = 1 /\ Then1Is(b, m, "unweak", o)
    BY <1>14, <2>0 DEF NewUnweak
  <2>2. o \in Objs /\ ToVisit(o)
    BY <2>0, <2>1, HeadIn DEF DestroyNext, ToVisit, TypeInv
  <2>3. InBatch(o)
    BY <2>2 DEF BatchInv, BatchOK
  <2>4. rec' = "destroy" /\ InBatch(o)' /\ phase'[o] = "destroyed"
    BY <2>0, <2>1, <2>2, <2>3 DEF DestroyNext, Destroy, InBatch, TypeInv
  <2> QED
    BY <2>1, <2>4 DEF UnweakOK, Step, Then1Is
<1> QED
  BY Origin, <1>1, <1>2, <1>3, <1>4, <1>5, <1>6, <1>7, <1>8, <1>9, <1>10, <1>11, <1>12, <1>13,
      <1>14 DEF NewStep

(* The table's entry changes to nothing, or to the string that is published. *)
LEMMA TableStep ==
  ASSUME TypeInv, [Next]_vars
  PROVE  table' = table \/ table' = None \/ \E w \in Threads : PublishString(w) /\ table' = Current(w)
<1>0. world.threads \subseteq Threads
  BY WorldThreads
<1>1. ASSUME NEW t \in Threads, NEW o \in Objs, New(t, o)
      PROVE  table' = table \/ table' = None \/ \E w \in Threads : PublishString(w) /\ table' = Current(w)
  BY <1>1 DEF New, counts, claims, values, collector, reclaimer, strings, Build, Ready, Bump
<1>2. ASSUME NEW t \in Threads, NEW u \in Threads, NEW o \in Objs, Share(t, u, o)
      PROVE  table' = table \/ table' = None \/ \E w \in Threads : PublishString(w) /\ table' = Current(w)
  BY <1>2 DEF Share, counts, claims, values, collector, reclaimer, strings, Ready, Bump
<1>3. ASSUME NEW t \in Threads, NEW o \in Objs, Drop(t, o)
      PROVE  table' = table \/ table' = None \/ \E w \in Threads : PublishString(w) /\ table' = Current(w)
  BY <1>3 DEF Drop, counts, claims, values, collector, reclaimer, strings, Ready
<1>4. ASSUME NEW t \in Threads, NEW o \in Objs, NEW k \in Slots, NEW p \in Objs, Store(t, o, k, p)
      PROVE  table' = table \/ table' = None \/ \E w \in Threads : PublishString(w) /\ table' = Current(w)
  BY <1>4 DEF Store, counts, claims, values, collector, reclaimer, strings, Ready
<1>5. ASSUME NEW t \in Threads, Put(t)
      PROVE  table' = table \/ table' = None \/ \E w \in Threads : PublishString(w) /\ table' = Current(w)
  BY <1>5 DEF Put, counts, claims, values, collector, reclaimer, strings, Bump
<1>6. ASSUME NEW t \in Threads, NEW o \in Objs, NEW k \in Slots, Load(t, o, k)
      PROVE  table' = table \/ table' = None \/ \E w \in Threads : PublishString(w) /\ table' = Current(w)
  BY <1>6 DEF Load, counts, claims, values, collector, reclaimer, strings, Ready, Bump
<1>7. ASSUME NEW t \in Threads, NEW o \in Objs, NEW v \in Versions, SaveVersion(t, o, v)
      PROVE  table' = table \/ table' = None \/ \E w \in Threads : PublishString(w) /\ table' = Current(w)
  BY <1>7 DEF SaveVersion, counts, claims, values, collector, reclaimer, strings, Build, Ready
<1>8. ASSUME NEW t \in Threads, NEW o \in Objs, WeakRef(t, o)
      PROVE  table' = table \/ table' = None \/ \E w \in Threads : PublishString(w) /\ table' = Current(w)
  BY <1>8 DEF WeakRef, counts, claims, values, collector, reclaimer, strings, Ready, Bump
<1>9. ASSUME NEW t \in Threads, NEW o \in Objs, DropWeak(t, o)
      PROVE  table' = table \/ table' = None \/ \E w \in Threads : PublishString(w) /\ table' = Current(w)
  BY <1>9 DEF DropWeak, counts, claims, values, collector, reclaimer, strings, FreedIfLast,
      Ready, Bump
<1>10. ASSUME NEW t \in Threads, NEW o \in Objs, StrongRef(t, o)
      PROVE  table' = table \/ table' = None \/ \E w \in Threads : PublishString(w) /\ table' = Current(w)
  BY <1>10 DEF StrongRef, counts, claims, values, collector, reclaimer, strings, Ready
<1>11. ASSUME NEW t \in Threads, TryIncRef(t)
      PROVE  table' = table \/ table' = None \/ \E w \in Threads : PublishString(w) /\ table' = Current(w)
  BY <1>11 DEF TryIncRef, counts, claims, values, collector, reclaimer, strings, Bump
<1>12. ASSUME NEW t \in Threads, Recheck(t)
      PROVE  table' = table \/ table' = None \/ \E w \in Threads : PublishString(w) /\ table' = Current(w)
  BY <1>12 DEF Recheck, counts, claims, values, collector, reclaimer, strings
<1>13. ASSUME NEW t \in Threads, Intern(t)
      PROVE  table' = table \/ table' = None \/ \E w \in Threads : PublishString(w) /\ table' = Current(w)
  BY <1>13 DEF Intern, counts, claims, values, collector, reclaimer, strings, Ready
<1>14. ASSUME NEW t \in Threads, Lookup(t)
      PROVE  table' = table \/ table' = None \/ \E w \in Threads : PublishString(w) /\ table' = Current(w)
  BY <1>14 DEF Lookup, counts, claims, values, collector, reclaimer, strings, Bump
<1>15. ASSUME NEW t \in Threads, NEW s \in Strings, AllocString(t, s)
      PROVE  table' = table \/ table' = None \/ \E w \in Threads : PublishString(w) /\ table' = Current(w)
  BY <1>15 DEF AllocString, counts, claims, values, collector, reclaimer, strings, Build
<1>16. ASSUME NEW t \in Threads, PublishString(t)
      PROVE  table' = table \/ table' = None \/ \E w \in Threads : PublishString(w) /\ table' = Current(w)
  BY <1>16 DEF PublishString, counts, claims, values, collector, reclaimer, strings
<1>17. ASSUME NEW t \in Threads, Own(t)
      PROVE  table' = table \/ table' = None \/ \E w \in Threads : PublishString(w) /\ table' = Current(w)
  BY <1>17 DEF Own, counts, claims, values, collector, reclaimer, strings, Bump
<1>18. ASSUME NEW a \in Actor, DecRef(a)
      PROVE  table' = table \/ table' = None \/ \E w \in Threads : PublishString(w) /\ table' = Current(w)
  BY <1>18 DEF DecRef, counts, claims, values, collector, reclaimer, strings, Bump
<1>19. ASSUME NEW a \in Actor, Claim(a)
      PROVE  table' = table \/ table' = None \/ \E w \in Threads : PublishString(w) /\ table' = Current(w)
  BY <1>19 DEF Claim, counts, claims, values, collector, reclaimer, strings
<1>20. ASSUME NEW a \in Actor, DropOnce(a)
      PROVE  table' = table \/ table' = None \/ \E w \in Threads : PublishString(w) /\ table' = Current(w)
  BY <1>20 DEF DropOnce, counts, claims, values, collector, reclaimer, strings
<1>21. ASSUME NEW a \in Actor, Null(a)
      PROVE  table' = table \/ table' = None \/ \E w \in Threads : PublishString(w) /\ table' = Current(w)
  BY <1>21 DEF Null, counts, claims, values, collector, reclaimer, strings
<1>22. ASSUME NEW a \in Actor, Retire(a)
      PROVE  table' = table \/ table' = None \/ \E w \in Threads : PublishString(w) /\ table' = Current(w)
  BY <1>22 DEF Retire, counts, claims, values, collector, reclaimer, strings
<1>23. ASSUME Mark
      PROVE  table' = table \/ table' = None \/ \E w \in Threads : PublishString(w) /\ table' = Current(w)
  BY <1>23 DEF Mark, counts, claims, values, collector, reclaimer, strings
<1>24. ASSUME NEW o \in Objs, Trim(o)
      PROVE  table' = table \/ table' = None \/ \E w \in Threads : PublishString(w) /\ table' = Current(w)
  BY <1>24 DEF Trim, counts, claims, values, collector, reclaimer, strings
<1>25. ASSUME TrimDone
      PROVE  table' = table \/ table' = None \/ \E w \in Threads : PublishString(w) /\ table' = Current(w)
  BY <1>25 DEF TrimDone, counts, claims, values, collector, reclaimer, strings
<1>26. ASSUME Sweep
      PROVE  table' = table \/ table' = None \/ \E w \in Threads : PublishString(w) /\ table' = Current(w)
  BY <1>26 DEF Sweep, counts, claims, values, collector, reclaimer, strings
<1>27. ASSUME Publish
      PROVE  table' = table \/ table' = None \/ \E w \in Threads : PublishString(w) /\ table' = Current(w)
  BY <1>27 DEF Publish, counts, claims, values, collector, reclaimer, strings
<1>28. ASSUME Drain
      PROVE  table' = table \/ table' = None \/ \E w \in Threads : PublishString(w) /\ table' = Current(w)
  BY <1>28 DEF Drain, counts, claims, values, collector, reclaimer, strings
<1>29. ASSUME DropNext
      PROVE  table' = table \/ table' = None \/ \E w \in Threads : PublishString(w) /\ table' = Current(w)
  BY <1>29 DEF DropNext, counts, claims, values, collector, reclaimer, strings
<1>30. ASSUME Hold
      PROVE  table' = table \/ table' = None \/ \E w \in Threads : PublishString(w) /\ table' = Current(w)
  BY <1>30 DEF Hold, counts, claims, values, collector, reclaimer, strings
<1>31. ASSUME DestroyNext
      PROVE  table' = table \/ table' = None \/ \E w \in Threads : PublishString(w) /\ table' = Current(w)
  BY <1>31 DEF DestroyNext, Destroy, SelfErase, strings
<1>32. ASSUME NEW a \in Actor, Unweak(a)
      PROVE  table' = table \/ table' = None \/ \E w \in Threads : PublishString(w) /\ table' = Current(w)
  BY <1>32 DEF Unweak, counts, claims, values, collector, reclaimer, strings, FreedIfLast, Bump
<1>33. ASSUME ReleaseHolds
      PROVE  table' = table \/ table' = None \/ \E w \in Threads : PublishString(w) /\ table' = Current(w)
  BY <1>33 DEF ReleaseHolds, counts, claims, values, collector, reclaimer, strings
<1>34. ASSUME NEW o \in Actors, FinalizeActor(o)
      PROVE  table' = table \/ table' = None \/ \E w \in Threads : PublishString(w) /\ table' = Current(w)
  BY <1>34 DEF FinalizeActor, counts, claims, values, collector, reclaimer, strings, Bump
<1>35. ASSUME UNCHANGED vars PROVE table' = table \/ table' = None \/ \E w \in Threads : PublishString(w) /\ table' = Current(w)
  BY <1>35 DEF vars, counts, claims, values, collector, reclaimer, strings
<1> QED
  BY <1>0, <1>1, <1>2, <1>3, <1>4, <1>5, <1>6, <1>7, <1>8, <1>9, <1>10, <1>11, <1>12, <1>13,
      <1>14, <1>15, <1>16, <1>17, <1>18, <1>19, <1>20, <1>21, <1>22, <1>23, <1>24, <1>25, <1>26,
      <1>27, <1>28, <1>29, <1>30, <1>31, <1>32, <1>33, <1>34, <1>35, StepKinds

(* No claim begins of an object without owners. *)
LEMMA ClaimingZero ==
  ASSUME TypeInv, NameInv, StrongInv, WeakInv, LinkInv, PlaceInv, BatchInv, RefInv, HeldInv,
         DecInv, ClaimsInv, RetireInv, ThreadInv, StringInv, UnweakInv, MarkInv, PhaseInv,
         TableInv, NEW x \in Objs, [Next]_vars, strong[x] = 0, ~Claiming(x)
  PROVE  ~Claiming(x)'
<1>1. ASSUME NEW a \in Actor, DecRef(a), x = Current(a) PROVE FALSE
  BY <1>1, DecHere DEF DecRef
<1> QED
  BY <1>1, ClaimingIn

(* A string that a thread publishes or takes first is fresh. *)
LEMMA MakingFresh ==
  ASSUME TypeInv, StringInv, NEW t \in Threads, NEW x, Making(t, x)
  PROVE  /\ Has(t, 1, "publish", x) => Fresh(x) /\ table # x
         /\ Fresh(x)
<1>1. t \in Actor /\ 1 \in 1 .. Count(t) /\ Step(t, 1).op \in {"publish", "own"} /\ Step(t, 1).obj = x
  BY ActorParts DEF Making, Has
<1>2. StringOK(t, 1)
  BY <1>1 DEF StringInv
<1> QED
  BY <1>1, <1>2 DEF StringOK, Has

(* Who publishes or owns a string without owners makes it. *)
LEMMA MakerNow ==
  ASSUME TypeInv, NameInv, StrongInv, StringInv, NEW t \in Threads, Own(t) \/ PublishString(t),
         strong[Current(t)] = 0
  PROVE  Count(t) = 1 /\ Making(t, Current(t)) /\ Takes(t)
<1>0. t \in Actor
  BY ActorParts
<1>1. CASE Own(t)
  <2>1. Current(t) \in Objs /\ Count(t) \in 1 .. Count(t) /\ Step(t, Count(t)).op = "own" /\ Step(t, Count(t)).obj = Current(t)
    BY <1>0, <1>1, CurrentType, Here DEF Own
  <2>2. ~Has(t, 1, "dec", Current(t))
    <3> SUFFICES ASSUME Has(t, 1, "dec", Current(t)) PROVE FALSE
      OBVIOUS
    <3>1. strong[Current(t)] >= 1
      BY <1>0, <2>1, OwnedBy DEF Has
    <3> QED
      BY <3>1
  <2>3. Count(t) = 1
    BY <1>1, <2>2, OwnHere DEF Own
  <2> QED
    BY <1>1, <2>1, <2>3 DEF Making, Has, Takes
<1>2. CASE PublishString(t)
  <2>1. Count(t) \in 1 .. Count(t) /\ Step(t, Count(t)).op = "publish" /\ Step(t, Count(t)).obj = Current(t)
    BY <1>0, <1>2, Here DEF PublishString
  <2>2. Count(t) = 1
    BY <1>2, PublishNow DEF PublishString
  <2> QED
    BY <1>2, <2>1, <2>2 DEF Making, Has, Takes
<1> QED
  BY <1>1, <1>2

(* A fresh string stays fresh while its maker takes no step. *)
LEMMA FreshKept ==
  ASSUME TypeInv, NameInv, StrongInv, WeakInv, LinkInv, PlaceInv, BatchInv, RefInv, HeldInv,
         DecInv, ClaimsInv, RetireInv, ThreadInv, StringInv, UnweakInv, MarkInv, PhaseInv,
         TableInv, NEW x \in Objs, [Next]_vars, Fresh(x), NEW t \in Threads, Making(t, x),
         Same(t, 1)
  PROVE  Fresh(x)' /\ (table # x => table' # x)
<1>0. t \in Actor /\ 1 \in 1 .. Cnt(todo, t) /\ x # None
  BY ActorParts, NoneParts DEF Same
<1>1. Live(x) /\ strong[x] = 0 /\ ~Claiming(x) /\ x \in Strings
  BY DEF Fresh
<1>2. ASSUME NEW u \in Threads, Own(u) \/ PublishString(u), x = Current(u) PROVE FALSE
  <2>1. Count(u) = 1 /\ Making(u, x) /\ Takes(u)
    BY <1>1, <1>2, MakerNow
  <2>2. u = t
    BY <2>1 DEF StringInv
  <2> QED
    BY <1>0, <2>1, <2>2, TakenGone DEF Count
<1>3. strong'[x] = 0
  BY <1>1, <1>2, ZeroKept DEF Born, Live
<1>4. Live(x)'
  <2>1. ASSUME NEW a \in Actor, Claim(a), x = Current(a) PROVE FALSE
    <3>1. Count(a) \in 1 .. Count(a) /\ Has(a, Count(a), "claim", x)
      BY <2>1, Here DEF Claim, Has
    <3> QED
      BY <1>1, <3>1 DEF Claiming
  <2>2. ~Dies(x)
    BY <1>0, <2>1, Busy DEF Dies
  <2> QED
    BY <1>1, <2>2, LiveStep
<1>5. ~Claiming(x)'
  BY <1>1, ClaimingZero
<1>6. table # x => table' # x
  BY <1>0, <1>2, TableStep
<1> QED
  BY <1>1, <1>3, <1>4, <1>5, <1>6 DEF Fresh

(* A thread in the middle of an interning gets no string. *)
LEMMA PlainKept ==
  ASSUME TypeInv, NameInv, StrongInv, WeakInv, LinkInv, PlaceInv, BatchInv, RefInv, HeldInv,
         DecInv, ClaimsInv, RetireInv, ThreadInv, StringInv, UnweakInv, MarkInv, PhaseInv,
         TableInv, [Next]_vars, NEW b \in Threads, NEW m \in 1 .. Cnt(todo', b), Same(b, m),
         Stp(todo, b, m).op \in {"lookup", "alloc", "publish", "own"}, held[b] \cap Strings = {}
  PROVE  held'[b] \cap Strings = {}
<1> SUFFICES ASSUME NEW x \in held'[b], x \in Strings PROVE FALSE
  OBVIOUS
<1>1. b \in Actor /\ x \in Objs /\ m \in 1 .. Cnt(todo, b)
  BY ActorParts, NoneParts DEF Same
<1>2. ~Idle(b)
  BY <1>1, Busy
<1>3. ~Recheck(b)
  <2> SUFFICES ASSUME Recheck(b) PROVE FALSE
    OBVIOUS
  <2>1. Count(b) = 1 /\ Step(b, Count(b)).op = "recheck"
    BY <1>1, RecheckHere, Here DEF Recheck
  <2> QED
    BY <1>1, <2>1 DEF Count, Step
<1>4. ~Own(b)
  <2> SUFFICES ASSUME Own(b) PROVE FALSE
    OBVIOUS
  <2>1. Count(b) = 1 \/ (Count(b) = 2 /\ Step(b, 1).op = "dec")
    BY OwnHere DEF Own, Has
  <2>2. m = Cnt(todo, b)
    BY <1>1, <2>1 DEF Count, Step
  <2> QED
    BY <1>1, <2>2, TakenGone DEF Takes
<1> QED
  BY <1>1, <1>2, <1>3, <1>4, HeldStep DEF Gets

(* The steps of an interning: one thread makes a string, which nobody else knows. *)
LEMMA StringOKStep ==
  ASSUME TypeInv, NameInv, StrongInv, WeakInv, LinkInv, PlaceInv, BatchInv, RefInv, HeldInv,
         DecInv, ClaimsInv, RetireInv, ThreadInv, StringInv, UnweakInv, MarkInv, PhaseInv,
         TableInv, [Next]_vars
  PROVE  \A b \in Actor : \A m \in 1 .. Cnt(todo', b) : StringOK(b, m)'
<1> SUFFICES ASSUME NEW b \in Actor, NEW m \in 1 .. Cnt(todo', b)
             PROVE  StringOK(b, m)'
  OBVIOUS
<1>1. CASE Same(b, m)
  <2>0. PICK o : o = Stp(todo, b, m).obj
    OBVIOUS
  <2>1. m \in 1 .. Cnt(todo, b) /\ Stp(todo', b, m) = Stp(todo, b, m) /\ m \in 1 .. Count(b)
    BY <1>1 DEF Same, Count
  <2>2. StringOK(b, m) /\ Step(b, m) = Stp(todo, b, m)
    BY <2>1 DEF StringInv, Step
  <2>3. Stp(todo, b, m).op \in {"lookup", "alloc", "publish", "own"} => b \in Threads /\ held'[b] \cap Strings = {}
    <3> SUFFICES ASSUME Stp(todo, b, m).op \in {"lookup", "alloc", "publish", "own"}
                 PROVE  b \in Threads /\ held'[b] \cap Strings = {}
      OBVIOUS
    <3>1. b \in Threads /\ held[b] \cap Strings = {}
      BY <2>2 DEF StringOK
    <3> QED
      BY <1>1, <3>1, PlainKept
  <2>4. Stp(todo, b, m).op \in {"publish", "own"} => o \in Strings /\ o \in Objs
    BY <2>0, <2>2, NoneParts DEF StringOK
  <2>5. ASSUME Stp(todo, b, m).op = "publish" PROVE Fresh(o)' /\ table' # o
    <3>1. b \in Threads /\ m = 1 /\ Fresh(o) /\ table # o /\ Making(b, o)
      BY <2>0, <2>1, <2>2, <2>5 DEF StringOK, Making, Has
    <3> QED
      BY <1>1, <2>4, <2>5, <3>1, FreshKept
  <2>6. ASSUME Stp(todo, b, m).op = "own"
        PROVE  (m = 2 /\ Then1Is(b, 1, "dec", o)) \/ (m = 1 /\ Fresh(o)')
    <3>1. CASE m = 2 /\ Has(b, 1, "dec", o)
      <4>1. m - 1 = 1 /\ 1 \in 1 .. Cnt(todo, b) /\ Stp(todo, b, 1).op = "dec" /\ Stp(todo, b, 1).obj = o
        BY <3>1 DEF Has, Count, Step
      <4>2. m - 1 \in 1 .. Cnt(todo', b) /\ Stp(todo', b, m - 1) = Stp(todo, b, m - 1)
        BY <1>1, <2>1, <4>1, BelowStays
      <4> QED
        BY <3>1, <4>1, <4>2 DEF Then1Is
    <3>2. CASE m = 1 /\ Fresh(o)
      <4>1. b \in Threads /\ Making(b, o)
        BY <2>0, <2>1, <2>2, <2>3, <2>6, <3>2 DEF Making, Has
      <4> QED
        BY <1>1, <2>4, <2>6, <3>2, <4>1, FreshKept
    <3> QED
      BY <2>0, <2>2, <2>6, <3>1, <3>2 DEF StringOK
  <2>7. Stp(todo, b, m).op \in {"lookup", "alloc", "publish"} => m = 1
    BY <2>2 DEF StringOK
  <2> QED
    BY <2>0, <2>1, <2>3, <2>4, <2>5, <2>6, <2>7 DEF StringOK, Step, Has, Count, Then1Is
<1>2. CASE NewDec(b, m)
  BY <1>2 DEF NewDec, Then1Is, PutOp, StringOK, Step
<1>3. CASE NewClaim(b, m)
  BY <1>3 DEF NewClaim, Then1Is, PutOp, StringOK, Step
<1>4. CASE NewRetire(b, m)
  BY <1>4 DEF NewRetire, Then1Is, PutOp, StringOK, Step
<1>5. CASE NewNull(b, m)
  BY <1>5 DEF NewNull, Then1Is, PutOp, StringOK, Step
<1>6. CASE NewDropOnce(b, m)
  BY <1>6 DEF NewDropOnce, Then1Is, PutOp, StringOK, Step
<1>7. CASE NewPut(b, m)
  BY <1>7 DEF NewPut, Then1Is, PutOp, StringOK, Step
<1>8. CASE NewTry(b, m)
  BY <1>8 DEF NewTry, Then1Is, PutOp, StringOK, Step
<1>9. CASE NewRecheck(b, m)
  BY <1>9 DEF NewRecheck, Then1Is, PutOp, StringOK, Step
<1>10. CASE NewLookup(b, m)
  <2>1. b \in Threads /\ held[b] \cap Strings = {} /\ held' = held /\ m = 1 /\ Stp(todo', b, m).op = "lookup"
    BY <1>10 DEF NewLookup, Then1Is, Intern, values
  <2> QED
    BY <2>1 DEF StringOK, Step
<1>11. CASE NewAlloc(b, m)
  <2>1. b \in Threads /\ Lookup(b) /\ held' = held /\ m = Cnt(todo, b) /\ Stp(todo', b, m).op = "alloc"
    BY <1>11 DEF NewAlloc, Then1Is, Lookup, values
  <2>2. Count(b) \in 1 .. Count(b) /\ Step(b, Count(b)).op = "lookup"
    BY <2>1, Here DEF Lookup
  <2>3. StringOK(b, Count(b))
    BY <2>2 DEF StringInv
  <2>4. m = 1 /\ held[b] \cap Strings = {}
    BY <2>1, <2>2, <2>3 DEF StringOK, Count
  <2> QED
    BY <2>1, <2>4 DEF StringOK, Step
<1>12. CASE NewPublish(b, m)
  <2>1. PICK s \in Strings : b \in Threads /\ AllocString(b, s) /\ m = Cnt(todo, b) /\ Then1Is(b, m, "publish", s)
    BY <1>12 DEF NewPublish
  <2>2. Count(b) \in 1 .. Count(b) /\ Step(b, Count(b)).op = "alloc"
    BY <2>1, Here DEF AllocString
  <2>3. StringOK(b, Count(b))
    BY <2>2 DEF StringInv
  <2>4. m = 1 /\ held'[b] \cap Strings = {}
    BY <2>1, <2>2, <2>3 DEF StringOK, Count, AllocString, values
  <2>5. s \in Objs /\ phase[s] = "none" /\ strong[s] = 0 /\ ~collecting[s]
    BY <2>1, NoneParts, NotBuilt DEF AllocString, Build
  <2>6. ~Claiming(s)
    BY <2>5, ClaimingParts DEF Live, Waiting
  <2>7. ~Claiming(s)' /\ Live(s)' /\ strong'[s] = 0
    BY <2>1, <2>5, <2>6, ClaimingZero DEF AllocString, Build, Live, TypeInv
  <2>8. table' # s
    BY <2>1, <2>5, NoneParts DEF AllocString, strings, TableInv
  <2> QED
    BY <2>1, <2>4, <2>7, <2>8 DEF StringOK, Step, Then1Is, Fresh
<1>13. CASE NewOwn(b, m)
  <2>1. b \in Threads /\ (Lookup(b) \/ PublishString(b)) /\ held' = held /\ m \in 1 .. Cnt(todo', b)
    BY <1>13 DEF NewOwn, Then1Is, Lookup, PublishString, values
  <2>2. Cnt(todo, b) = 1 /\ held[b] \cap Strings = {}
    <3>1. Count(b) \in 1 .. Count(b) /\ Step(b, Count(b)).op \in {"lookup", "publish"}
      BY <2>1, Here DEF Lookup, PublishString
    <3>2. StringOK(b, Count(b))
      BY <3>1 DEF StringInv
    <3> QED
      BY <3>1, <3>2 DEF StringOK, Count
  <2>3. CASE Found /\ Then1Is(b, m, "own", table) /\ Then1Is(b, m - 1, "dec", table)
    <3>0. PICK s : s = table
      OBVIOUS
    <3>1. ASSUME Lookup(b) PROVE m = 2
      <4>1. After2(b, Op("own", table), Op("dec", table))
        BY <2>1, <3>1, <2>3, LookupShape DEF Found
      <4> QED
        BY <2>2, <2>3, <4>1 DEF After2, Then1Is, Op
    <3>2. ASSUME PublishString(b) PROVE m = 2
      <4>1. After3(b, Op("dec", Current(b)), Op("own", table), Op("dec", table))
        BY <2>1, <3>2, <2>3, PublishStringShape DEF Found
      <4> QED
        BY <2>2, <2>3, <4>1 DEF After3, Then1Is, Op
    <3>3. m = 2
      BY <2>1, <3>1, <3>2
    <3>4. s \in Strings /\ Then1Is(b, 1, "dec", s) /\ Then1Is(b, m, "own", s)
      BY <2>3, <3>0, <3>3, FoundLive
    <3> QED
      BY <2>1, <2>2, <3>3, <3>4 DEF StringOK, Step, Count, Has, Then1Is
  <2>4. CASE PublishString(b) /\ ~Found /\ m = Cnt(todo, b) /\ Then1Is(b, m, "own", Current(b))
    <3>0. PICK o : o = Current(b)
      OBVIOUS
    <3>1. Fresh(o) /\ o \in Strings /\ o \in Objs
      BY <2>1, <2>4, <3>0, PublishNow, NoneParts DEF PublishString
    <3>2. strong' = strong /\ UNCHANGED <<phase, claims>>
      BY <2>4 DEF PublishString, Found
    <3>3. ~Claiming(o)'
      BY <3>1, ClaimingZero DEF Fresh
    <3>4. Fresh(o)'
      BY <3>1, <3>2, <3>3 DEF Fresh, Live, claims
    <3> QED
      BY <2>1, <2>2, <2>4, <3>0, <3>1, <3>4 DEF StringOK, Step, Then1Is
  <2> QED
    BY <1>13, <2>3, <2>4 DEF NewOwn
<1>14. CASE NewUnweak(b, m)
  BY <1>14 DEF NewUnweak, Then1Is, PutOp, StringOK, Step
<1> QED
  BY Origin, <1>1, <1>2, <1>3, <1>4, <1>5, <1>6, <1>7, <1>8, <1>9, <1>10, <1>11, <1>12, <1>13,
      <1>14 DEF NewStep

(* Who makes a string did, or has just allocated it. *)
LEMMA MakingIn ==
  ASSUME TypeInv, NameInv, StringInv, [Next]_vars, NEW t \in Threads, NEW x, Making(t, x)'
  PROVE  Making(t, x) \/ (x \in Strings /\ AllocString(t, x))
<1>0. t \in Actor /\ 1 \in 1 .. Cnt(todo', t) /\ Stp(todo', t, 1).obj = x /\ Stp(todo', t, 1).op \in {"publish", "own"}
  BY ActorParts DEF Making, Has, Count, Step
<1>1. CASE Same(t, 1)
  BY <1>0, <1>1 DEF Same, Making, Has, Count, Step
<1>2. CASE NewPublish(t, 1)
  BY <1>0, <1>2 DEF NewPublish, Then1Is
<1>3. CASE NewOwn(t, 1)
  <2>1. PublishString(t) /\ 1 = Cnt(todo, t) /\ x = Current(t)
    <3>1. ~(0 \in 1 .. Cnt(todo', t))
      OBVIOUS
    <3> QED
      BY <1>0, <1>3, <3>1 DEF NewOwn, Then1Is
  <2> QED
    BY <1>0, <2>1, Here DEF PublishString, Making, Has, Count
<1> QED
  BY <1>0, <1>1, <1>2, <1>3, OriginOf

(* One thread makes a string. *)
LEMMA MakingStep ==
  ASSUME TypeInv, NameInv, StrongInv, WeakInv, LinkInv, PlaceInv, BatchInv, RefInv, HeldInv,
         DecInv, ClaimsInv, RetireInv, ThreadInv, StringInv, UnweakInv, MarkInv, PhaseInv,
         TableInv, [Next]_vars, NEW t \in Threads, NEW u \in Threads, NEW x \in Objs,
         Making(t, x)', Making(u, x)'
  PROVE  t = u
<1>1. (Making(t, x) \/ AllocString(t, x)) /\ (Making(u, x) \/ AllocString(u, x))
  BY MakingIn
<1>2. ASSUME NEW v \in Threads, NEW w \in Threads, Making(v, x), AllocString(w, x) PROVE FALSE
  <2>1. Fresh(x)
    BY <1>2, MakingFresh
  <2> QED
    BY <1>2, <2>1 DEF Fresh, Live, AllocString, Build
<1>3. ASSUME AllocString(t, x), AllocString(u, x), t # u PROVE FALSE
  <2>1. x \in Strings /\ t \in Actor /\ u \in Actor
    BY <1>3, ActorParts DEF AllocString
  <2>2. Now(t, "alloc") /\ After1(t, Op("publish", x)) /\ After1(u, Op("publish", x))
    BY <1>3, <2>1, AllocStringShape
  <2> QED
    BY <1>3, <2>1, <2>2 DEF Now, After1, Keeps, Op
<1> QED
  BY <1>1, <1>2, <1>3 DEF StringInv

-----------------------------------------------------------------------------
(* The weak count. *)

WeakGains(o, g) ==
  IsFiniteSet(WeakBy(o)) =>
    IsFiniteSet(WeakBy(o)') /\ Cardinality(WeakBy(o)') = Cardinality(WeakBy(o)) + g

(* No weak Value comes or goes. *)
LEMMA WeakSame ==
  ASSUME UNCHANGED weakHeld, NEW o
  PROVE  WeakGains(o, 0)
<1>1. WeakBy(o)' = WeakBy(o)
  BY DEF WeakBy
<1>2. IsFiniteSet(WeakBy(o)) => Cardinality(WeakBy(o)) \in Nat
  BY FS_CardinalityType
<1> QED
  BY <1>1, <1>2 DEF WeakGains

(* A thread has one more weak Value. *)
LEMMA WeakAdd ==
  ASSUME weakHeld \in [Threads -> SUBSET Objs], NEW t \in Threads, NEW x, x \notin weakHeld[t],
         weakHeld' = [weakHeld EXCEPT ![t] = weakHeld[t] \cup {x}], NEW o
  PROVE  WeakGains(o, IF o = x THEN 1 ELSE 0)
<1>1. WeakBy(o)' = IF o = x THEN WeakBy(o) \cup {t} ELSE WeakBy(o)
  BY DEF WeakBy
<1>2. t \notin WeakBy(x)
  BY DEF WeakBy
<1>3. IsFiniteSet(WeakBy(o)) => Cardinality(WeakBy(o)) \in Nat
  BY FS_CardinalityType
<1>4. IsFiniteSet(WeakBy(x)) =>
        IsFiniteSet(WeakBy(x) \cup {t}) /\ Cardinality(WeakBy(x) \cup {t}) = Cardinality(WeakBy(x)) + 1
  BY <1>2, FS_AddElement
<1>5. CASE o = x
  <2>1. IsFiniteSet(WeakBy(o)) =>
          IsFiniteSet(WeakBy(o)') /\ Cardinality(WeakBy(o)') = Cardinality(WeakBy(o)) + 1
    BY <1>1, <1>4, <1>5
  <2> QED
    BY <1>3, <1>5, <2>1 DEF WeakGains
<1>6. CASE o # x
  <2>1. WeakBy(o)' = WeakBy(o)
    BY <1>1, <1>6
  <2> QED
    BY <1>3, <1>6, <2>1 DEF WeakGains
<1> QED
  BY <1>5, <1>6

(* A thread has one weak Value less. *)
LEMMA WeakRemove ==
  ASSUME weakHeld \in [Threads -> SUBSET Objs], NEW t \in Threads, NEW x, x \in weakHeld[t],
         weakHeld' = [weakHeld EXCEPT ![t] = weakHeld[t] \ {x}], NEW o
  PROVE  WeakGains(o, IF o = x THEN -1 ELSE 0)
<1>1. WeakBy(o)' = IF o = x THEN WeakBy(o) \ {t} ELSE WeakBy(o)
  BY DEF WeakBy
<1>2. t \in WeakBy(x)
  BY DEF WeakBy
<1>3. IsFiniteSet(WeakBy(o)) => Cardinality(WeakBy(o)) \in Nat
  BY FS_CardinalityType
<1>4. IsFiniteSet(WeakBy(x)) =>
        IsFiniteSet(WeakBy(x) \ {t}) /\ Cardinality(WeakBy(x) \ {t}) = Cardinality(WeakBy(x)) - 1
  BY <1>2, FS_RemoveElement
<1>5. CASE o = x
  <2>1. IsFiniteSet(WeakBy(o)) =>
          IsFiniteSet(WeakBy(o)') /\ Cardinality(WeakBy(o)') = Cardinality(WeakBy(o)) + (-1)
    BY <1>1, <1>4, <1>5
  <2> QED
    BY <1>3, <1>5, <2>1 DEF WeakGains
<1>6. CASE o # x
  <2>1. WeakBy(o)' = WeakBy(o)
    BY <1>1, <1>6
  <2> QED
    BY <1>3, <1>6, <2>1 DEF WeakGains
<1> QED
  BY <1>5, <1>6

(* The parts of the weak count. *)
LEMMA WeakNat ==
  ASSUME TypeInv, WeakInv, NEW o \in Objs
  PROVE  /\ weak[o] = Cardinality(WeakBy(o)) + Shared(o) + Kept(o)
         /\ Cardinality(WeakBy(o)) \in Nat /\ Shared(o) \in {0, 1} /\ Kept(o) \in {0, 1}
         /\ weak[o] \in Nat /\ (phase[o] \in {"none", "freed"} <=> weak[o] = 0)
<1>1. /\ IsFiniteSet(WeakBy(o)) /\ weak[o] = Cardinality(WeakBy(o)) + Shared(o) + Kept(o)
      /\ phase[o] \in {"none", "freed"} <=> weak[o] = 0
  BY DEF WeakInv, WeakOK
<1>2. Cardinality(WeakBy(o)) \in Nat
  BY <1>1, FS_CardinalityType
<1>3. Shared(o) \in {0, 1} /\ Kept(o) \in {0, 1}
  BY DEF Shared, Kept
<1> QED
  BY <1>1, <1>2, <1>3

(* A weak count that grows by what its parts grow by. *)
LEMMA WeakSum ==
  ASSUME TypeInv, WeakInv, NEW o \in Objs, NEW gw \in Int, NEW d \in Int, WeakGains(o, gw),
         Shared(o)' + Kept(o)' = Shared(o) + Kept(o) + d, weak'[o] = weak[o] + gw + d,
         phase'[o] \in {"none", "freed"} <=> weak'[o] = 0
  PROVE  WeakOK(o)'
<1>1. /\ weak[o] = Cardinality(WeakBy(o)) + Shared(o) + Kept(o)
      /\ Cardinality(WeakBy(o)) \in Nat /\ Shared(o) \in {0, 1} /\ Kept(o) \in {0, 1}
  BY WeakNat
<1>2. IsFiniteSet(WeakBy(o)') /\ Cardinality(WeakBy(o)') = Cardinality(WeakBy(o)) + gw
  BY DEF WeakGains, WeakInv, WeakOK
<1>3. Shared(o)' \in {0, 1} /\ Kept(o)' \in {0, 1}
  BY DEF Shared, Kept
<1>4. weak'[o] = Cardinality(WeakBy(o)') + Shared(o)' + Kept(o)'
  BY <1>1, <1>2, <1>3
<1> QED
  BY <1>2, <1>4 DEF WeakOK

(* The release of the shared weak count begins with the destructor. *)
LEMMA UnweakingIn ==
  ASSUME TypeInv, NameInv, [Next]_vars, NEW x \in Objs, Unweaking(x)'
  PROVE  Unweaking(x) \/ (DestroyNext /\ x = Head(rest) /\ x \notin Actors)
<1>1. Rec \in Actor /\ 1 \in 1 .. Cnt(todo', Rec) /\ Stp(todo', Rec, 1).op = "unweak" /\ Stp(todo', Rec, 1).obj = x
  BY ActorParts DEF Unweaking, Has, Count, Step
<1>2. CASE Same(Rec, 1)
  BY <1>1, <1>2 DEF Same, Unweaking, Has, Count, Step
<1>3. CASE NewUnweak(Rec, 1)
  BY <1>1, <1>3 DEF NewUnweak, Then1Is
<1> QED
  BY <1>1, <1>2, <1>3, OriginOf

(* It ends with its step. *)
LEMMA UnweakingOut ==
  ASSUME TypeInv, NameInv, [Next]_vars, NEW x \in Objs, Unweaking(x)
  PROVE  Unweaking(x)' \/ \E a \in Actor : Unweak(a) /\ x = Current(a)
<1>1. Rec \in Actor /\ 1 \in 1 .. Cnt(todo, Rec) /\ Stp(todo, Rec, 1).op = "unweak" /\ Stp(todo, Rec, 1).obj = x
  BY ActorParts DEF Unweaking, Has, Count, Step
<1>2. CASE Stays(Rec, 1)
  BY <1>1, <1>2 DEF Stays, Unweaking, Has, Count, Step
<1>3. CASE 1 = Cnt(todo, Rec) /\ Takes(Rec)
  <2>1. Unweak(Rec)
    BY <1>1, <1>3, TakesOp
  <2> QED
    BY <1>1, <1>3, <2>1, DoingParts DEF Unweak
<1> QED
  BY <1>1, <1>2, <1>3, Persist

(* With its list, or its phase and count, an object keeps that release. *)
LEMMA UnweakingSame ==
  ASSUME TypeInv, NameInv, StrongInv, WeakInv, LinkInv, PlaceInv, BatchInv, RefInv, HeldInv,
         DecInv, ClaimsInv, RetireInv, ThreadInv, StringInv, UnweakInv, MarkInv, PhaseInv,
         TableInv, NEW x \in Objs, [Next]_vars,
         todo' = todo \/ (phase'[x] = phase[x] /\ weak'[x] = weak[x])
  PROVE  Unweaking(x)' <=> Unweaking(x)
<1>1. CASE todo' = todo
  BY <1>1 DEF Unweaking, Has, Step, Count, Stp, Cnt
<1>2. CASE phase'[x] = phase[x] /\ weak'[x] = weak[x]
  <2>1. ASSUME DestroyNext, x = Head(rest), x \notin Actors PROVE FALSE
    <3>1. ToVisit(x)
      BY <2>1, HeadIn DEF DestroyNext, ToVisit, TypeInv
    <3>2. Dead(x)
      BY <3>1 DEF BatchInv, BatchOK
    <3>3. phase'[x] = "destroyed"
      BY <2>1 DEF DestroyNext, Destroy, TypeInv
    <3> QED
      BY <1>2, <3>2, <3>3 DEF Dead
  <2>2. ASSUME NEW a \in Actor, Unweak(a), x = Current(a) PROVE FALSE
    <3>1. weak' = [weak EXCEPT ![x] = weak[x] + (-1)] /\ weak[x] \in Nat
      BY <2>2, WeakNat DEF Unweak, Bump
    <3> QED
      BY <1>2, <3>1 DEF TypeInv
  <2> QED
    BY <2>1, <2>2, UnweakingIn, UnweakingOut
<1> QED
  BY <1>1, <1>2

(* The step done, it is over. *)
LEMMA UnweakGone ==
  ASSUME TypeInv, NameInv, UnweakInv, [Next]_vars, NEW a \in Actor, Unweak(a)
  PROVE  \A x : ~Unweaking(x)'
<1> SUFFICES ASSUME NEW x, Unweaking(x)' PROVE FALSE
  OBVIOUS
<1>1. Rec \in Actor /\ 1 \in 1 .. Cnt(todo', Rec) /\ Stp(todo', Rec, 1).op = "unweak"
  BY ActorParts DEF Unweaking, Has, Count, Step
<1>2. a = Rec /\ Count(Rec) = 1 /\ ~Idle(Rec)
  BY UnweakHere DEF Unweak, Doing, Idle
<1>3. ~Same(Rec, 1)
  BY <1>1, <1>2, TakenGone DEF Takes, Count
<1>4. ~NewUnweak(Rec, 1)
  BY <1>2 DEF NewUnweak, DestroyNext
<1> QED
  BY <1>1, <1>3, <1>4, OriginOf

(* The weak count stays that of the weak Values and the holds. *)
LEMMA WeakStep ==
  ASSUME TypeInv, NameInv, StrongInv, WeakInv, LinkInv, PlaceInv, BatchInv, RefInv, HeldInv,
         DecInv, ClaimsInv, RetireInv, ThreadInv, StringInv, UnweakInv, MarkInv, PhaseInv,
         TableInv, NEW x \in Objs, [Next]_vars
  PROVE  WeakOK(x)'
<1>0. world.threads \subseteq Threads
  BY WorldThreads
<1>n. /\ weak[x] = Cardinality(WeakBy(x)) + Shared(x) + Kept(x)
      /\ Cardinality(WeakBy(x)) \in Nat /\ Shared(x) \in {0, 1} /\ Kept(x) \in {0, 1}
      /\ weak[x] \in Nat /\ (phase[x] \in {"none", "freed"} <=> weak[x] = 0)
  BY WeakNat
<1>s. todo' = todo \/ (phase'[x] = phase[x] /\ weak'[x] = weak[x]) => (Unweaking(x)' <=> Unweaking(x))
  BY UnweakingSame
<1>b. ASSUME phase[x] = "none", phase' = [phase EXCEPT ![x] = "built"], weak' = [weak EXCEPT ![x] = 1],
             UNCHANGED <<weakHeld, rec, batch>>
      PROVE  WeakOK(x)'
  <2>1. Cardinality(WeakBy(x)) = 0 /\ Shared(x) = 0 /\ Kept(x) = 0 /\ weak[x] = 0
    BY <1>n, <1>b
  <2>2. phase'[x] = "built" /\ weak'[x] = 1
    BY <1>b DEF TypeInv
  <2>3. Shared(x)' = 1 /\ Kept(x)' = 0
    BY <1>b, <2>1, <2>2 DEF Shared, Kept, InBatch
  <2>4. WeakGains(x, 0)
    BY <1>b, WeakSame
  <2> QED
    BY <2>1, <2>2, <2>3, <2>4, WeakSum
<1>k. ASSUME phase'[x] = phase[x], weak'[x] = weak[x], UNCHANGED <<weakHeld, rec, batch>> PROVE WeakOK(x)'
  <2>1. Shared(x)' = Shared(x) /\ Kept(x)' = Kept(x)
    BY <1>k, <1>s DEF Shared, Kept, InBatch
  <2>2. WeakGains(x, 0)
    BY <1>k, WeakSame
  <2> QED
    BY <1>n, <1>k, <2>1, <2>2, WeakSum
<1>1. ASSUME NEW t \in Threads, NEW o \in Objs, New(t, o) PROVE WeakOK(x)'
  <2>1. o # x => phase'[x] = phase[x] /\ weak'[x] = weak[x]
    BY <1>1 DEF New, Build
  <2> QED
    BY <1>1, <1>b, <1>k, <2>1 DEF New, Build, reclaimer
<1>2. ASSUME NEW t \in Threads, NEW u \in Threads, NEW o \in Objs, Share(t, u, o) PROVE WeakOK(x)'
  BY <1>2, <1>k DEF Share, counts, claims, values, collector, reclaimer, strings, Ready, Bump
<1>3. ASSUME NEW t \in Threads, NEW o \in Objs, Drop(t, o) PROVE WeakOK(x)'
  BY <1>3, <1>k DEF Drop, counts, claims, values, collector, reclaimer, strings, Ready
<1>4. ASSUME NEW t \in Threads, NEW o \in Objs, NEW k \in Slots, NEW p \in Objs, Store(t, o, k, p)
      PROVE  WeakOK(x)'
  BY <1>4, <1>k DEF Store, counts, claims, values, collector, reclaimer, strings, Ready
<1>5. ASSUME NEW t \in Threads, Put(t) PROVE WeakOK(x)'
  BY <1>5, <1>k DEF Put, counts, claims, values, collector, reclaimer, strings, Bump
<1>6. ASSUME NEW t \in Threads, NEW o \in Objs, NEW k \in Slots, Load(t, o, k) PROVE WeakOK(x)'
  BY <1>6, <1>k DEF Load, counts, claims, values, collector, reclaimer, strings, Ready, Bump
<1>7. ASSUME NEW t \in Threads, NEW o \in Objs, NEW v \in Versions, SaveVersion(t, o, v)
      PROVE  WeakOK(x)'
  <2>1. v # x => phase'[x] = phase[x] /\ weak'[x] = weak[x]
    BY <1>7 DEF SaveVersion, Build
  <2> QED
    BY <1>7, <1>b, <1>k, <2>1 DEF SaveVersion, Build, reclaimer
<1>8. ASSUME NEW t \in Threads, NEW o \in Objs, WeakRef(t, o) PROVE WeakOK(x)'
  <2>1. o \in Objs /\ phase[o] = "built" /\ o \notin weakHeld[t]
    BY <1>8 DEF WeakRef, HeldInv, Live, TypeInv
  <2>2. WeakGains(x, IF x = o THEN 1 ELSE 0)
    BY <1>8, <2>1, WeakAdd DEF WeakRef, TypeInv
  <2>3. weak'[x] = weak[x] + (IF x = o THEN 1 ELSE 0) /\ phase' = phase
    BY <1>8, <1>n DEF WeakRef, Bump, TypeInv
  <2>4. Shared(x)' = Shared(x) /\ Kept(x)' = Kept(x)
    BY <1>8, <1>s DEF WeakRef, Shared, Kept, InBatch, reclaimer
  <2> DEFINE g == IF x = o THEN 1 ELSE 0
  <2>5. g \in Int /\ weak'[x] = weak[x] + g + 0 /\ Shared(x)' + Kept(x)' = Shared(x) + Kept(x) + 0 /\ WeakGains(x, g)
    BY <1>n, <2>2, <2>3, <2>4
  <2>6. phase'[x] \in {"none", "freed"} <=> weak'[x] = 0
    BY <1>n, <2>1, <2>3
  <2> HIDE DEF g
  <2> QED
    BY <2>5, <2>6, WeakSum
<1>9. ASSUME NEW t \in Threads, NEW o \in Objs, DropWeak(t, o) PROVE WeakOK(x)'
  <2>1. /\ o \in Objs /\ weak[o] >= 1 /\ phase[o] \notin {"none", "freed"}
        /\ weak[o] = 1 => phase[o] = "destroyed"
    BY <1>9, WeakParts, LastWeak DEF DropWeak
  <2>2. WeakGains(x, IF x = o THEN -1 ELSE 0)
    BY <1>9, WeakRemove DEF DropWeak, TypeInv
  <2>3. weak' = [weak EXCEPT ![o] = weak[o] + (-1)]
    BY <1>9 DEF DropWeak, Bump
  <2>4. weak'[x] = weak[x] + (IF x = o THEN -1 ELSE 0)
    BY <2>1, <2>3, <1>n DEF TypeInv
  <2>5. phase'[x] = IF x = o /\ weak[o] = 1 THEN "freed" ELSE phase[x]
    BY <1>9, <2>1 DEF DropWeak, FreedIfLast, TypeInv
  <2>6. Shared(x)' = Shared(x) /\ Kept(x)' = Kept(x)
    BY <1>9, <1>s, <2>1, <2>5 DEF DropWeak, Shared, Kept, InBatch, reclaimer
  <2> DEFINE g == IF x = o THEN -1 ELSE 0
  <2>7. g \in Int /\ weak'[x] = weak[x] + g + 0 /\ Shared(x)' + Kept(x)' = Shared(x) + Kept(x) + 0 /\ WeakGains(x, g)
    BY <1>n, <2>2, <2>4, <2>6
  <2>8. phase'[x] \in {"none", "freed"} <=> weak'[x] = 0
    BY <1>n, <2>1, <2>4, <2>5
  <2> HIDE DEF g
  <2> QED
    BY <2>7, <2>8, WeakSum
<1>10. ASSUME NEW t \in Threads, NEW o \in Objs, StrongRef(t, o) PROVE WeakOK(x)'
  BY <1>10, <1>k DEF StrongRef, counts, claims, values, collector, reclaimer, strings, Ready
<1>11. ASSUME NEW t \in Threads, TryIncRef(t) PROVE WeakOK(x)'
  BY <1>11, <1>k DEF TryIncRef, counts, claims, values, collector, reclaimer, strings, Bump
<1>12. ASSUME NEW t \in Threads, Recheck(t) PROVE WeakOK(x)'
  BY <1>12, <1>k DEF Recheck, counts, claims, values, collector, reclaimer, strings
<1>13. ASSUME NEW t \in Threads, Intern(t) PROVE WeakOK(x)'
  BY <1>13, <1>k DEF Intern, counts, claims, values, collector, reclaimer, strings, Ready
<1>14. ASSUME NEW t \in Threads, Lookup(t) PROVE WeakOK(x)'
  BY <1>14, <1>k DEF Lookup, counts, claims, values, collector, reclaimer, strings, Bump
<1>15. ASSUME NEW t \in Threads, NEW s \in Strings, AllocString(t, s) PROVE WeakOK(x)'
  <2>1. s # x => phase'[x] = phase[x] /\ weak'[x] = weak[x]
    BY <1>15 DEF AllocString, Build
  <2> QED
    BY <1>15, <1>b, <1>k, <2>1 DEF AllocString, Build, reclaimer, values
<1>16. ASSUME NEW t \in Threads, PublishString(t) PROVE WeakOK(x)'
  BY <1>16, <1>k DEF PublishString, counts, claims, values, collector, reclaimer, strings
<1>17. ASSUME NEW t \in Threads, Own(t) PROVE WeakOK(x)'
  BY <1>17, <1>k DEF Own, counts, claims, values, collector, reclaimer, strings, Bump
<1>18. ASSUME NEW a \in Actor, DecRef(a) PROVE WeakOK(x)'
  BY <1>18, <1>k DEF DecRef, counts, claims, values, collector, reclaimer, strings, Bump
<1>19. ASSUME NEW a \in Actor, Claim(a) PROVE WeakOK(x)'
  BY <1>19, <1>k DEF Claim, counts, claims, values, collector, reclaimer, strings
<1>20. ASSUME NEW a \in Actor, DropOnce(a) PROVE WeakOK(x)'
  BY <1>20, <1>k DEF DropOnce, counts, claims, values, collector, reclaimer, strings
<1>21. ASSUME NEW a \in Actor, Null(a) PROVE WeakOK(x)'
  BY <1>21, <1>k DEF Null, counts, claims, values, collector, reclaimer, strings
<1>22. ASSUME NEW a \in Actor, Retire(a) PROVE WeakOK(x)'
  BY <1>22, <1>k DEF Retire, counts, claims, values, collector, reclaimer, strings
<1>23. ASSUME Mark PROVE WeakOK(x)'
  BY <1>23, <1>k DEF Mark, counts, claims, values, collector, reclaimer, strings
<1>24. ASSUME NEW o \in Objs, Trim(o) PROVE WeakOK(x)'
  BY <1>24, <1>k DEF Trim, counts, claims, values, collector, reclaimer, strings
<1>25. ASSUME TrimDone PROVE WeakOK(x)'
  BY <1>25, <1>k DEF TrimDone, counts, claims, values, collector, reclaimer, strings
<1>26. ASSUME Sweep PROVE WeakOK(x)'
  BY <1>26, <1>k DEF Sweep, counts, claims, values, collector, reclaimer, strings
<1>27. ASSUME Publish PROVE WeakOK(x)'
  BY <1>27, <1>k DEF Publish, counts, claims, values, collector, reclaimer, strings
<1>28. ASSUME Drain PROVE WeakOK(x)'
  <2>1. Kept(x)' = Kept(x) /\ Shared(x)' = Shared(x)
    BY <1>28, <1>s DEF Drain, Kept, Shared
  <2>2. WeakGains(x, 0)
    BY <1>28, WeakSame DEF Drain, values
  <2>3. phase'[x] = phase[x] /\ weak'[x] = weak[x] + 0 + 0 /\ Shared(x)' + Kept(x)' = Shared(x) + Kept(x) + 0
    BY <1>28, <1>n, <2>1 DEF Drain, counts
  <2>4. phase'[x] \in {"none", "freed"} <=> weak'[x] = 0
    BY <1>n, <2>3
  <2> QED
    BY <2>2, <2>3, <2>4, WeakSum
<1>29. ASSUME DropNext PROVE WeakOK(x)'
  BY <1>29, <1>k DEF DropNext, counts, claims, values, collector, reclaimer, strings
<1>30. ASSUME Hold PROVE WeakOK(x)'
  <2>1. Shared(x)' = Shared(x)
    BY <1>30, <1>s DEF Hold, Shared
  <2>2. WeakGains(x, 0)
    BY <1>30, WeakSame DEF Hold, values
  <2>3. CASE InBatch(x)
    <3>1. Kept(x) = 0 /\ Kept(x)' = 1
      BY <1>30, <2>3 DEF Hold, Kept, InBatch
    <3>2. weak'[x] = weak[x] + 0 + 1 /\ phase'[x] = phase[x] /\ phase[x] = "built"
      BY <1>30, <1>n, <2>3 DEF Hold, InBatch, BatchInv, BatchOK, Dead
    <3> QED
      BY <1>n, <2>1, <2>2, <3>1, <3>2, WeakSum
  <2>4. CASE ~InBatch(x)
    <3>1. Kept(x) = 0 /\ Kept(x)' = 0
      BY <1>30, <2>4 DEF Hold, Kept, InBatch
    <3>2. weak'[x] = weak[x] + 0 + 0 /\ phase'[x] = phase[x]
      BY <1>30, <1>n, <2>4 DEF Hold, InBatch
    <3> QED
      BY <1>n, <2>1, <2>2, <3>1, <3>2, WeakSum
  <2> QED
    BY <2>3, <2>4
<1>31. ASSUME DestroyNext PROVE WeakOK(x)'
  <2>1. Head(rest) \in Objs /\ ToVisit(Head(rest))
    BY <1>31, HeadIn DEF DestroyNext, ToVisit, TypeInv
  <2>2. phase[Head(rest)] = "built"
    BY <2>1 DEF BatchInv, BatchOK, Dead
  <2>3. CASE x = Head(rest) /\ x \notin Actors
    <3>1. phase'[x] = "destroyed" /\ weak'[x] = weak[x]
      BY <1>31, <2>1, <2>3 DEF DestroyNext, Destroy, counts, TypeInv
    <3>2. Unweaking(x)'
      <4>1. Begun1(Rec, Op("unweak", x)) \/ Begun2(Rec, Op("dec", ref[x]["hidden"]), Op("unweak", x))
        BY <1>31, <2>3, DestroyShape
      <4> QED
        BY <4>1 DEF Begun1, Begun2, Unweaking, Has, Count, Step, Op
    <3>3. Shared(x) = 1 /\ Shared(x)' = 1 /\ Kept(x)' = Kept(x)
      BY <1>31, <2>2, <2>3, <3>1, <3>2 DEF DestroyNext, Shared, Kept, InBatch
    <3>4. WeakGains(x, 0)
      BY <1>31, WeakSame DEF DestroyNext
    <3>5. weak'[x] = weak[x] + 0 + 0 /\ Shared(x)' + Kept(x)' = Shared(x) + Kept(x) + 0
      BY <1>n, <3>1, <3>3
    <3>6. phase'[x] \in {"none", "freed"} <=> weak'[x] = 0
      BY <1>n, <2>2, <2>3, <3>1
    <3> QED
      BY <3>4, <3>5, <3>6, WeakSum
  <2>4. CASE ~(x = Head(rest) /\ x \notin Actors)
    <3>1. phase'[x] = phase[x] /\ weak'[x] = weak[x]
      <4>1. CASE x = Head(rest)
        BY <1>31, <2>4, <4>1 DEF DestroyNext, counts
      <4>2. CASE x # Head(rest)
        BY <1>31, <4>2 DEF DestroyNext, Destroy, counts, TypeInv
      <4> QED
        BY <4>1, <4>2
    <3> QED
      BY <1>31, <1>k, <3>1 DEF DestroyNext
  <2> QED
    BY <2>3, <2>4
<1>32. ASSUME NEW a \in Actor, Unweak(a) PROVE WeakOK(x)'
  <2>1. Current(a) \in Objs /\ a = Rec /\ Count(a) = 1 /\ phase[Current(a)] = "destroyed" /\ Doing(a, "unweak")
    BY <1>32, UnweakHere DEF Unweak
  <2>2. weak' = [weak EXCEPT ![Current(a)] = weak[Current(a)] + (-1)]
    BY <1>32 DEF Unweak, Bump
  <2>3. CASE x = Current(a)
    <3>1. Has(Rec, 1, "unweak", x)
      BY <2>1, <2>3, Here DEF Has
    <3>2. weak'[x] = weak[x] + 0 + (-1) /\ phase'[x] = IF weak[x] = 1 THEN "freed" ELSE phase[x]
      BY <1>32, <1>n, <2>2, <2>3 DEF Unweak, FreedIfLast, TypeInv
    <3>3. ~Unweaking(x)'
      BY <1>32, UnweakGone
    <3>4. Shared(x) = 1 /\ Shared(x)' = 0 /\ Kept(x)' = Kept(x)
      BY <1>32, <2>1, <2>3, <3>1, <3>2, <3>3 DEF Unweak, Shared, Kept, Unweaking, InBatch, reclaimer
    <3>5. WeakGains(x, 0)
      BY <1>32, WeakSame DEF Unweak, values
    <3>6. phase'[x] \in {"none", "freed"} <=> weak'[x] = 0
      BY <1>n, <2>1, <2>3, <3>2, <3>4
    <3>7. Shared(x)' + Kept(x)' = Shared(x) + Kept(x) + (-1)
      BY <1>n, <3>4
    <3> QED
      BY <3>2, <3>5, <3>6, <3>7, WeakSum
  <2>4. CASE x # Current(a)
    <3>1. phase'[x] = phase[x] /\ weak'[x] = weak[x]
      BY <1>32, <2>4 DEF Unweak, Bump, FreedIfLast
    <3> QED
      BY <1>32, <1>k, <3>1 DEF Unweak, values, reclaimer
  <2> QED
    BY <2>3, <2>4
<1>33. ASSUME ReleaseHolds PROVE WeakOK(x)'
  <2>0. todo' = todo /\ WeakGains(x, 0)
    BY <1>33, WeakSame DEF ReleaseHolds, values
  <2>1. ~InBatch(x)'
    BY <1>33, EmptyIn DEF ReleaseHolds, InBatch
  <2>2. CASE InBatch(x)
    <3>1. Kept(x) = 1 /\ Kept(x)' = 0
      BY <1>33, <2>1, <2>2 DEF ReleaseHolds, Kept
    <3>2. phase[x] \notin {"none", "freed"}
      BY <2>2 DEF BatchInv, BatchOK, LinkInv, LinkOK
    <3>3. weak'[x] = weak[x] + 0 + (-1) /\ phase'[x] = IF weak[x] = 1 THEN "freed" ELSE phase[x]
      BY <1>33, <1>n, <2>2 DEF ReleaseHolds, InBatch
    <3>4. weak[x] = 1 => Shared(x) = 0
      BY <1>n, <3>1
    <3>5. Shared(x)' = Shared(x)
      BY <1>s, <2>0, <3>3, <3>4 DEF Shared
    <3>6. phase'[x] \in {"none", "freed"} <=> weak'[x] = 0
      BY <1>n, <3>2, <3>3
    <3>7. Shared(x)' + Kept(x)' = Shared(x) + Kept(x) + (-1)
      BY <1>n, <3>1, <3>5
    <3> QED
      BY <2>0, <3>3, <3>6, <3>7, WeakSum
  <2>3. CASE ~InBatch(x)
    <3>1. Kept(x) = 0 /\ Kept(x)' = 0
      BY <2>1, <2>3 DEF Kept
    <3>2. weak'[x] = weak[x] + 0 + 0 /\ phase'[x] = phase[x]
      BY <1>33, <1>n, <2>3 DEF ReleaseHolds, InBatch
    <3>3. Shared(x)' = Shared(x)
      BY <1>s, <2>0, <3>2 DEF Shared
    <3> QED
      BY <1>n, <2>0, <3>1, <3>2, <3>3, WeakSum
  <2> QED
    BY <2>2, <2>3
<1>34. ASSUME NEW o \in Actors, FinalizeActor(o) PROVE WeakOK(x)'
  <2>1. o \in Objs /\ Dead(o)
    BY <1>34, NoneParts DEF FinalizeActor, BatchInv, BatchOK
  <2>2. weak' = [weak EXCEPT ![o] = weak[o] + (-1)]
    BY <1>34 DEF FinalizeActor, Bump
  <2>3. CASE x = o
    <3>1. weak'[x] = weak[x] + 0 + (-1) /\ phase'[x] = IF weak[x] = 1 THEN "freed" ELSE "destroyed"
      BY <1>34, <1>n, <2>1, <2>2, <2>3 DEF FinalizeActor, TypeInv
    <3>2. ~Unweaking(x)
      <4> SUFFICES ASSUME Unweaking(x) PROVE FALSE
        OBVIOUS
      <4>1. Rec \in Actor /\ 1 \in 1 .. Count(Rec) /\ Step(Rec, 1).op = "unweak" /\ Step(Rec, 1).obj = x
        BY ActorParts DEF Unweaking, Has
      <4> QED
        BY <2>1, <2>3, <4>1 DEF UnweakInv, UnweakOK, Dead
    <3>3. Shared(x) = 1 /\ Shared(x)' = 0 /\ Kept(x)' = Kept(x)
      BY <1>34, <1>s, <2>1, <2>3, <3>1, <3>2 DEF FinalizeActor, Shared, Kept, InBatch, Dead
    <3>4. WeakGains(x, 0)
      BY <1>34, WeakSame DEF FinalizeActor, values
    <3>5. phase'[x] \in {"none", "freed"} <=> weak'[x] = 0
      BY <1>n, <3>1, <3>3
    <3>6. Shared(x)' + Kept(x)' = Shared(x) + Kept(x) + (-1)
      BY <1>n, <3>3
    <3>7. weak'[x] = weak[x] + 0 + (-1)
      BY <3>1
    <3> QED
      BY <3>4, <3>5, <3>6, <3>7, WeakSum
  <2>4. CASE x # o
    <3>1. phase'[x] = phase[x] /\ weak'[x] = weak[x]
      BY <1>34, <2>4 DEF FinalizeActor, Bump
    <3> QED
      BY <1>34, <1>k, <3>1 DEF FinalizeActor, values
  <2> QED
    BY <2>3, <2>4
<1>35. ASSUME UNCHANGED vars PROVE WeakOK(x)'
  BY <1>35, <1>k DEF vars, counts, claims, values, collector, reclaimer, strings
<1> QED
  BY <1>0, <1>1, <1>2, <1>3, <1>4, <1>5, <1>6, <1>7, <1>8, <1>9, <1>10, <1>11, <1>12, <1>13,
      <1>14, <1>15, <1>16, <1>17, <1>18, <1>19, <1>20, <1>21, <1>22, <1>23, <1>24, <1>25, <1>26,
      <1>27, <1>28, <1>29, <1>30, <1>31, <1>32, <1>33, <1>34, <1>35, StepKinds

-----------------------------------------------------------------------------
(* Claims, and the places of a dead object. *)

(* A new object can be promoted. *)
LEMMA BornStep ==
  ASSUME TypeInv, NameInv, StrongInv, WeakInv, LinkInv, PlaceInv, BatchInv, RefInv, HeldInv,
         DecInv, ClaimsInv, RetireInv, ThreadInv, StringInv, UnweakInv, MarkInv, PhaseInv,
         TableInv, NEW x \in Objs, [Next]_vars
  PROVE  Born(x) => x \in world.objs /\ linked'[x] /\ ~collecting'[x]
<1>0. world.threads \subseteq Threads
  BY WorldThreads
<1>1. ASSUME NEW t \in Threads, NEW o \in Objs, New(t, o)
      PROVE  Born(x) => x \in world.objs /\ linked'[x] /\ ~collecting'[x]
  BY <1>1, NotBuilt, NoneParts DEF New, Build, Born, TypeInv, values
<1>2. ASSUME NEW t \in Threads, NEW u \in Threads, NEW o \in Objs, Share(t, u, o)
      PROVE  Born(x) => x \in world.objs /\ linked'[x] /\ ~collecting'[x]
  BY <1>2 DEF Share, counts, claims, values, collector, reclaimer, strings, Ready, Bump, Born
<1>3. ASSUME NEW t \in Threads, NEW o \in Objs, Drop(t, o)
      PROVE  Born(x) => x \in world.objs /\ linked'[x] /\ ~collecting'[x]
  BY <1>3 DEF Drop, counts, claims, values, collector, reclaimer, strings, Ready, Born
<1>4. ASSUME NEW t \in Threads, NEW o \in Objs, NEW k \in Slots, NEW p \in Objs, Store(t, o, k, p)
      PROVE  Born(x) => x \in world.objs /\ linked'[x] /\ ~collecting'[x]
  BY <1>4 DEF Store, counts, claims, values, collector, reclaimer, strings, Ready, Born
<1>5. ASSUME NEW t \in Threads, Put(t)
      PROVE  Born(x) => x \in world.objs /\ linked'[x] /\ ~collecting'[x]
  BY <1>5 DEF Put, counts, claims, values, collector, reclaimer, strings, Bump, Born
<1>6. ASSUME NEW t \in Threads, NEW o \in Objs, NEW k \in Slots, Load(t, o, k)
      PROVE  Born(x) => x \in world.objs /\ linked'[x] /\ ~collecting'[x]
  BY <1>6 DEF Load, counts, claims, values, collector, reclaimer, strings, Ready, Bump, Born
<1>7. ASSUME NEW t \in Threads, NEW o \in Objs, NEW v \in Versions, SaveVersion(t, o, v)
      PROVE  Born(x) => x \in world.objs /\ linked'[x] /\ ~collecting'[x]
  BY <1>7, NotBuilt, NoneParts DEF SaveVersion, Build, Born, TypeInv, values
<1>8. ASSUME NEW t \in Threads, NEW o \in Objs, WeakRef(t, o)
      PROVE  Born(x) => x \in world.objs /\ linked'[x] /\ ~collecting'[x]
  BY <1>8 DEF WeakRef, counts, claims, values, collector, reclaimer, strings, Ready, Bump, Born
<1>9. ASSUME NEW t \in Threads, NEW o \in Objs, DropWeak(t, o)
      PROVE  Born(x) => x \in world.objs /\ linked'[x] /\ ~collecting'[x]
  BY <1>9 DEF DropWeak, FreedIfLast, Born, TypeInv
<1>10. ASSUME NEW t \in Threads, NEW o \in Objs, StrongRef(t, o)
      PROVE  Born(x) => x \in world.objs /\ linked'[x] /\ ~collecting'[x]
  BY <1>10 DEF StrongRef, counts, claims, values, collector, reclaimer, strings, Ready, Born
<1>11. ASSUME NEW t \in Threads, TryIncRef(t)
      PROVE  Born(x) => x \in world.objs /\ linked'[x] /\ ~collecting'[x]
  BY <1>11 DEF TryIncRef, counts, claims, values, collector, reclaimer, strings, Bump, Born
<1>12. ASSUME NEW t \in Threads, Recheck(t)
      PROVE  Born(x) => x \in world.objs /\ linked'[x] /\ ~collecting'[x]
  BY <1>12 DEF Recheck, counts, claims, values, collector, reclaimer, strings, Born
<1>13. ASSUME NEW t \in Threads, Intern(t)
      PROVE  Born(x) => x \in world.objs /\ linked'[x] /\ ~collecting'[x]
  BY <1>13 DEF Intern, counts, claims, values, collector, reclaimer, strings, Ready, Born
<1>14. ASSUME NEW t \in Threads, Lookup(t)
      PROVE  Born(x) => x \in world.objs /\ linked'[x] /\ ~collecting'[x]
  BY <1>14 DEF Lookup, counts, claims, values, collector, reclaimer, strings, Bump, Born
<1>15. ASSUME NEW t \in Threads, NEW s \in Strings, AllocString(t, s)
      PROVE  Born(x) => x \in world.objs /\ linked'[x] /\ ~collecting'[x]
  BY <1>15, NotBuilt, NoneParts DEF AllocString, Build, Born, TypeInv, values
<1>16. ASSUME NEW t \in Threads, PublishString(t)
      PROVE  Born(x) => x \in world.objs /\ linked'[x] /\ ~collecting'[x]
  BY <1>16 DEF PublishString, counts, claims, values, collector, reclaimer, strings, Born
<1>17. ASSUME NEW t \in Threads, Own(t)
      PROVE  Born(x) => x \in world.objs /\ linked'[x] /\ ~collecting'[x]
  BY <1>17 DEF Own, counts, claims, values, collector, reclaimer, strings, Bump, Born
<1>18. ASSUME NEW a \in Actor, DecRef(a)
      PROVE  Born(x) => x \in world.objs /\ linked'[x] /\ ~collecting'[x]
  BY <1>18 DEF DecRef, counts, claims, values, collector, reclaimer, strings, Bump, Born
<1>19. ASSUME NEW a \in Actor, Claim(a)
      PROVE  Born(x) => x \in world.objs /\ linked'[x] /\ ~collecting'[x]
  BY <1>19 DEF Claim, counts, claims, values, collector, reclaimer, strings, Born
<1>20. ASSUME NEW a \in Actor, DropOnce(a)
      PROVE  Born(x) => x \in world.objs /\ linked'[x] /\ ~collecting'[x]
  BY <1>20 DEF DropOnce, counts, claims, values, collector, reclaimer, strings, Born
<1>21. ASSUME NEW a \in Actor, Null(a)
      PROVE  Born(x) => x \in world.objs /\ linked'[x] /\ ~collecting'[x]
  BY <1>21 DEF Null, counts, claims, values, collector, reclaimer, strings, Born
<1>22. ASSUME NEW a \in Actor, Retire(a)
      PROVE  Born(x) => x \in world.objs /\ linked'[x] /\ ~collecting'[x]
  BY <1>22 DEF Retire, counts, claims, values, collector, reclaimer, strings, Born
<1>23. ASSUME Mark PROVE Born(x) => x \in world.objs /\ linked'[x] /\ ~collecting'[x]
  BY <1>23 DEF Mark, counts, claims, values, collector, reclaimer, strings, Born
<1>24. ASSUME NEW o \in Objs, Trim(o)
      PROVE  Born(x) => x \in world.objs /\ linked'[x] /\ ~collecting'[x]
  BY <1>24 DEF Trim, counts, claims, values, collector, reclaimer, strings, Born
<1>25. ASSUME TrimDone PROVE Born(x) => x \in world.objs /\ linked'[x] /\ ~collecting'[x]
  BY <1>25 DEF TrimDone, counts, claims, values, collector, reclaimer, strings, Born
<1>26. ASSUME Sweep PROVE Born(x) => x \in world.objs /\ linked'[x] /\ ~collecting'[x]
  BY <1>26 DEF Sweep, counts, claims, values, collector, reclaimer, strings, Born
<1>27. ASSUME Publish PROVE Born(x) => x \in world.objs /\ linked'[x] /\ ~collecting'[x]
  BY <1>27 DEF Publish, counts, claims, values, collector, reclaimer, strings, Born
<1>28. ASSUME Drain PROVE Born(x) => x \in world.objs /\ linked'[x] /\ ~collecting'[x]
  BY <1>28 DEF Drain, counts, claims, values, collector, reclaimer, strings, Born
<1>29. ASSUME DropNext PROVE Born(x) => x \in world.objs /\ linked'[x] /\ ~collecting'[x]
  BY <1>29 DEF DropNext, counts, claims, values, collector, reclaimer, strings, Born
<1>30. ASSUME Hold PROVE Born(x) => x \in world.objs /\ linked'[x] /\ ~collecting'[x]
  BY <1>30 DEF Hold, counts, claims, values, collector, reclaimer, strings, Born
<1>31. ASSUME DestroyNext PROVE Born(x) => x \in world.objs /\ linked'[x] /\ ~collecting'[x]
  BY <1>31 DEF DestroyNext, Destroy, Born, TypeInv
<1>32. ASSUME NEW a \in Actor, Unweak(a)
      PROVE  Born(x) => x \in world.objs /\ linked'[x] /\ ~collecting'[x]
  BY <1>32 DEF Unweak, FreedIfLast, Born, TypeInv
<1>33. ASSUME ReleaseHolds PROVE Born(x) => x \in world.objs /\ linked'[x] /\ ~collecting'[x]
  BY <1>33 DEF ReleaseHolds, Born, TypeInv
<1>34. ASSUME NEW o \in Actors, FinalizeActor(o)
      PROVE  Born(x) => x \in world.objs /\ linked'[x] /\ ~collecting'[x]
  BY <1>34 DEF FinalizeActor, Born, TypeInv
<1>35. ASSUME UNCHANGED vars PROVE Born(x) => x \in world.objs /\ linked'[x] /\ ~collecting'[x]
  BY <1>35 DEF vars, counts, claims, values, collector, reclaimer, strings, Born
<1> QED
  BY <1>0, <1>1, <1>2, <1>3, <1>4, <1>5, <1>6, <1>7, <1>8, <1>9, <1>10, <1>11, <1>12, <1>13,
      <1>14, <1>15, <1>16, <1>17, <1>18, <1>19, <1>20, <1>21, <1>22, <1>23, <1>24, <1>25, <1>26,
      <1>27, <1>28, <1>29, <1>30, <1>31, <1>32, <1>33, <1>34, <1>35, StepKinds

(* How the pointer to an object changes. *)
Links(x) ==
  \/ linked'[x] = linked[x]
  \/ Born(x) /\ linked'[x]
  \/ ~linked'[x] /\ \E a \in Actor : Null(a) /\ x = Current(a)
  \/ ~linked'[x] /\ Sweep /\ x \in Unmarked

(* The pointer to an object is set when it is built, and cleared when it dies. *)
LEMMA LinkedStep ==
  ASSUME TypeInv, NameInv, StrongInv, WeakInv, LinkInv, PlaceInv, BatchInv, RefInv, HeldInv,
         DecInv, ClaimsInv, RetireInv, ThreadInv, StringInv, UnweakInv, MarkInv, PhaseInv,
         TableInv, NEW x \in Objs, [Next]_vars
  PROVE  Links(x)
<1>0. world.threads \subseteq Threads
  BY WorldThreads
<1>1. ASSUME NEW t \in Threads, NEW o \in Objs, New(t, o) PROVE Links(x)
  BY <1>1 DEF New, Build, Born, Links, TypeInv, values
<1>2. ASSUME NEW t \in Threads, NEW u \in Threads, NEW o \in Objs, Share(t, u, o) PROVE Links(x)
  BY <1>2 DEF Share, counts, claims, values, collector, reclaimer, strings, Ready, Bump, Links
<1>3. ASSUME NEW t \in Threads, NEW o \in Objs, Drop(t, o) PROVE Links(x)
  BY <1>3 DEF Drop, counts, claims, values, collector, reclaimer, strings, Ready, Links
<1>4. ASSUME NEW t \in Threads, NEW o \in Objs, NEW k \in Slots, NEW p \in Objs, Store(t, o, k, p)
      PROVE  Links(x)
  BY <1>4 DEF Store, counts, claims, values, collector, reclaimer, strings, Ready, Links
<1>5. ASSUME NEW t \in Threads, Put(t) PROVE Links(x)
  BY <1>5 DEF Put, counts, claims, values, collector, reclaimer, strings, Bump, Links
<1>6. ASSUME NEW t \in Threads, NEW o \in Objs, NEW k \in Slots, Load(t, o, k) PROVE Links(x)
  BY <1>6 DEF Load, counts, claims, values, collector, reclaimer, strings, Ready, Bump, Links
<1>7. ASSUME NEW t \in Threads, NEW o \in Objs, NEW v \in Versions, SaveVersion(t, o, v)
      PROVE  Links(x)
  BY <1>7 DEF SaveVersion, Build, Born, Links, TypeInv, values
<1>8. ASSUME NEW t \in Threads, NEW o \in Objs, WeakRef(t, o) PROVE Links(x)
  BY <1>8 DEF WeakRef, counts, claims, values, collector, reclaimer, strings, Ready, Bump, Links
<1>9. ASSUME NEW t \in Threads, NEW o \in Objs, DropWeak(t, o) PROVE Links(x)
  BY <1>9 DEF DropWeak, counts, claims, values, collector, reclaimer, strings, FreedIfLast,
      Ready, Bump, Links
<1>10. ASSUME NEW t \in Threads, NEW o \in Objs, StrongRef(t, o) PROVE Links(x)
  BY <1>10 DEF StrongRef, counts, claims, values, collector, reclaimer, strings, Ready, Links
<1>11. ASSUME NEW t \in Threads, TryIncRef(t) PROVE Links(x)
  BY <1>11 DEF TryIncRef, counts, claims, values, collector, reclaimer, strings, Bump, Links
<1>12. ASSUME NEW t \in Threads, Recheck(t) PROVE Links(x)
  BY <1>12 DEF Recheck, counts, claims, values, collector, reclaimer, strings, Links
<1>13. ASSUME NEW t \in Threads, Intern(t) PROVE Links(x)
  BY <1>13 DEF Intern, counts, claims, values, collector, reclaimer, strings, Ready, Links
<1>14. ASSUME NEW t \in Threads, Lookup(t) PROVE Links(x)
  BY <1>14 DEF Lookup, counts, claims, values, collector, reclaimer, strings, Bump, Links
<1>15. ASSUME NEW t \in Threads, NEW s \in Strings, AllocString(t, s) PROVE Links(x)
  BY <1>15 DEF AllocString, Build, Born, Links, TypeInv, values
<1>16. ASSUME NEW t \in Threads, PublishString(t) PROVE Links(x)
  BY <1>16 DEF PublishString, counts, claims, values, collector, reclaimer, strings, Links
<1>17. ASSUME NEW t \in Threads, Own(t) PROVE Links(x)
  BY <1>17 DEF Own, counts, claims, values, collector, reclaimer, strings, Bump, Links
<1>18. ASSUME NEW a \in Actor, DecRef(a) PROVE Links(x)
  BY <1>18 DEF DecRef, counts, claims, values, collector, reclaimer, strings, Bump, Links
<1>19. ASSUME NEW a \in Actor, Claim(a) PROVE Links(x)
  BY <1>19 DEF Claim, counts, claims, values, collector, reclaimer, strings, Links
<1>20. ASSUME NEW a \in Actor, DropOnce(a) PROVE Links(x)
  BY <1>20 DEF DropOnce, counts, claims, values, collector, reclaimer, strings, Links
<1>21. ASSUME NEW a \in Actor, Null(a) PROVE Links(x)
  <2>1. Current(a) \in Objs
    BY <1>21, NullHere DEF Null
  <2> QED
    BY <1>21, <2>1 DEF Null, Links, TypeInv
<1>22. ASSUME NEW a \in Actor, Retire(a) PROVE Links(x)
  BY <1>22 DEF Retire, counts, claims, values, collector, reclaimer, strings, Links
<1>23. ASSUME Mark PROVE Links(x)
  BY <1>23 DEF Mark, counts, claims, values, collector, reclaimer, strings, Links
<1>24. ASSUME NEW o \in Objs, Trim(o) PROVE Links(x)
  BY <1>24 DEF Trim, counts, claims, values, collector, reclaimer, strings, Links
<1>25. ASSUME TrimDone PROVE Links(x)
  BY <1>25 DEF TrimDone, counts, claims, values, collector, reclaimer, strings, Links
<1>26. ASSUME Sweep PROVE Links(x)
  BY <1>26 DEF Sweep, Links, TypeInv
<1>27. ASSUME Publish PROVE Links(x)
  BY <1>27 DEF Publish, counts, claims, values, collector, reclaimer, strings, Links
<1>28. ASSUME Drain PROVE Links(x)
  BY <1>28 DEF Drain, counts, claims, values, collector, reclaimer, strings, Links
<1>29. ASSUME DropNext PROVE Links(x)
  BY <1>29 DEF DropNext, counts, claims, values, collector, reclaimer, strings, Links
<1>30. ASSUME Hold PROVE Links(x)
  BY <1>30 DEF Hold, counts, claims, values, collector, reclaimer, strings, Links
<1>31. ASSUME DestroyNext PROVE Links(x)
  BY <1>31 DEF DestroyNext, counts, claims, values, collector, reclaimer, strings, Destroy,
      SelfErase, Links
<1>32. ASSUME NEW a \in Actor, Unweak(a) PROVE Links(x)
  BY <1>32 DEF Unweak, counts, claims, values, collector, reclaimer, strings, FreedIfLast, Bump,
      Links
<1>33. ASSUME ReleaseHolds PROVE Links(x)
  BY <1>33 DEF ReleaseHolds, counts, claims, values, collector, reclaimer, strings, Links
<1>34. ASSUME NEW o \in Actors, FinalizeActor(o) PROVE Links(x)
  BY <1>34 DEF FinalizeActor, counts, claims, values, collector, reclaimer, strings, Bump, Links
<1>35. ASSUME UNCHANGED vars PROVE Links(x)
  BY <1>35 DEF vars, counts, claims, values, collector, reclaimer, strings, Links
<1> QED
  BY <1>0, <1>1, <1>2, <1>3, <1>4, <1>5, <1>6, <1>7, <1>8, <1>9, <1>10, <1>11, <1>12, <1>13,
      <1>14, <1>15, <1>16, <1>17, <1>18, <1>19, <1>20, <1>21, <1>22, <1>23, <1>24, <1>25, <1>26,
      <1>27, <1>28, <1>29, <1>30, <1>31, <1>32, <1>33, <1>34, <1>35, StepKinds

(* An object's references are released by one step. *)
LEMMA DropStep ==
  ASSUME TypeInv, NameInv, StrongInv, WeakInv, LinkInv, PlaceInv, BatchInv, RefInv, HeldInv,
         DecInv, ClaimsInv, RetireInv, ThreadInv, StringInv, UnweakInv, MarkInv, PhaseInv,
         TableInv, NEW x \in Objs, [Next]_vars
  PROVE  dropClaimed'[x] = dropClaimed[x] \/ (dropClaimed'[x] /\ \E b \in Actor : DropOnce(b) /\ x = Current(b))
<1>0. world.threads \subseteq Threads
  BY WorldThreads
<1>1. ASSUME NEW t \in Threads, NEW o \in Objs, New(t, o)
      PROVE  dropClaimed'[x] = dropClaimed[x] \/ (dropClaimed'[x] /\ \E b \in Actor : DropOnce(b) /\ x = Current(b))
  BY <1>1 DEF New, counts, claims, values, collector, reclaimer, strings, Build, Ready, Bump
<1>2. ASSUME NEW t \in Threads, NEW u \in Threads, NEW o \in Objs, Share(t, u, o)
      PROVE  dropClaimed'[x] = dropClaimed[x] \/ (dropClaimed'[x] /\ \E b \in Actor : DropOnce(b) /\ x = Current(b))
  BY <1>2 DEF Share, counts, claims, values, collector, reclaimer, strings, Ready, Bump
<1>3. ASSUME NEW t \in Threads, NEW o \in Objs, Drop(t, o)
      PROVE  dropClaimed'[x] = dropClaimed[x] \/ (dropClaimed'[x] /\ \E b \in Actor : DropOnce(b) /\ x = Current(b))
  BY <1>3 DEF Drop, counts, claims, values, collector, reclaimer, strings, Ready
<1>4. ASSUME NEW t \in Threads, NEW o \in Objs, NEW k \in Slots, NEW p \in Objs, Store(t, o, k, p)
      PROVE  dropClaimed'[x] = dropClaimed[x] \/ (dropClaimed'[x] /\ \E b \in Actor : DropOnce(b) /\ x = Current(b))
  BY <1>4 DEF Store, counts, claims, values, collector, reclaimer, strings, Ready
<1>5. ASSUME NEW t \in Threads, Put(t)
      PROVE  dropClaimed'[x] = dropClaimed[x] \/ (dropClaimed'[x] /\ \E b \in Actor : DropOnce(b) /\ x = Current(b))
  BY <1>5 DEF Put, counts, claims, values, collector, reclaimer, strings, Bump
<1>6. ASSUME NEW t \in Threads, NEW o \in Objs, NEW k \in Slots, Load(t, o, k)
      PROVE  dropClaimed'[x] = dropClaimed[x] \/ (dropClaimed'[x] /\ \E b \in Actor : DropOnce(b) /\ x = Current(b))
  BY <1>6 DEF Load, counts, claims, values, collector, reclaimer, strings, Ready, Bump
<1>7. ASSUME NEW t \in Threads, NEW o \in Objs, NEW v \in Versions, SaveVersion(t, o, v)
      PROVE  dropClaimed'[x] = dropClaimed[x] \/ (dropClaimed'[x] /\ \E b \in Actor : DropOnce(b) /\ x = Current(b))
  BY <1>7 DEF SaveVersion, counts, claims, values, collector, reclaimer, strings, Build, Ready
<1>8. ASSUME NEW t \in Threads, NEW o \in Objs, WeakRef(t, o)
      PROVE  dropClaimed'[x] = dropClaimed[x] \/ (dropClaimed'[x] /\ \E b \in Actor : DropOnce(b) /\ x = Current(b))
  BY <1>8 DEF WeakRef, counts, claims, values, collector, reclaimer, strings, Ready, Bump
<1>9. ASSUME NEW t \in Threads, NEW o \in Objs, DropWeak(t, o)
      PROVE  dropClaimed'[x] = dropClaimed[x] \/ (dropClaimed'[x] /\ \E b \in Actor : DropOnce(b) /\ x = Current(b))
  BY <1>9 DEF DropWeak, counts, claims, values, collector, reclaimer, strings, FreedIfLast,
      Ready, Bump
<1>10. ASSUME NEW t \in Threads, NEW o \in Objs, StrongRef(t, o)
      PROVE  dropClaimed'[x] = dropClaimed[x] \/ (dropClaimed'[x] /\ \E b \in Actor : DropOnce(b) /\ x = Current(b))
  BY <1>10 DEF StrongRef, counts, claims, values, collector, reclaimer, strings, Ready
<1>11. ASSUME NEW t \in Threads, TryIncRef(t)
      PROVE  dropClaimed'[x] = dropClaimed[x] \/ (dropClaimed'[x] /\ \E b \in Actor : DropOnce(b) /\ x = Current(b))
  BY <1>11 DEF TryIncRef, counts, claims, values, collector, reclaimer, strings, Bump
<1>12. ASSUME NEW t \in Threads, Recheck(t)
      PROVE  dropClaimed'[x] = dropClaimed[x] \/ (dropClaimed'[x] /\ \E b \in Actor : DropOnce(b) /\ x = Current(b))
  BY <1>12 DEF Recheck, counts, claims, values, collector, reclaimer, strings
<1>13. ASSUME NEW t \in Threads, Intern(t)
      PROVE  dropClaimed'[x] = dropClaimed[x] \/ (dropClaimed'[x] /\ \E b \in Actor : DropOnce(b) /\ x = Current(b))
  BY <1>13 DEF Intern, counts, claims, values, collector, reclaimer, strings, Ready
<1>14. ASSUME NEW t \in Threads, Lookup(t)
      PROVE  dropClaimed'[x] = dropClaimed[x] \/ (dropClaimed'[x] /\ \E b \in Actor : DropOnce(b) /\ x = Current(b))
  BY <1>14 DEF Lookup, counts, claims, values, collector, reclaimer, strings, Bump
<1>15. ASSUME NEW t \in Threads, NEW s \in Strings, AllocString(t, s)
      PROVE  dropClaimed'[x] = dropClaimed[x] \/ (dropClaimed'[x] /\ \E b \in Actor : DropOnce(b) /\ x = Current(b))
  BY <1>15 DEF AllocString, counts, claims, values, collector, reclaimer, strings, Build
<1>16. ASSUME NEW t \in Threads, PublishString(t)
      PROVE  dropClaimed'[x] = dropClaimed[x] \/ (dropClaimed'[x] /\ \E b \in Actor : DropOnce(b) /\ x = Current(b))
  BY <1>16 DEF PublishString, counts, claims, values, collector, reclaimer, strings
<1>17. ASSUME NEW t \in Threads, Own(t)
      PROVE  dropClaimed'[x] = dropClaimed[x] \/ (dropClaimed'[x] /\ \E b \in Actor : DropOnce(b) /\ x = Current(b))
  BY <1>17 DEF Own, counts, claims, values, collector, reclaimer, strings, Bump
<1>18. ASSUME NEW a \in Actor, DecRef(a)
      PROVE  dropClaimed'[x] = dropClaimed[x] \/ (dropClaimed'[x] /\ \E b \in Actor : DropOnce(b) /\ x = Current(b))
  BY <1>18 DEF DecRef, counts, claims, values, collector, reclaimer, strings, Bump
<1>19. ASSUME NEW a \in Actor, Claim(a)
      PROVE  dropClaimed'[x] = dropClaimed[x] \/ (dropClaimed'[x] /\ \E b \in Actor : DropOnce(b) /\ x = Current(b))
  BY <1>19 DEF Claim, counts, claims, values, collector, reclaimer, strings
<1>20. ASSUME NEW a \in Actor, DropOnce(a)
      PROVE  dropClaimed'[x] = dropClaimed[x] \/ (dropClaimed'[x] /\ \E b \in Actor : DropOnce(b) /\ x = Current(b))
  <2>1. Current(a) \in Objs
    BY <1>20, DropOnceHere DEF DropOnce
  <2> QED
    BY <1>20, <2>1 DEF DropOnce, TypeInv
<1>21. ASSUME NEW a \in Actor, Null(a)
      PROVE  dropClaimed'[x] = dropClaimed[x] \/ (dropClaimed'[x] /\ \E b \in Actor : DropOnce(b) /\ x = Current(b))
  BY <1>21 DEF Null, counts, claims, values, collector, reclaimer, strings
<1>22. ASSUME NEW a \in Actor, Retire(a)
      PROVE  dropClaimed'[x] = dropClaimed[x] \/ (dropClaimed'[x] /\ \E b \in Actor : DropOnce(b) /\ x = Current(b))
  BY <1>22 DEF Retire, counts, claims, values, collector, reclaimer, strings
<1>23. ASSUME Mark
      PROVE  dropClaimed'[x] = dropClaimed[x] \/ (dropClaimed'[x] /\ \E b \in Actor : DropOnce(b) /\ x = Current(b))
  BY <1>23 DEF Mark, counts, claims, values, collector, reclaimer, strings
<1>24. ASSUME NEW o \in Objs, Trim(o)
      PROVE  dropClaimed'[x] = dropClaimed[x] \/ (dropClaimed'[x] /\ \E b \in Actor : DropOnce(b) /\ x = Current(b))
  BY <1>24 DEF Trim, counts, claims, values, collector, reclaimer, strings
<1>25. ASSUME TrimDone
      PROVE  dropClaimed'[x] = dropClaimed[x] \/ (dropClaimed'[x] /\ \E b \in Actor : DropOnce(b) /\ x = Current(b))
  BY <1>25 DEF TrimDone, counts, claims, values, collector, reclaimer, strings
<1>26. ASSUME Sweep
      PROVE  dropClaimed'[x] = dropClaimed[x] \/ (dropClaimed'[x] /\ \E b \in Actor : DropOnce(b) /\ x = Current(b))
  BY <1>26 DEF Sweep, counts, claims, values, collector, reclaimer, strings
<1>27. ASSUME Publish
      PROVE  dropClaimed'[x] = dropClaimed[x] \/ (dropClaimed'[x] /\ \E b \in Actor : DropOnce(b) /\ x = Current(b))
  BY <1>27 DEF Publish, counts, claims, values, collector, reclaimer, strings
<1>28. ASSUME Drain
      PROVE  dropClaimed'[x] = dropClaimed[x] \/ (dropClaimed'[x] /\ \E b \in Actor : DropOnce(b) /\ x = Current(b))
  BY <1>28 DEF Drain, counts, claims, values, collector, reclaimer, strings
<1>29. ASSUME DropNext
      PROVE  dropClaimed'[x] = dropClaimed[x] \/ (dropClaimed'[x] /\ \E b \in Actor : DropOnce(b) /\ x = Current(b))
  BY <1>29 DEF DropNext, counts, claims, values, collector, reclaimer, strings
<1>30. ASSUME Hold
      PROVE  dropClaimed'[x] = dropClaimed[x] \/ (dropClaimed'[x] /\ \E b \in Actor : DropOnce(b) /\ x = Current(b))
  BY <1>30 DEF Hold, counts, claims, values, collector, reclaimer, strings
<1>31. ASSUME DestroyNext
      PROVE  dropClaimed'[x] = dropClaimed[x] \/ (dropClaimed'[x] /\ \E b \in Actor : DropOnce(b) /\ x = Current(b))
  BY <1>31 DEF DestroyNext, counts, claims, values, collector, reclaimer, strings, Destroy,
      SelfErase
<1>32. ASSUME NEW a \in Actor, Unweak(a)
      PROVE  dropClaimed'[x] = dropClaimed[x] \/ (dropClaimed'[x] /\ \E b \in Actor : DropOnce(b) /\ x = Current(b))
  BY <1>32 DEF Unweak, counts, claims, values, collector, reclaimer, strings, FreedIfLast, Bump
<1>33. ASSUME ReleaseHolds
      PROVE  dropClaimed'[x] = dropClaimed[x] \/ (dropClaimed'[x] /\ \E b \in Actor : DropOnce(b) /\ x = Current(b))
  BY <1>33 DEF ReleaseHolds, counts, claims, values, collector, reclaimer, strings
<1>34. ASSUME NEW o \in Actors, FinalizeActor(o)
      PROVE  dropClaimed'[x] = dropClaimed[x] \/ (dropClaimed'[x] /\ \E b \in Actor : DropOnce(b) /\ x = Current(b))
  BY <1>34 DEF FinalizeActor, counts, claims, values, collector, reclaimer, strings, Bump
<1>35. ASSUME UNCHANGED vars PROVE dropClaimed'[x] = dropClaimed[x] \/ (dropClaimed'[x] /\ \E b \in Actor : DropOnce(b) /\ x = Current(b))
  BY <1>35 DEF vars, counts, claims, values, collector, reclaimer, strings
<1> QED
  BY <1>0, <1>1, <1>2, <1>3, <1>4, <1>5, <1>6, <1>7, <1>8, <1>9, <1>10, <1>11, <1>12, <1>13,
      <1>14, <1>15, <1>16, <1>17, <1>18, <1>19, <1>20, <1>21, <1>22, <1>23, <1>24, <1>25, <1>26,
      <1>27, <1>28, <1>29, <1>30, <1>31, <1>32, <1>33, <1>34, <1>35, StepKinds

(* A behaviour is about one program. *)
LEMMA WorldStep ==
  ASSUME TypeInv, [Next]_vars
  PROVE  world' = world
<1>0. world.threads \subseteq Threads
  BY WorldThreads
<1>1. ASSUME NEW t \in Threads, NEW o \in Objs, New(t, o) PROVE world' = world
  BY <1>1 DEF New, counts, claims, values, collector, reclaimer, strings, Build, Ready, Bump
<1>2. ASSUME NEW t \in Threads, NEW u \in Threads, NEW o \in Objs, Share(t, u, o)
      PROVE  world' = world
  BY <1>2 DEF Share, counts, claims, values, collector, reclaimer, strings, Ready, Bump
<1>3. ASSUME NEW t \in Threads, NEW o \in Objs, Drop(t, o) PROVE world' = world
  BY <1>3 DEF Drop, counts, claims, values, collector, reclaimer, strings, Ready
<1>4. ASSUME NEW t \in Threads, NEW o \in Objs, NEW k \in Slots, NEW p \in Objs, Store(t, o, k, p)
      PROVE  world' = world
  BY <1>4 DEF Store, counts, claims, values, collector, reclaimer, strings, Ready
<1>5. ASSUME NEW t \in Threads, Put(t) PROVE world' = world
  BY <1>5 DEF Put, counts, claims, values, collector, reclaimer, strings, Bump
<1>6. ASSUME NEW t \in Threads, NEW o \in Objs, NEW k \in Slots, Load(t, o, k)
      PROVE  world' = world
  BY <1>6 DEF Load, counts, claims, values, collector, reclaimer, strings, Ready, Bump
<1>7. ASSUME NEW t \in Threads, NEW o \in Objs, NEW v \in Versions, SaveVersion(t, o, v)
      PROVE  world' = world
  BY <1>7 DEF SaveVersion, counts, claims, values, collector, reclaimer, strings, Build, Ready
<1>8. ASSUME NEW t \in Threads, NEW o \in Objs, WeakRef(t, o) PROVE world' = world
  BY <1>8 DEF WeakRef, counts, claims, values, collector, reclaimer, strings, Ready, Bump
<1>9. ASSUME NEW t \in Threads, NEW o \in Objs, DropWeak(t, o) PROVE world' = world
  BY <1>9 DEF DropWeak, counts, claims, values, collector, reclaimer, strings, FreedIfLast,
      Ready, Bump
<1>10. ASSUME NEW t \in Threads, NEW o \in Objs, StrongRef(t, o) PROVE world' = world
  BY <1>10 DEF StrongRef, counts, claims, values, collector, reclaimer, strings, Ready
<1>11. ASSUME NEW t \in Threads, TryIncRef(t) PROVE world' = world
  BY <1>11 DEF TryIncRef, counts, claims, values, collector, reclaimer, strings, Bump
<1>12. ASSUME NEW t \in Threads, Recheck(t) PROVE world' = world
  BY <1>12 DEF Recheck, counts, claims, values, collector, reclaimer, strings
<1>13. ASSUME NEW t \in Threads, Intern(t) PROVE world' = world
  BY <1>13 DEF Intern, counts, claims, values, collector, reclaimer, strings, Ready
<1>14. ASSUME NEW t \in Threads, Lookup(t) PROVE world' = world
  BY <1>14 DEF Lookup, counts, claims, values, collector, reclaimer, strings, Bump
<1>15. ASSUME NEW t \in Threads, NEW s \in Strings, AllocString(t, s) PROVE world' = world
  BY <1>15 DEF AllocString, counts, claims, values, collector, reclaimer, strings, Build
<1>16. ASSUME NEW t \in Threads, PublishString(t) PROVE world' = world
  BY <1>16 DEF PublishString, counts, claims, values, collector, reclaimer, strings
<1>17. ASSUME NEW t \in Threads, Own(t) PROVE world' = world
  BY <1>17 DEF Own, counts, claims, values, collector, reclaimer, strings, Bump
<1>18. ASSUME NEW a \in Actor, DecRef(a) PROVE world' = world
  BY <1>18 DEF DecRef, counts, claims, values, collector, reclaimer, strings, Bump
<1>19. ASSUME NEW a \in Actor, Claim(a) PROVE world' = world
  BY <1>19 DEF Claim, counts, claims, values, collector, reclaimer, strings
<1>20. ASSUME NEW a \in Actor, DropOnce(a) PROVE world' = world
  BY <1>20 DEF DropOnce, counts, claims, values, collector, reclaimer, strings
<1>21. ASSUME NEW a \in Actor, Null(a) PROVE world' = world
  BY <1>21 DEF Null, counts, claims, values, collector, reclaimer, strings
<1>22. ASSUME NEW a \in Actor, Retire(a) PROVE world' = world
  BY <1>22 DEF Retire, counts, claims, values, collector, reclaimer, strings
<1>23. ASSUME Mark PROVE world' = world
  BY <1>23 DEF Mark, counts, claims, values, collector, reclaimer, strings
<1>24. ASSUME NEW o \in Objs, Trim(o) PROVE world' = world
  BY <1>24 DEF Trim, counts, claims, values, collector, reclaimer, strings
<1>25. ASSUME TrimDone PROVE world' = world
  BY <1>25 DEF TrimDone, counts, claims, values, collector, reclaimer, strings
<1>26. ASSUME Sweep PROVE world' = world
  BY <1>26 DEF Sweep, counts, claims, values, collector, reclaimer, strings
<1>27. ASSUME Publish PROVE world' = world
  BY <1>27 DEF Publish, counts, claims, values, collector, reclaimer, strings
<1>28. ASSUME Drain PROVE world' = world
  BY <1>28 DEF Drain, counts, claims, values, collector, reclaimer, strings
<1>29. ASSUME DropNext PROVE world' = world
  BY <1>29 DEF DropNext, counts, claims, values, collector, reclaimer, strings
<1>30. ASSUME Hold PROVE world' = world
  BY <1>30 DEF Hold, counts, claims, values, collector, reclaimer, strings
<1>31. ASSUME DestroyNext PROVE world' = world
  BY <1>31 DEF DestroyNext
<1>32. ASSUME NEW a \in Actor, Unweak(a) PROVE world' = world
  BY <1>32 DEF Unweak, counts, claims, values, collector, reclaimer, strings, FreedIfLast, Bump
<1>33. ASSUME ReleaseHolds PROVE world' = world
  BY <1>33 DEF ReleaseHolds, counts, claims, values, collector, reclaimer, strings
<1>34. ASSUME NEW o \in Actors, FinalizeActor(o) PROVE world' = world
  BY <1>34 DEF FinalizeActor, counts, claims, values, collector, reclaimer, strings, Bump
<1>35. ASSUME UNCHANGED vars PROVE world' = world
  BY <1>35 DEF vars, counts, claims, values, collector, reclaimer, strings
<1> QED
  BY <1>0, <1>1, <1>2, <1>3, <1>4, <1>5, <1>6, <1>7, <1>8, <1>9, <1>10, <1>11, <1>12, <1>13,
      <1>14, <1>15, <1>16, <1>17, <1>18, <1>19, <1>20, <1>21, <1>22, <1>23, <1>24, <1>25, <1>26,
      <1>27, <1>28, <1>29, <1>30, <1>31, <1>32, <1>33, <1>34, <1>35, StepKinds

(* Claims, the pointer and the counts stay consistent. *)
LEMMA LinkStep ==
  ASSUME TypeInv, NameInv, StrongInv, WeakInv, LinkInv, PlaceInv, BatchInv, RefInv, HeldInv,
         DecInv, ClaimsInv, RetireInv, ThreadInv, StringInv, UnweakInv, MarkInv, PhaseInv,
         TableInv, NEW x \in Objs, [Next]_vars
  PROVE  LinkOK(x)'
<1>0. /\ phase'[x] = phase[x] \/ Born(x) \/ Ends(x)
      /\ collecting'[x] = collecting[x] \/ Dies(x)
      /\ Links(x) /\ LinkOK(x) /\ (Born(x) => x \in world.objs /\ linked'[x] /\ ~collecting'[x])
      /\ collecting' \in [Objs -> BOOLEAN] /\ collecting[x] \in BOOLEAN
  BY PhaseStep, CollectStep, LinkedStep, BornStep, TypeStep DEF LinkInv, TypeInv
<1>1. world' = world
  BY WorldStep
<1>2. Dies(x) => Live(x) /\ phase'[x] = phase[x] /\ collecting'[x]
  BY DiesParts DEF Dies
<1>3. collecting[x] => collecting'[x]
  BY <1>0, <1>2
<1>4. Ends(x) => Dead(x) \/ phase[x] = "destroyed"
  <2>1. ASSUME DestroyNext, x = Head(rest) PROVE Dead(x)
    <3>1. ToVisit(x)
      BY <2>1, HeadIn DEF DestroyNext, ToVisit, TypeInv
    <3> QED
      BY <3>1 DEF BatchInv, BatchOK
  <2>2. FinalizeActor(x) => Dead(x)
    BY DEF FinalizeActor, BatchInv, BatchOK
  <2> QED
    BY <2>1, <2>2 DEF Ends
<1>5. phase'[x] # "none" => x \in world'.objs
  BY <1>0, <1>1 DEF LinkOK, Ends
<1>6. collecting'[x] => phase'[x] # "none"
  BY <1>0, <1>2 DEF LinkOK, Ends, Born, Live
<1>7. phase'[x] \in {"destroyed", "freed"} => collecting'[x]
  BY <1>0, <1>3, <1>4 DEF LinkOK, Born, Dead
<1>8. Live(x)' => linked'[x]
  <2> SUFFICES ASSUME phase'[x] = "built", ~collecting'[x], ~Born(x) PROVE linked'[x]
    BY <1>0 DEF Live
  <2>1. Live(x) /\ linked[x]
    BY <1>0, <1>3 DEF Ends, Live, LinkOK
  <2>2. ~\E a \in Actor : Null(a) /\ x = Current(a)
    BY <2>1, NullHere, RetiringParts DEF Null, Live, Dead
  <2>3. ~(Sweep /\ x \in Unmarked)
    BY DEF Sweep
  <2> QED
    BY <1>0, <2>1, <2>2, <2>3 DEF Links
<1>9. linked'[x] /\ collecting'[x] => strong'[x] = 0
  <2> SUFFICES ASSUME linked'[x], collecting'[x] PROVE strong'[x] = 0
    OBVIOUS
  <2>1. linked[x] /\ ~Born(x)
    BY <1>0 DEF Links
  <2>2. CASE collecting[x]
    BY <1>0, <2>1, <2>2, ZeroKept DEF LinkOK, Live
  <2>3. CASE Dies(x)
    <3>1. ~(Sweep /\ x \in Unmarked)
      BY DEF Sweep
    <3>2. strong[x] = 0 /\ \E a \in Actor : Claim(a)
      BY <2>3, <3>1, DiesParts
    <3> QED
      BY <3>2 DEF Claim, counts
  <2> QED
    BY <1>0, <2>2, <2>3
<1>10. phase'[x] = "none" => ~linked'[x]
  BY <1>0 DEF Ends, Born, Links, LinkOK, Sweep, Unmarked
<1>11. dropClaimed'[x] => collecting'[x] /\ ref'[x]["edge"] = None /\ ref'[x]["version"] = None
  <2> SUFFICES ASSUME dropClaimed'[x], NEW j \in {"edge", "version"} PROVE collecting'[x] /\ ref'[x][j] = None
    OBVIOUS
  <2>0. j \in Slots
    BY DEF Slots
  <2>1. CASE dropClaimed[x]
    <3>1. collecting[x] /\ ref[x][j] = None
      BY <1>0, <2>1 DEF LinkOK
    <3>2. ~Filled(x, j)
      <4>1. ASSUME NEW t \in Threads, Put(t), x = Head(todo[t]).into PROVE FALSE
        BY <3>1, <4>1, PutHere DEF Put, HeldInv, Live
      <4>2. ASSUME NEW t \in Threads, NEW o \in Objs, NEW v \in Versions, SaveVersion(t, o, v), x = v \/ x = o PROVE FALSE
        <5>1. Live(o) /\ phase[v] = "none"
          BY <4>2 DEF SaveVersion, Build, HeldInv
        <5> QED
          BY <3>1, <4>2, <5>1, NotBuilt DEF Live
      <4> QED
        BY <4>1, <4>2 DEF Filled
    <3> QED
      BY <1>3, <2>0, <3>1, <3>2, RefStep
  <2>2. CASE ~dropClaimed[x] /\ \E b \in Actor : DropOnce(b) /\ x = Current(b)
    <3>1. PICK b \in Actor : DropOnce(b) /\ x = Current(b)
      BY <2>2
    <3>2. Dead(x)
      BY <3>1, DropOnceHere, RetiringParts DEF DropOnce, BatchInv, BatchOK
    <3> QED
      BY <1>3, <2>0, <2>2, <3>1, <3>2, DropOnceRef DEF Dead
  <2> QED
    BY <2>1, <2>2, DropStep DEF TypeInv
<1>12. ref'[x]["hidden"] # None => x \in Natives
  <2>1. Filled(x, "hidden") => x \in Natives
    BY PutHere DEF Filled, Put
  <2> QED
    BY <1>0, <2>1, RefStep DEF LinkOK, Slots
<1> QED
  BY <1>5, <1>6, <1>7, <1>8, <1>9, <1>10, <1>11, <1>12 DEF LinkOK

(* With its list, or its claim and the queue, an object keeps its retirement. *)
LEMMA RetiringSame ==
  ASSUME TypeInv, NameInv, StrongInv, WeakInv, LinkInv, PlaceInv, BatchInv, RefInv, HeldInv,
         DecInv, ClaimsInv, RetireInv, ThreadInv, StringInv, UnweakInv, MarkInv, PhaseInv,
         TableInv, NEW x \in Objs, [Next]_vars,
         todo' = todo \/ (collecting'[x] = collecting[x] /\ queue' = queue)
  PROVE  Retiring(x)' <=> Retiring(x)
<1>1. CASE todo' = todo
  BY <1>1 DEF Retiring, Has, Step, Count, Stp, Cnt
<1>2. CASE collecting'[x] = collecting[x] /\ queue' = queue
  <2>1. ASSUME NEW a \in Actor, Retire(a), x = Current(a), Retiring(x) PROVE FALSE
    <3>1. ToSet(queue') = ToSet(queue) \cup {x}
      BY <2>1, AppendIn DEF Retire, TypeInv
    <3> QED
      BY <1>2, <2>1, <3>1, RetiringParts DEF Queued
  <2>2. ASSUME NEW a \in Actor, Claim(a), x = Current(a), ~collecting[x] PROVE FALSE
    BY <1>2, <2>2 DEF Claim, TypeInv
  <2> QED
    BY <2>1, <2>2, RetiringIn, RetiringOut
<1> QED
  BY <1>1, <1>2

(* A dead object is in one place of the reclaimer's path. *)
LEMMA PlaceStep ==
  ASSUME TypeInv, NameInv, StrongInv, WeakInv, LinkInv, PlaceInv, BatchInv, RefInv, HeldInv,
         DecInv, ClaimsInv, RetireInv, ThreadInv, StringInv, UnweakInv, MarkInv, PhaseInv,
         TableInv, NEW x \in Objs, [Next]_vars
  PROVE  PlaceOK(x)'
<1>0. world.threads \subseteq Threads
  BY WorldThreads
<1>p. PlaceOK(x) /\ BatchOK(x)
  BY DEF PlaceInv, BatchInv
<1>q. phase'[x] = phase[x] \/ Born(x) \/ Ends(x)
  BY PhaseStep
<1>c. collecting'[x] = collecting[x] \/ Dies(x)
  BY CollectStep
<1>r. todo' = todo \/ (collecting'[x] = collecting[x] /\ queue' = queue) => (Retiring(x)' <=> Retiring(x))
  BY RetiringSame
<1>n. phase[x] # "built" => ~Dead(x) /\ ~Retiring(x) /\ ~Queued(x) /\ ~Swept(x)
  BY <1>p, RetiringParts DEF PlaceOK, Dead
<1>v. ASSUME phase'[x] = phase[x] \/ (phase'[x] # "built" /\ phase[x] # "built"), collecting'[x] = collecting[x],
             queue' = queue, UNCHANGED <<swept, batch, finalize>>
      PROVE  PlaceOK(x)'
  BY <1>p, <1>n, <1>r, <1>v DEF PlaceOK, Dead, Queued, Swept, InBatch
<1>1. ASSUME NEW t \in Threads, NEW o \in Objs, New(t, o) PROVE PlaceOK(x)'
  <2>1. CASE x = o
    <3>1. ~collecting[x] /\ ~collecting'[x] /\ phase[x] = "none"
      BY <1>1, <2>1, NotBuilt DEF New, Build
    <3> QED
      BY <1>1, <1>n, <1>r, <3>1 DEF New, values, collector, reclaimer, PlaceOK, Dead, Queued, Swept, InBatch
  <2>2. CASE x # o
    <3>1. phase'[x] = phase[x] /\ collecting'[x] = collecting[x]
      BY <1>1, <2>2 DEF New, Build
    <3> QED
      BY <1>1, <1>v, <3>1 DEF New, collector, reclaimer
  <2> QED
    BY <2>1, <2>2
<1>2. ASSUME NEW t \in Threads, NEW u \in Threads, NEW o \in Objs, Share(t, u, o)
      PROVE  PlaceOK(x)'
  BY <1>2, <1>v DEF Share, counts, claims, values, collector, reclaimer, strings, Ready, Bump
<1>3. ASSUME NEW t \in Threads, NEW o \in Objs, Drop(t, o) PROVE PlaceOK(x)'
  BY <1>3, <1>v DEF Drop, counts, claims, values, collector, reclaimer, strings, Ready
<1>4. ASSUME NEW t \in Threads, NEW o \in Objs, NEW k \in Slots, NEW p \in Objs, Store(t, o, k, p)
      PROVE  PlaceOK(x)'
  BY <1>4, <1>v DEF Store, counts, claims, values, collector, reclaimer, strings, Ready
<1>5. ASSUME NEW t \in Threads, Put(t) PROVE PlaceOK(x)'
  BY <1>5, <1>v DEF Put, counts, claims, values, collector, reclaimer, strings, Bump
<1>6. ASSUME NEW t \in Threads, NEW o \in Objs, NEW k \in Slots, Load(t, o, k) PROVE PlaceOK(x)'
  BY <1>6, <1>v DEF Load, counts, claims, values, collector, reclaimer, strings, Ready, Bump
<1>7. ASSUME NEW t \in Threads, NEW o \in Objs, NEW v \in Versions, SaveVersion(t, o, v)
      PROVE  PlaceOK(x)'
  <2>1. CASE x = v
    <3>1. ~collecting[x] /\ ~collecting'[x] /\ phase[x] = "none"
      BY <1>7, <2>1, NotBuilt DEF SaveVersion, Build
    <3> QED
      BY <1>7, <1>n, <1>r, <3>1 DEF SaveVersion, values, collector, reclaimer, PlaceOK, Dead, Queued, Swept, InBatch
  <2>2. CASE x # v
    <3>1. phase'[x] = phase[x] /\ collecting'[x] = collecting[x]
      BY <1>7, <2>2 DEF SaveVersion, Build
    <3> QED
      BY <1>7, <1>v, <3>1 DEF SaveVersion, collector, reclaimer
  <2> QED
    BY <2>1, <2>2
<1>8. ASSUME NEW t \in Threads, NEW o \in Objs, WeakRef(t, o) PROVE PlaceOK(x)'
  BY <1>8, <1>v DEF WeakRef, counts, claims, values, collector, reclaimer, strings, Ready, Bump
<1>9. ASSUME NEW t \in Threads, NEW o \in Objs, DropWeak(t, o) PROVE PlaceOK(x)'
  <2>1. o \in Objs /\ (weak[o] = 1 => phase[o] = "destroyed")
    BY <1>9, WeakParts, LastWeak DEF DropWeak
  <2>2. phase'[x] = phase[x] \/ (phase'[x] # "built" /\ phase[x] # "built")
    BY <1>9, <2>1 DEF DropWeak, FreedIfLast, TypeInv
  <2> QED
    BY <1>9, <1>v, <2>2 DEF DropWeak, claims, collector, reclaimer
<1>10. ASSUME NEW t \in Threads, NEW o \in Objs, StrongRef(t, o) PROVE PlaceOK(x)'
  BY <1>10, <1>v DEF StrongRef, counts, claims, values, collector, reclaimer, strings, Ready
<1>11. ASSUME NEW t \in Threads, TryIncRef(t) PROVE PlaceOK(x)'
  BY <1>11, <1>v DEF TryIncRef, counts, claims, values, collector, reclaimer, strings, Bump
<1>12. ASSUME NEW t \in Threads, Recheck(t) PROVE PlaceOK(x)'
  BY <1>12, <1>v DEF Recheck, counts, claims, values, collector, reclaimer, strings
<1>13. ASSUME NEW t \in Threads, Intern(t) PROVE PlaceOK(x)'
  BY <1>13, <1>v DEF Intern, counts, claims, values, collector, reclaimer, strings, Ready
<1>14. ASSUME NEW t \in Threads, Lookup(t) PROVE PlaceOK(x)'
  BY <1>14, <1>v DEF Lookup, counts, claims, values, collector, reclaimer, strings, Bump
<1>15. ASSUME NEW t \in Threads, NEW s \in Strings, AllocString(t, s) PROVE PlaceOK(x)'
  <2>1. CASE x = s
    <3>1. ~collecting[x] /\ ~collecting'[x] /\ phase[x] = "none"
      BY <1>15, <2>1, NotBuilt DEF AllocString, Build
    <3> QED
      BY <1>15, <1>n, <1>r, <3>1 DEF AllocString, values, collector, reclaimer, PlaceOK, Dead, Queued, Swept, InBatch
  <2>2. CASE x # s
    <3>1. phase'[x] = phase[x] /\ collecting'[x] = collecting[x]
      BY <1>15, <2>2 DEF AllocString, Build
    <3> QED
      BY <1>15, <1>v, <3>1 DEF AllocString, collector, reclaimer
  <2> QED
    BY <2>1, <2>2
<1>16. ASSUME NEW t \in Threads, PublishString(t) PROVE PlaceOK(x)'
  BY <1>16, <1>v DEF PublishString, counts, claims, values, collector, reclaimer, strings
<1>17. ASSUME NEW t \in Threads, Own(t) PROVE PlaceOK(x)'
  BY <1>17, <1>v DEF Own, counts, claims, values, collector, reclaimer, strings, Bump
<1>18. ASSUME NEW a \in Actor, DecRef(a) PROVE PlaceOK(x)'
  BY <1>18, <1>v DEF DecRef, counts, claims, values, collector, reclaimer, strings, Bump
<1>19. ASSUME NEW a \in Actor, Claim(a) PROVE PlaceOK(x)'
  <2>1. Current(a) \in Objs /\ (Live(Current(a)) \/ collecting[Current(a)])
    BY <1>19, ClaimHere DEF Claim, Waiting
  <2>2. CASE x = Current(a) /\ ~collecting[x]
    <3>1. Retiring(x)'
      <4>1. a \in Actor /\ Then1Is(a, Cnt(todo, a), "retire", x)
        <5>1. CASE InProgress
          <6>1. After3(a, Op("dropOnce", x), Op("null", x), Op("retire", x)) /\ Now(a, "claim")
            BY <1>19, <2>2, <5>1, ClaimShape
          <6> QED
            BY <6>1 DEF After3, Then1Is, Op, Now
        <5>2. CASE ~InProgress
          <6>1. After2(a, Op("null", x), Op("retire", x)) /\ Now(a, "claim")
            BY <1>19, <2>2, <5>2, ClaimShape
          <6> QED
            BY <6>1 DEF After2, Then1Is, Op, Now
        <5> QED
          BY <5>1, <5>2
      <4> QED
        BY <4>1 DEF Retiring, Has, Count, Step, Then1Is
    <3>2. ~Queued(x) /\ ~Swept(x) /\ ~InBatch(x) /\ x \notin finalize
      BY <1>p, <2>2 DEF PlaceOK, BatchOK, Dead
    <3> QED
      BY <1>19, <3>1, <3>2 DEF Claim, collector, reclaimer, PlaceOK, Dead, Queued, Swept, InBatch
  <2>3. CASE ~(x = Current(a) /\ ~collecting[x])
    <3>1. collecting'[x] = collecting[x]
      BY <1>19, <2>1, <2>3 DEF Claim, TypeInv
    <3> QED
      BY <1>19, <1>v, <3>1 DEF Claim, collector, reclaimer
  <2> QED
    BY <2>2, <2>3
<1>20. ASSUME NEW a \in Actor, DropOnce(a) PROVE PlaceOK(x)'
  BY <1>20, <1>v DEF DropOnce, counts, claims, values, collector, reclaimer, strings
<1>21. ASSUME NEW a \in Actor, Null(a) PROVE PlaceOK(x)'
  BY <1>21, <1>v DEF Null, counts, claims, values, collector, reclaimer, strings
<1>22. ASSUME NEW a \in Actor, Retire(a) PROVE PlaceOK(x)'
  <2>1. /\ Current(a) \in Objs /\ Retiring(Current(a)) /\ Dead(Current(a))
        /\ ~Queued(Current(a)) /\ ~Swept(Current(a)) /\ ~InBatch(Current(a)) /\ Current(a) \notin finalize
    BY <1>22, RetireHere, RetiringParts DEF Retire
  <2>2. ToSet(queue') = ToSet(queue) \cup {Current(a)}
    BY <1>22, <2>1, AppendIn DEF Retire, TypeInv
  <2>3. ~\E b \in Actor : Claim(b) /\ x = Current(b) /\ ~collecting[x]
    BY <1>22 DEF Retire, Claim, claims, TypeInv
  <2>4. CASE x = Current(a)
    <3>1. ~Retiring(x)'
      BY <1>22, <2>3, <2>4, RetiringIn
    <3> QED
      BY <1>22, <2>1, <2>2, <2>4, <3>1 DEF Retire, claims, collector, reclaimer, PlaceOK, Dead, Queued, Swept, InBatch
  <2>5. CASE x # Current(a)
    <3>1. Retiring(x) => Retiring(x)'
      <4>1. ASSUME NEW b \in Actor, Retire(b), x = Current(b), Retiring(x) PROVE FALSE
        <5>1. ToSet(queue') = ToSet(queue) \cup {x}
          BY <4>1, AppendIn DEF Retire, TypeInv
        <5> QED
          BY <2>2, <2>5, <4>1, <5>1, RetiringParts DEF Queued
      <4> QED
        BY <4>1, RetiringOut
    <3>2. Retiring(x)' => Retiring(x)
      BY <2>3, RetiringIn
    <3> QED
      BY <1>22, <1>p, <2>2, <2>5, <3>1, <3>2 DEF Retire, claims, collector, reclaimer, PlaceOK, Dead, Queued, Swept, InBatch
  <2> QED
    BY <2>4, <2>5
<1>23. ASSUME Mark PROVE PlaceOK(x)'
  BY <1>23, <1>v DEF Mark, counts, claims, values, collector, reclaimer, strings
<1>24. ASSUME NEW o \in Objs, Trim(o) PROVE PlaceOK(x)'
  BY <1>24, <1>v DEF Trim, counts, claims, values, collector, reclaimer, strings
<1>25. ASSUME TrimDone PROVE PlaceOK(x)'
  BY <1>25, <1>v DEF TrimDone, counts, claims, values, collector, reclaimer, strings
<1>26. ASSUME Sweep PROVE PlaceOK(x)'
  <2>1. ToSet(swept') = Unmarked
    BY <1>26, SetSeq DEF Sweep, Unmarked
  <2>2. ~Retiring(x) /\ ~Swept(x) /\ ~InBatch(x)
    BY <1>26, Quiet DEF Sweep
  <2>3. phase' = phase /\ todo' = todo /\ queue' = queue /\ batch' = batch /\ finalize' = finalize
    BY <1>26 DEF Sweep, reclaimer
  <2>4. collecting'[x] <=> collecting[x] \/ x \in Unmarked
    BY <1>26 DEF Sweep
  <2>5. x \in finalize => Dead(x)
    BY <1>p DEF BatchOK
  <2>6. x \in Unmarked => phase[x] = "built" /\ ~collecting[x]
    BY DEF Unmarked
  <2> QED
    BY <1>p, <1>r, <2>1, <2>2, <2>3, <2>4, <2>5, <2>6 DEF PlaceOK, Dead, Queued, Swept, InBatch
<1>27. ASSUME Publish PROVE PlaceOK(x)'
  <2>1. ToSet(queue') = ToSet(queue) \cup ToSet(swept) /\ ToSet(swept') = {}
    BY <1>27, JoinIn, EmptyIn DEF Publish, TypeInv
  <2> QED
    BY <1>27, <1>p, <1>r, <2>1 DEF Publish, claims, reclaimer, PlaceOK, Dead, Queued, Swept, InBatch
<1>28. ASSUME Drain PROVE PlaceOK(x)'
  <2>1. ToSet(batch) = {} /\ ToSet(queue') = {} /\ batch' = queue
    BY <1>28, EmptyIn DEF Drain, PhaseInv
  <2> QED
    BY <1>28, <1>p, <1>r, <2>1 DEF Drain, claims, collector, PlaceOK, Dead, Queued, Swept, InBatch
<1>29. ASSUME DropNext PROVE PlaceOK(x)'
  BY <1>29, <1>v DEF DropNext, counts, claims, values, collector, reclaimer, strings
<1>30. ASSUME Hold PROVE PlaceOK(x)'
  BY <1>30, <1>v DEF Hold, counts, claims, values, collector, reclaimer, strings
<1>31. ASSUME DestroyNext PROVE PlaceOK(x)'
  <2>1. Head(rest) \in Objs /\ ToVisit(Head(rest))
    BY <1>31, HeadIn DEF DestroyNext, ToVisit, TypeInv
  <2>2. InBatch(Head(rest)) /\ Dead(Head(rest))
    BY <2>1 DEF BatchInv, BatchOK
  <2>3. x # Head(rest) \/ Head(rest) \in Actors => phase'[x] = phase[x]
    BY <1>31 DEF DestroyNext, Destroy, TypeInv
  <2>4. x = Head(rest) /\ x \notin Actors => phase'[x] = "destroyed"
    BY <1>31, <2>1 DEF DestroyNext, Destroy, TypeInv
  <2>5. x \in finalize' <=> x \in finalize \/ (x = Head(rest) /\ x \in Actors)
    BY <1>31 DEF DestroyNext
  <2>6. queue' = queue /\ swept' = swept /\ batch' = batch /\ collecting' = collecting
    BY <1>31 DEF DestroyNext, claims, collector
  <2> QED
    BY <1>p, <1>r, <2>2, <2>3, <2>4, <2>5, <2>6 DEF PlaceOK, Dead, Queued, Swept, InBatch
<1>32. ASSUME NEW a \in Actor, Unweak(a) PROVE PlaceOK(x)'
  <2>1. Current(a) \in Objs /\ phase[Current(a)] = "destroyed"
    BY <1>32, UnweakHere DEF Unweak
  <2>2. phase'[x] = phase[x] \/ (phase'[x] # "built" /\ phase[x] # "built")
    BY <1>32, <2>1 DEF Unweak, FreedIfLast, TypeInv
  <2> QED
    BY <1>32, <1>v, <2>2 DEF Unweak, claims, collector, reclaimer
<1>33. ASSUME ReleaseHolds PROVE PlaceOK(x)'
  <2>1. ~ToVisit(x) /\ ToSet(batch') = {} /\ rec = "destroy" /\ todo' = todo
    BY <1>33, EmptyIn DEF ReleaseHolds, ToVisit
  <2>2. Dead(x) /\ InBatch(x) => x \in finalize
    BY <1>p, <2>1 DEF BatchOK, Dead
  <2>3. phase'[x] = phase[x] \/ (phase'[x] # "built" /\ phase[x] # "built")
    BY <1>33, <1>q DEF ReleaseHolds, Born, Ends, DestroyNext, FinalizeActor
  <2> QED
    BY <1>33, <1>p, <1>n, <1>r, <2>1, <2>2, <2>3 DEF ReleaseHolds, claims, collector, PlaceOK, Dead, Queued, Swept, InBatch
<1>34. ASSUME NEW o \in Actors, FinalizeActor(o) PROVE PlaceOK(x)'
  <2>1. x # o => phase'[x] = phase[x]
    BY <1>34 DEF FinalizeActor
  <2>2. x = o => phase'[x] # "built" /\ ~Retiring(x) /\ ~Queued(x) /\ ~Swept(x)
    BY <1>34, <1>p DEF FinalizeActor, PlaceOK, TypeInv
  <2> QED
    BY <1>34, <1>p, <1>r, <2>1, <2>2 DEF FinalizeActor, claims, collector, PlaceOK, Dead, Queued, Swept, InBatch
<1>35. ASSUME UNCHANGED vars PROVE PlaceOK(x)'
  BY <1>35, <1>v DEF vars, counts, claims, values, collector, reclaimer, strings
<1> QED
  BY <1>0, <1>1, <1>2, <1>3, <1>4, <1>5, <1>6, <1>7, <1>8, <1>9, <1>10, <1>11, <1>12, <1>13,
      <1>14, <1>15, <1>16, <1>17, <1>18, <1>19, <1>20, <1>21, <1>22, <1>23, <1>24, <1>25, <1>26,
      <1>27, <1>28, <1>29, <1>30, <1>31, <1>32, <1>33, <1>34, <1>35, StepKinds

(* The string of the table is built, and cannot be found again once it is dead. *)
LEMMA TableInvStep ==
  ASSUME TypeInv, NameInv, StrongInv, WeakInv, LinkInv, PlaceInv, BatchInv, RefInv, HeldInv,
         DecInv, ClaimsInv, RetireInv, ThreadInv, StringInv, UnweakInv, MarkInv, PhaseInv,
         TableInv, [Next]_vars
  PROVE  TableInv'
<1> SUFFICES ASSUME NEW x, x = table', x # None PROVE phase'[x] = "built" /\ (collecting'[x] => strong'[x] = 0)
  BY DEF TableInv
<1>1. CASE x = table
  <2>1. x \in Objs /\ phase[x] = "built" /\ (collecting[x] => strong[x] = 0) /\ x \notin Actors
    BY <1>1, NoneParts, LifecycleAssumption DEF TableInv, TypeInv
  <2>2. ~(DestroyNext /\ x = Head(rest) /\ x \notin Actors)
    BY DEF DestroyNext, Destroy, SelfErase
  <2>3. phase'[x] = "built"
    BY <2>1, <2>2, PhaseStep DEF Born, Ends
  <2>4. CASE collecting[x]
    <3>1. strong'[x] = 0
      BY <2>1, <2>4, ZeroKept DEF Born, Live
    <3> QED
      BY <2>3, <3>1
  <2>5. CASE Dies(x)
    <3>1. ~(Sweep /\ x \in Unmarked)
      <4> SUFFICES ASSUME Sweep, x \in Unmarked PROVE FALSE
        OBVIOUS
      <4>1. ~linked'[x]
        BY <2>1 DEF Sweep
      <4>2. table' = None
        BY <1>1, <4>1 DEF Sweep
      <4> QED
        BY <4>2
    <3>2. strong[x] = 0 /\ \E a \in Actor : Claim(a)
      BY <2>1, <2>5, <3>1, DiesParts
    <3> QED
      BY <2>3, <3>2 DEF Claim, counts
  <2>6. collecting'[x] = collecting[x] \/ Dies(x)
    BY <2>1, CollectStep
  <2> QED
    BY <2>1, <2>3, <2>4, <2>5, <2>6
<1>2. ASSUME NEW u \in Threads, PublishString(u), x = Current(u) PROVE phase'[x] = "built" /\ ~collecting'[x]
  <2>1. Live(x)
    BY <1>2, PublishNow DEF PublishString, Fresh
  <2> QED
    BY <1>2, <2>1 DEF PublishString, Live, claims
<1> QED
  BY <1>1, <1>2, TableStep

(* The collector and the reclaimer keep to their phases. *)
LEMMA PhaseInvStep ==
  ASSUME TypeInv, PhaseInv, [Next]_vars
  PROVE  PhaseInv'
<1>0. world.threads \subseteq Threads
  BY WorldThreads
<1>a. \A b \in Actor : ~Idle(b) => (b = Gc => gc = "trim") /\ (b = Rec => rec # "idle")
  BY DEF PhaseInv
<1>t. todo \in [Actor -> Seq(Steps)] /\ Gc \in Actor /\ Rec \in Actor /\ Gc # Rec /\ Gc \notin Threads /\ Rec \notin Threads
  BY ActorParts DEF TypeInv
<1>1. ASSUME NEW t \in Threads, NEW o \in Objs, New(t, o) PROVE PhaseInv'
  BY <1>1, <1>a, <1>t DEF New, counts, claims, values, collector, reclaimer, strings, Build,
      Ready, Bump, PhaseInv, Idle, Then, Start, Doing
<1>2. ASSUME NEW t \in Threads, NEW u \in Threads, NEW o \in Objs, Share(t, u, o) PROVE PhaseInv'
  BY <1>2, <1>a, <1>t DEF Share, counts, claims, values, collector, reclaimer, strings, Ready,
      Bump, PhaseInv, Idle, Then, Start, Doing
<1>3. ASSUME NEW t \in Threads, NEW o \in Objs, Drop(t, o) PROVE PhaseInv'
  BY <1>3, <1>a, <1>t DEF Drop, counts, claims, values, collector, reclaimer, strings, Ready,
      PhaseInv, Idle, Then, Start, Doing
<1>4. ASSUME NEW t \in Threads, NEW o \in Objs, NEW k \in Slots, NEW p \in Objs, Store(t, o, k, p)
      PROVE  PhaseInv'
  BY <1>4, <1>a, <1>t DEF Store, counts, claims, values, collector, reclaimer, strings, Ready,
      PhaseInv, Idle, Then, Start, Doing
<1>5. ASSUME NEW t \in Threads, Put(t) PROVE PhaseInv'
  BY <1>5, <1>a, <1>t DEF Put, counts, claims, values, collector, reclaimer, strings, Bump,
      PhaseInv, Idle, Then, Start, Doing
<1>6. ASSUME NEW t \in Threads, NEW o \in Objs, NEW k \in Slots, Load(t, o, k) PROVE PhaseInv'
  BY <1>6, <1>a, <1>t DEF Load, counts, claims, values, collector, reclaimer, strings, Ready,
      Bump, PhaseInv, Idle, Then, Start, Doing
<1>7. ASSUME NEW t \in Threads, NEW o \in Objs, NEW v \in Versions, SaveVersion(t, o, v)
      PROVE  PhaseInv'
  BY <1>7, <1>a, <1>t DEF SaveVersion, counts, claims, values, collector, reclaimer, strings,
      Build, Ready, PhaseInv, Idle, Then, Start, Doing
<1>8. ASSUME NEW t \in Threads, NEW o \in Objs, WeakRef(t, o) PROVE PhaseInv'
  BY <1>8, <1>a, <1>t DEF WeakRef, counts, claims, values, collector, reclaimer, strings, Ready,
      Bump, PhaseInv, Idle, Then, Start, Doing
<1>9. ASSUME NEW t \in Threads, NEW o \in Objs, DropWeak(t, o) PROVE PhaseInv'
  BY <1>9, <1>a, <1>t DEF DropWeak, counts, claims, values, collector, reclaimer, strings,
      FreedIfLast, Ready, Bump, PhaseInv, Idle, Then, Start, Doing
<1>10. ASSUME NEW t \in Threads, NEW o \in Objs, StrongRef(t, o) PROVE PhaseInv'
  BY <1>10, <1>a, <1>t DEF StrongRef, counts, claims, values, collector, reclaimer, strings,
      Ready, PhaseInv, Idle, Then, Start, Doing
<1>11. ASSUME NEW t \in Threads, TryIncRef(t) PROVE PhaseInv'
  BY <1>11, <1>a, <1>t DEF TryIncRef, counts, claims, values, collector, reclaimer, strings,
      Bump, PhaseInv, Idle, Then, Start, Doing
<1>12. ASSUME NEW t \in Threads, Recheck(t) PROVE PhaseInv'
  BY <1>12, <1>a, <1>t DEF Recheck, counts, claims, values, collector, reclaimer, strings,
      PhaseInv, Idle, Then, Start, Doing
<1>13. ASSUME NEW t \in Threads, Intern(t) PROVE PhaseInv'
  BY <1>13, <1>a, <1>t DEF Intern, counts, claims, values, collector, reclaimer, strings, Ready,
      PhaseInv, Idle, Then, Start, Doing
<1>14. ASSUME NEW t \in Threads, Lookup(t) PROVE PhaseInv'
  BY <1>14, <1>a, <1>t DEF Lookup, counts, claims, values, collector, reclaimer, strings, Bump,
      PhaseInv, Idle, Then, Start, Doing
<1>15. ASSUME NEW t \in Threads, NEW s \in Strings, AllocString(t, s) PROVE PhaseInv'
  BY <1>15, <1>a, <1>t DEF AllocString, counts, claims, values, collector, reclaimer, strings,
      Build, PhaseInv, Idle, Then, Start, Doing
<1>16. ASSUME NEW t \in Threads, PublishString(t) PROVE PhaseInv'
  BY <1>16, <1>a, <1>t DEF PublishString, counts, claims, values, collector, reclaimer, strings,
      PhaseInv, Idle, Then, Start, Doing
<1>17. ASSUME NEW t \in Threads, Own(t) PROVE PhaseInv'
  BY <1>17, <1>a, <1>t DEF Own, counts, claims, values, collector, reclaimer, strings, Bump,
      PhaseInv, Idle, Then, Start, Doing
<1>18. ASSUME NEW a \in Actor, DecRef(a) PROVE PhaseInv'
  BY <1>18, <1>a, <1>t DEF DecRef, counts, claims, values, collector, reclaimer, strings, Bump,
      PhaseInv, Idle, Then, Start, Doing
<1>19. ASSUME NEW a \in Actor, Claim(a) PROVE PhaseInv'
  BY <1>19, <1>a, <1>t DEF Claim, counts, claims, values, collector, reclaimer, strings,
      PhaseInv, Idle, Then, Start, Doing
<1>20. ASSUME NEW a \in Actor, DropOnce(a) PROVE PhaseInv'
  BY <1>20, <1>a, <1>t DEF DropOnce, counts, claims, values, collector, reclaimer, strings,
      PhaseInv, Idle, Then, Start, Doing
<1>21. ASSUME NEW a \in Actor, Null(a) PROVE PhaseInv'
  BY <1>21, <1>a, <1>t DEF Null, counts, claims, values, collector, reclaimer, strings,
      PhaseInv, Idle, Then, Start, Doing
<1>22. ASSUME NEW a \in Actor, Retire(a) PROVE PhaseInv'
  BY <1>22, <1>a, <1>t DEF Retire, counts, claims, values, collector, reclaimer, strings,
      PhaseInv, Idle, Then, Start, Doing
<1>23. ASSUME Mark PROVE PhaseInv'
  BY <1>23, <1>a, <1>t DEF Mark, counts, claims, values, collector, reclaimer, strings,
      PhaseInv, Idle, Then, Start, Doing
<1>24. ASSUME NEW o \in Objs, Trim(o) PROVE PhaseInv'
  BY <1>24, <1>a, <1>t DEF Trim, counts, claims, values, collector, reclaimer, strings,
      PhaseInv, Idle, Then, Start, Doing
<1>25. ASSUME TrimDone PROVE PhaseInv'
  BY <1>25, <1>a, <1>t DEF TrimDone, counts, claims, values, collector, reclaimer, strings,
      PhaseInv, Idle, Then, Start, Doing
<1>26. ASSUME Sweep PROVE PhaseInv'
  BY <1>26, <1>a, <1>t DEF Sweep, counts, claims, values, collector, reclaimer, strings,
      PhaseInv, Idle, Then, Start, Doing
<1>27. ASSUME Publish PROVE PhaseInv'
  BY <1>27, <1>a, <1>t DEF Publish, counts, claims, values, collector, reclaimer, strings,
      PhaseInv, Idle, Then, Start, Doing
<1>28. ASSUME Drain PROVE PhaseInv'
  BY <1>28, <1>a, <1>t DEF Drain, counts, claims, values, collector, reclaimer, strings,
      PhaseInv, Idle, Then, Start, Doing
<1>29. ASSUME DropNext PROVE PhaseInv'
  BY <1>29, <1>a, <1>t DEF DropNext, counts, claims, values, collector, reclaimer, strings,
      PhaseInv, Idle, Then, Start, Doing
<1>30. ASSUME Hold PROVE PhaseInv'
  BY <1>30, <1>a, <1>t DEF Hold, counts, claims, values, collector, reclaimer, strings,
      PhaseInv, Idle, Then, Start, Doing
<1>31. ASSUME DestroyNext PROVE PhaseInv'
  BY <1>31, <1>a, <1>t DEF DestroyNext, Destroy, PhaseInv, Idle, Start, collector
<1>32. ASSUME NEW a \in Actor, Unweak(a) PROVE PhaseInv'
  BY <1>32, <1>a, <1>t DEF Unweak, counts, claims, values, collector, reclaimer, strings,
      FreedIfLast, Bump, PhaseInv, Idle, Then, Start, Doing
<1>33. ASSUME ReleaseHolds PROVE PhaseInv'
  BY <1>33, <1>a, <1>t DEF ReleaseHolds, counts, claims, values, collector, reclaimer, strings,
      PhaseInv, Idle, Then, Start, Doing
<1>34. ASSUME NEW o \in Actors, FinalizeActor(o) PROVE PhaseInv'
  BY <1>34, <1>a, <1>t DEF FinalizeActor, counts, claims, values, collector, reclaimer, strings,
      Bump, PhaseInv, Idle, Then, Start, Doing
<1>35. ASSUME UNCHANGED vars PROVE PhaseInv'
  BY <1>35, <1>a, <1>t DEF vars, counts, claims, values, collector, reclaimer, strings,
      PhaseInv, Idle
<1> QED
  BY <1>0, <1>1, <1>2, <1>3, <1>4, <1>5, <1>6, <1>7, <1>8, <1>9, <1>10, <1>11, <1>12, <1>13,
      <1>14, <1>15, <1>16, <1>17, <1>18, <1>19, <1>20, <1>21, <1>22, <1>23, <1>24, <1>25, <1>26,
      <1>27, <1>28, <1>29, <1>30, <1>31, <1>32, <1>33, <1>34, <1>35, StepKinds

-----------------------------------------------------------------------------
(* What threads can reach. *)

LiveObjs == {o \in world.objs : Live(o)}

(* The live are closed under references, and hold the roots. *)
LEMMA LiveClosed ==
  ASSUME TypeInv, HeldInv, RefInv, LinkInv
  PROVE  Closed(LiveObjs) /\ Roots \subseteq LiveObjs /\ LiveObjs \subseteq world.objs /\ world.objs \subseteq Objs
<1>1. world.objs \subseteq Objs
  BY WorldObjs
<1>2. ASSUME NEW o \in Objs, Live(o) PROVE o \in LiveObjs
  BY <1>2 DEF LiveObjs, LinkInv, LinkOK, Live
<1>3. Roots \subseteq LiveObjs
  BY <1>2 DEF Roots, HeldInv, TypeInv
<1>4. ASSUME NEW o \in LiveObjs, NEW p \in Targets(o) PROVE p \in LiveObjs
  <2>1. PICK k \in Slots : p = ref[o][k] /\ p # None
    BY DEF Targets
  <2> QED
    BY <1>1, <1>2, <2>1, LiveTarget DEF LiveObjs
<1> QED
  BY <1>1, <1>3, <1>4 DEF Closed, LiveObjs

(* What can be reached is live, and closed under references. *)
LEMMA ReachParts ==
  ASSUME TypeInv, HeldInv, RefInv, LinkInv
  PROVE  Roots \subseteq Reach(Roots) /\ Closed(Reach(Roots)) /\ Reach(Roots) \subseteq LiveObjs
<1>1. Closed(LiveObjs) /\ Roots \subseteq LiveObjs /\ LiveObjs \subseteq world.objs
  BY LiveClosed
<1>2. Reach(Roots) \subseteq LiveObjs
  BY <1>1 DEF Reach
<1>3. Roots \subseteq Reach(Roots)
  BY <1>1 DEF Reach
<1>4. ASSUME NEW o \in Reach(Roots), NEW p \in Targets(o) PROVE p \in Reach(Roots)
  <2>1. p \in world.objs
    BY <1>1, <1>2 DEF Closed
  <2>2. ASSUME NEW C \in SUBSET world.objs, Roots \subseteq C, Closed(C) PROVE p \in C
    <3>1. o \in C
      BY <2>2 DEF Reach
    <3> QED
      BY <2>2, <3>1 DEF Closed
  <2> QED
    BY <2>1, <2>2 DEF Reach
<1> QED
  BY <1>2, <1>3, <1>4 DEF Closed

(* While the world is stopped the marks are those of a closed set that holds the roots. *)
LEMMA MarkInvStep ==
  ASSUME TypeInv, NameInv, StrongInv, WeakInv, LinkInv, PlaceInv, BatchInv, RefInv, HeldInv,
         DecInv, ClaimsInv, RetireInv, ThreadInv, StringInv, UnweakInv, MarkInv, PhaseInv,
         TableInv, [Next]_vars
  PROVE  MarkInv'
<1>0. world.threads \subseteq Threads
  BY WorldThreads
<1>m. InProgress => /\ rec = "idle" /\ (\A w \in Threads : Idle(w)) /\ Roots \subseteq marked /\ Closed(marked)
  BY DEF MarkInv
<1>g. InProgress => \A b \in Actor : Idle(b) \/ b = Gc
  BY <1>m DEF PhaseInv, Actor
<1>t. todo \in [Actor -> Seq(Steps)] /\ Gc \in Actor /\ Gc \notin Threads /\ Gc # Rec /\ Threads \subseteq Actor
  BY ActorParts DEF TypeInv
<1>c. ASSUME InProgress, UNCHANGED <<held, marked, rec>>,
             \A q \in Objs, j \in Slots : ref'[q][j] = ref[q][j] \/ ref'[q][j] = None,
             \A w \in Threads : todo'[w] = todo[w]
      PROVE  /\ rec' = "idle" /\ (\A w \in Threads : Idle(w)')
             /\ Roots' \subseteq marked' /\ Closed(marked)'
  <2>1. marked' \subseteq Objs /\ marked \subseteq Objs
    BY <1>c DEF TypeInv
  <2>2. ASSUME NEW q \in marked', NEW p \in {ref'[q][j] : j \in Slots} \ {None} PROVE p \in marked'
    <3>1. PICK j \in Slots : p = ref'[q][j] /\ p # None
      OBVIOUS
    <3>2. p \in Targets(q)
      BY <1>c, <2>1, <3>1 DEF Targets
    <3> QED
      BY <1>c, <1>m, <3>2 DEF Closed
  <2>3. Closed(marked)'
    BY <2>2 DEF Closed, Targets
  <2> QED
    BY <1>c, <1>m, <2>3 DEF Idle, Roots
<1>1. ASSUME NEW t \in Threads, NEW o \in Objs, New(t, o) PROVE MarkInv'
  BY <1>1, <1>m DEF New, counts, claims, values, collector, reclaimer, strings, Build, Ready,
      Bump, MarkInv, InProgress
<1>2. ASSUME NEW t \in Threads, NEW u \in Threads, NEW o \in Objs, Share(t, u, o) PROVE MarkInv'
  BY <1>2, <1>m DEF Share, counts, claims, values, collector, reclaimer, strings, Ready, Bump,
      MarkInv, InProgress
<1>3. ASSUME NEW t \in Threads, NEW o \in Objs, Drop(t, o) PROVE MarkInv'
  BY <1>3, <1>m DEF Drop, counts, claims, values, collector, reclaimer, strings, Ready, MarkInv,
      InProgress
<1>4. ASSUME NEW t \in Threads, NEW o \in Objs, NEW k \in Slots, NEW p \in Objs, Store(t, o, k, p)
      PROVE  MarkInv'
  BY <1>4, <1>m DEF Store, counts, claims, values, collector, reclaimer, strings, Ready,
      MarkInv, InProgress
<1>5. ASSUME NEW t \in Threads, Put(t) PROVE MarkInv'
  BY <1>5, <1>m DEF Put, counts, claims, values, collector, reclaimer, strings, Bump, MarkInv,
      InProgress, Doing, Idle
<1>6. ASSUME NEW t \in Threads, NEW o \in Objs, NEW k \in Slots, Load(t, o, k) PROVE MarkInv'
  BY <1>6, <1>m DEF Load, counts, claims, values, collector, reclaimer, strings, Ready, Bump,
      MarkInv, InProgress
<1>7. ASSUME NEW t \in Threads, NEW o \in Objs, NEW v \in Versions, SaveVersion(t, o, v)
      PROVE  MarkInv'
  BY <1>7, <1>m DEF SaveVersion, counts, claims, values, collector, reclaimer, strings, Build,
      Ready, MarkInv, InProgress
<1>8. ASSUME NEW t \in Threads, NEW o \in Objs, WeakRef(t, o) PROVE MarkInv'
  BY <1>8, <1>m DEF WeakRef, counts, claims, values, collector, reclaimer, strings, Ready, Bump,
      MarkInv, InProgress
<1>9. ASSUME NEW t \in Threads, NEW o \in Objs, DropWeak(t, o) PROVE MarkInv'
  BY <1>9, <1>m DEF DropWeak, counts, claims, values, collector, reclaimer, strings,
      FreedIfLast, Ready, Bump, MarkInv, InProgress
<1>10. ASSUME NEW t \in Threads, NEW o \in Objs, StrongRef(t, o) PROVE MarkInv'
  BY <1>10, <1>m DEF StrongRef, counts, claims, values, collector, reclaimer, strings, Ready,
      MarkInv, InProgress
<1>11. ASSUME NEW t \in Threads, TryIncRef(t) PROVE MarkInv'
  BY <1>11, <1>m DEF TryIncRef, counts, claims, values, collector, reclaimer, strings, Bump,
      MarkInv, InProgress, Doing, Idle
<1>12. ASSUME NEW t \in Threads, Recheck(t) PROVE MarkInv'
  BY <1>12, <1>m DEF Recheck, counts, claims, values, collector, reclaimer, strings, MarkInv,
      InProgress, Doing, Idle
<1>13. ASSUME NEW t \in Threads, Intern(t) PROVE MarkInv'
  BY <1>13, <1>m DEF Intern, counts, claims, values, collector, reclaimer, strings, Ready,
      MarkInv, InProgress
<1>14. ASSUME NEW t \in Threads, Lookup(t) PROVE MarkInv'
  BY <1>14, <1>m DEF Lookup, counts, claims, values, collector, reclaimer, strings, Bump,
      MarkInv, InProgress, Doing, Idle
<1>15. ASSUME NEW t \in Threads, NEW s \in Strings, AllocString(t, s) PROVE MarkInv'
  BY <1>15, <1>m DEF AllocString, counts, claims, values, collector, reclaimer, strings, Build,
      MarkInv, InProgress, Doing, Idle
<1>16. ASSUME NEW t \in Threads, PublishString(t) PROVE MarkInv'
  BY <1>16, <1>m DEF PublishString, counts, claims, values, collector, reclaimer, strings,
      MarkInv, InProgress, Doing, Idle
<1>17. ASSUME NEW t \in Threads, Own(t) PROVE MarkInv'
  BY <1>17, <1>m DEF Own, counts, claims, values, collector, reclaimer, strings, Bump, MarkInv,
      InProgress, Doing, Idle
<1>18. ASSUME NEW a \in Actor, DecRef(a) PROVE MarkInv'
  <2>1. InProgress => a = Gc
    BY <1>18, <1>g DEF DecRef, Doing, Idle
  <2>2. InProgress => \A w \in Threads : todo'[w] = todo[w]
    BY <1>18, <1>t, <2>1 DEF DecRef, Then
  <2> QED
    BY <1>18, <1>c, <2>2 DEF DecRef, MarkInv, InProgress, values, collector, reclaimer
<1>19. ASSUME NEW a \in Actor, Claim(a) PROVE MarkInv'
  <2>1. InProgress => a = Gc
    BY <1>19, <1>g DEF Claim, Doing, Idle
  <2>2. InProgress => \A w \in Threads : todo'[w] = todo[w]
    BY <1>19, <1>t, <2>1 DEF Claim, Then
  <2> QED
    BY <1>19, <1>c, <2>2 DEF Claim, MarkInv, InProgress, values, collector, reclaimer
<1>20. ASSUME NEW a \in Actor, DropOnce(a) PROVE MarkInv'
  <2>1. InProgress => a = Gc
    BY <1>20, <1>g DEF DropOnce, Doing, Idle
  <2>2. InProgress => \A w \in Threads : todo'[w] = todo[w]
    BY <1>20, <1>t, <2>1 DEF DropOnce, Then
  <2>3. \A q \in Objs, j \in Slots : ref'[q][j] = ref[q][j] \/ ref'[q][j] = None
    BY <1>20, DropOnceRef
  <2> QED
    BY <1>20, <1>c, <2>2, <2>3 DEF DropOnce, MarkInv, InProgress, values, collector, reclaimer
<1>21. ASSUME NEW a \in Actor, Null(a) PROVE MarkInv'
  <2>1. InProgress => a = Gc
    BY <1>21, <1>g DEF Null, Doing, Idle
  <2>2. InProgress => \A w \in Threads : todo'[w] = todo[w]
    BY <1>21, <1>t, <2>1 DEF Null, Then
  <2> QED
    BY <1>21, <1>c, <2>2 DEF Null, MarkInv, InProgress, values, collector, reclaimer
<1>22. ASSUME NEW a \in Actor, Retire(a) PROVE MarkInv'
  <2>1. InProgress => a = Gc
    BY <1>22, <1>g DEF Retire, Doing, Idle
  <2>2. InProgress => \A w \in Threads : todo'[w] = todo[w]
    BY <1>22, <1>t, <2>1 DEF Retire, Then
  <2> QED
    BY <1>22, <1>c, <2>2 DEF Retire, MarkInv, InProgress, values, collector, reclaimer
<1>23. ASSUME Mark PROVE MarkInv'
  <2>1. /\ Roots \subseteq Reach(Roots) /\ Closed(Reach(Roots)) /\ Reach(Roots) \subseteq LiveObjs
    BY ReachParts
  <2>2. marked' = Reach(Roots)
    BY <1>23, <2>1 DEF Mark, LiveObjs, Live
  <2>3. Closed(marked)'
    <3>1. \A q \in Reach(Roots) : {ref[q][k] : k \in Slots} \ {None} \subseteq Reach(Roots)
      BY <2>1 DEF Closed, Targets
    <3>2. ref' = ref
      BY <1>23 DEF Mark, values
    <3>3. \A q \in marked' : {ref'[q][k] : k \in Slots} \ {None} \subseteq marked'
      BY <2>2, <3>1, <3>2
    <3> QED
      BY <3>3 DEF Closed, Targets
  <2>4. Roots' \subseteq marked'
    BY <1>23, <2>1, <2>2 DEF Mark, values, Roots
  <2> QED
    BY <1>23, <2>3, <2>4 DEF Mark, MarkInv, Idle, reclaimer
<1>24. ASSUME NEW o \in Objs, Trim(o) PROVE MarkInv'
  <2>1. \A w \in Threads : todo'[w] = todo[w]
    BY <1>24, <1>t DEF Trim, Start
  <2>2. \A q \in Objs, j \in Slots : ref'[q][j] = ref[q][j] \/ ref'[q][j] = None
    BY <1>24, TrimRef DEF Sets
  <2> QED
    BY <1>24, <1>c, <2>1, <2>2 DEF Trim, MarkInv, InProgress, collector, reclaimer
<1>25. ASSUME TrimDone PROVE MarkInv'
  BY <1>25, <1>c DEF TrimDone, MarkInv, InProgress, values, collector, reclaimer
<1>26. ASSUME Sweep PROVE MarkInv'
  BY <1>26, <1>m DEF Sweep, counts, claims, values, collector, reclaimer, strings, MarkInv,
      InProgress
<1>27. ASSUME Publish PROVE MarkInv'
  BY <1>27, <1>m DEF Publish, counts, claims, values, collector, reclaimer, strings, MarkInv,
      InProgress
<1>28. ASSUME Drain PROVE MarkInv'
  BY <1>28, <1>m DEF Drain, counts, claims, values, collector, reclaimer, strings, MarkInv,
      InProgress
<1>29. ASSUME DropNext PROVE MarkInv'
  BY <1>29, <1>m DEF DropNext, counts, claims, values, collector, reclaimer, strings, MarkInv,
      InProgress
<1>30. ASSUME Hold PROVE MarkInv'
  BY <1>30, <1>m DEF Hold, counts, claims, values, collector, reclaimer, strings, MarkInv,
      InProgress
<1>31. ASSUME DestroyNext PROVE MarkInv'
  BY <1>31, <1>m DEF DestroyNext, MarkInv, InProgress, collector
<1>32. ASSUME NEW a \in Actor, Unweak(a) PROVE MarkInv'
  <2>1. ~InProgress
    BY <1>32, UnweakHere, <1>m DEF Unweak
  <2> QED
    BY <1>32, <2>1 DEF Unweak, MarkInv, InProgress, collector
<1>33. ASSUME ReleaseHolds PROVE MarkInv'
  BY <1>33, <1>m DEF ReleaseHolds, counts, claims, values, collector, reclaimer, strings,
      MarkInv, InProgress
<1>34. ASSUME NEW o \in Actors, FinalizeActor(o) PROVE MarkInv'
  BY <1>34, <1>c DEF FinalizeActor, MarkInv, InProgress, values, collector, reclaimer
<1>35. ASSUME UNCHANGED vars PROVE MarkInv'
  BY <1>35, <1>c DEF vars, values, collector, reclaimer, MarkInv, InProgress
<1> QED
  BY <1>0, <1>1, <1>2, <1>3, <1>4, <1>5, <1>6, <1>7, <1>8, <1>9, <1>10, <1>11, <1>12, <1>13,
      <1>14, <1>15, <1>16, <1>17, <1>18, <1>19, <1>20, <1>21, <1>22, <1>23, <1>24, <1>25, <1>26,
      <1>27, <1>28, <1>29, <1>30, <1>31, <1>32, <1>33, <1>34, <1>35, StepKinds

(* The reclaimer's first step of a visit stays until the references are dropped. *)
LEMMA DropPersist ==
  ASSUME TypeInv, NameInv, StrongInv, WeakInv, LinkInv, PlaceInv, BatchInv, RefInv, HeldInv,
         DecInv, ClaimsInv, RetireInv, ThreadInv, StringInv, UnweakInv, MarkInv, PhaseInv,
         TableInv, NEW x \in Objs, [Next]_vars, Has(Rec, 1, "dropOnce", x)
  PROVE  Has(Rec, 1, "dropOnce", x)' \/ dropClaimed'[x]
<1>0. Rec \in Actor /\ 1 \in 1 .. Cnt(todo, Rec)
  BY ActorParts DEF Has, Count
<1>1. CASE Stays(Rec, 1)
  BY <1>1 DEF Stays, Has, Count, Step
<1>2. CASE 1 = Cnt(todo, Rec) /\ Takes(Rec)
  <2>1. Stp(todo, Rec, Cnt(todo, Rec)).op = "dropOnce" /\ Stp(todo, Rec, Cnt(todo, Rec)).obj = x
    BY <1>2 DEF Has, Step
  <2>2. DropOnce(Rec)
    BY <1>0, <2>1, <1>2, TakesOp
  <2>3. x = Current(Rec)
    BY <1>0, <2>1, <2>2, DoingParts DEF DropOnce
  <2> QED
    BY <2>2, <2>3 DEF DropOnce, TypeInv
<1> QED
  BY <1>0, <1>1, <1>2, Persist

(* Who owns a reference to an object. *)
LEMMA Owner ==
  ASSUME TypeInv, StrongInv, NEW o \in Objs, strong[o] # 0
  PROVE  \/ \E t \in Threads : o \in held[t]
         \/ \E q \in Objs : \E k \in Slots : ref[q][k] = o
         \/ \E a \in Actor : \E n \in 1 .. Count(a) :
              Step(a, n).op \in {"dec", "recheck"} /\ Step(a, n).obj = o
<1>1. /\ IsFiniteSet(HeldBy(o)) /\ IsFiniteSet(RefBy(o)) /\ IsFiniteSet(Due(todo, o))
      /\ strong[o] = Cardinality(HeldBy(o)) + Cardinality(RefBy(o)) + Cardinality(Due(todo, o))
  BY DEF StrongInv, StrongOK
<1>2. Cardinality({}) = 0
  BY FS_EmptySet
<1>3. HeldBy(o) # {} \/ RefBy(o) # {} \/ Due(todo, o) # {}
  BY <1>1, <1>2
<1>4. CASE HeldBy(o) # {}
  BY <1>4 DEF HeldBy
<1>5. CASE RefBy(o) # {}
  BY <1>5 DEF RefBy, RefIn
<1>6. CASE Due(todo, o) # {}
  <2>1. PICK a \in Actor, n \in Nat : Owes(todo, a, n, o)
    BY <1>6 DEF Due
  <2> QED
    BY <2>1 DEF Owes, Owning, Step, Count
<1> QED
  BY <1>3, <1>4, <1>5, <1>6

(* An actor instance whose batch is done has no owner. *)
LEMMA FinalUnowned ==
  ASSUME TypeInv, StrongInv, HeldInv, RefInv, DecInv, LinkInv, BatchInv, rec = "destroy",
         Idle(Rec), rest = <<>>, NEW x \in finalize
  PROVE  strong[x] = 0
<1>1. x \in Objs /\ Dead(x)
  BY NoneParts DEF TypeInv, BatchInv, BatchOK
<1> SUFFICES ASSUME strong[x] # 0 PROVE FALSE
  OBVIOUS
<1>2. ASSUME NEW t \in Threads, x \in held[t] PROVE FALSE
  BY <1>1, <1>2 DEF HeldInv, Live, Dead
<1>3. ASSUME NEW q \in Objs, NEW k \in Slots, ref[q][k] = x PROVE FALSE
  <2>1. RefOK(q, x)
    BY <1>1, <1>3, NoneParts DEF RefInv
  <2>2. Dead(q) /\ InBatch(q)
    <3>1. Dead(q) /\ Waiting(x) /\ Behind(q, x)
      BY <1>1, <2>1 DEF RefOK, Live, Dead
    <3>2. strong[x] = 0 \/ InBatch(x)
      BY <1>1 DEF BatchInv, BatchOK
    <3> QED
      BY <3>1, <3>2 DEF Behind
  <2>3. ~ToVisit(q)
    BY EmptyIn DEF ToVisit
  <2>4. q \in finalize
    BY <2>2, <2>3 DEF BatchInv, BatchOK, Dead
  <2> QED
    BY <1>1, <1>3, <2>4, Bare, NoneParts
<1>4. ASSUME NEW a \in Actor, NEW n \in 1 .. Count(a),
             Step(a, n).op \in {"dec", "recheck"} /\ Step(a, n).obj = x
      PROVE  FALSE
  <2>1. DecOK(a, n)
    BY <1>4 DEF DecInv
  <2>2. a = Rec
    BY <1>1, <1>4, <2>1 DEF DecOK, Live, Dead
  <2> QED
    BY <2>2, <1>4 DEF Idle, Count, Cnt
<1> QED
  BY <1>1, <1>2, <1>3, <1>4, Owner

(* The members of a list of objects are objects. *)
LEMMA ListObjs ==
  ASSUME NEW s \in Seq(Objs)
  PROVE  ToSet(s) \subseteq Objs
BY DEF ToSet

(* No object is twice in a list. *)
LEMMA OnceStep ==
  ASSUME TypeInv, NameInv, PlaceInv, RetireInv, BatchInv, [Next]_vars
  PROVE  Once(rest') /\ Once(queue') /\ Once(swept') /\ Once(batch')
<1>0. world.threads \subseteq Threads
  BY WorldThreads
<1>o. Once(rest) /\ Once(queue) /\ Once(swept) /\ Once(batch)
  BY DEF BatchInv, Once
<1>s. rest \in Seq(Objs) /\ queue \in Seq(Objs) /\ swept \in Seq(Objs) /\ batch \in Seq(Objs)
  BY DEF TypeInv
<1>e. Once(<<>>)
  BY DEF Once
<1>1. ASSUME NEW t \in Threads, NEW o \in Objs, New(t, o)
      PROVE  Once(rest') /\ Once(queue') /\ Once(swept') /\ Once(batch')
  BY <1>1, <1>o, <1>e DEF New, counts, claims, values, collector, reclaimer, strings, Build,
      Ready, Bump
<1>2. ASSUME NEW t \in Threads, NEW u \in Threads, NEW o \in Objs, Share(t, u, o)
      PROVE  Once(rest') /\ Once(queue') /\ Once(swept') /\ Once(batch')
  BY <1>2, <1>o, <1>e DEF Share, counts, claims, values, collector, reclaimer, strings, Ready,
      Bump
<1>3. ASSUME NEW t \in Threads, NEW o \in Objs, Drop(t, o)
      PROVE  Once(rest') /\ Once(queue') /\ Once(swept') /\ Once(batch')
  BY <1>3, <1>o, <1>e DEF Drop, counts, claims, values, collector, reclaimer, strings, Ready
<1>4. ASSUME NEW t \in Threads, NEW o \in Objs, NEW k \in Slots, NEW p \in Objs, Store(t, o, k, p)
      PROVE  Once(rest') /\ Once(queue') /\ Once(swept') /\ Once(batch')
  BY <1>4, <1>o, <1>e DEF Store, counts, claims, values, collector, reclaimer, strings, Ready
<1>5. ASSUME NEW t \in Threads, Put(t)
      PROVE  Once(rest') /\ Once(queue') /\ Once(swept') /\ Once(batch')
  BY <1>5, <1>o, <1>e DEF Put, counts, claims, values, collector, reclaimer, strings, Bump
<1>6. ASSUME NEW t \in Threads, NEW o \in Objs, NEW k \in Slots, Load(t, o, k)
      PROVE  Once(rest') /\ Once(queue') /\ Once(swept') /\ Once(batch')
  BY <1>6, <1>o, <1>e DEF Load, counts, claims, values, collector, reclaimer, strings, Ready,
      Bump
<1>7. ASSUME NEW t \in Threads, NEW o \in Objs, NEW v \in Versions, SaveVersion(t, o, v)
      PROVE  Once(rest') /\ Once(queue') /\ Once(swept') /\ Once(batch')
  BY <1>7, <1>o, <1>e DEF SaveVersion, counts, claims, values, collector, reclaimer, strings,
      Build, Ready
<1>8. ASSUME NEW t \in Threads, NEW o \in Objs, WeakRef(t, o)
      PROVE  Once(rest') /\ Once(queue') /\ Once(swept') /\ Once(batch')
  BY <1>8, <1>o, <1>e DEF WeakRef, counts, claims, values, collector, reclaimer, strings, Ready,
      Bump
<1>9. ASSUME NEW t \in Threads, NEW o \in Objs, DropWeak(t, o)
      PROVE  Once(rest') /\ Once(queue') /\ Once(swept') /\ Once(batch')
  BY <1>9, <1>o, <1>e DEF DropWeak, counts, claims, values, collector, reclaimer, strings,
      FreedIfLast, Ready, Bump
<1>10. ASSUME NEW t \in Threads, NEW o \in Objs, StrongRef(t, o)
      PROVE  Once(rest') /\ Once(queue') /\ Once(swept') /\ Once(batch')
  BY <1>10, <1>o, <1>e DEF StrongRef, counts, claims, values, collector, reclaimer, strings,
      Ready
<1>11. ASSUME NEW t \in Threads, TryIncRef(t)
      PROVE  Once(rest') /\ Once(queue') /\ Once(swept') /\ Once(batch')
  BY <1>11, <1>o, <1>e DEF TryIncRef, counts, claims, values, collector, reclaimer, strings,
      Bump
<1>12. ASSUME NEW t \in Threads, Recheck(t)
      PROVE  Once(rest') /\ Once(queue') /\ Once(swept') /\ Once(batch')
  BY <1>12, <1>o, <1>e DEF Recheck, counts, claims, values, collector, reclaimer, strings
<1>13. ASSUME NEW t \in Threads, Intern(t)
      PROVE  Once(rest') /\ Once(queue') /\ Once(swept') /\ Once(batch')
  BY <1>13, <1>o, <1>e DEF Intern, counts, claims, values, collector, reclaimer, strings, Ready
<1>14. ASSUME NEW t \in Threads, Lookup(t)
      PROVE  Once(rest') /\ Once(queue') /\ Once(swept') /\ Once(batch')
  BY <1>14, <1>o, <1>e DEF Lookup, counts, claims, values, collector, reclaimer, strings, Bump
<1>15. ASSUME NEW t \in Threads, NEW s \in Strings, AllocString(t, s)
      PROVE  Once(rest') /\ Once(queue') /\ Once(swept') /\ Once(batch')
  BY <1>15, <1>o, <1>e DEF AllocString, counts, claims, values, collector, reclaimer, strings,
      Build
<1>16. ASSUME NEW t \in Threads, PublishString(t)
      PROVE  Once(rest') /\ Once(queue') /\ Once(swept') /\ Once(batch')
  BY <1>16, <1>o, <1>e DEF PublishString, counts, claims, values, collector, reclaimer, strings
<1>17. ASSUME NEW t \in Threads, Own(t)
      PROVE  Once(rest') /\ Once(queue') /\ Once(swept') /\ Once(batch')
  BY <1>17, <1>o, <1>e DEF Own, counts, claims, values, collector, reclaimer, strings, Bump
<1>18. ASSUME NEW a \in Actor, DecRef(a)
      PROVE  Once(rest') /\ Once(queue') /\ Once(swept') /\ Once(batch')
  BY <1>18, <1>o, <1>e DEF DecRef, counts, claims, values, collector, reclaimer, strings, Bump
<1>19. ASSUME NEW a \in Actor, Claim(a)
      PROVE  Once(rest') /\ Once(queue') /\ Once(swept') /\ Once(batch')
  BY <1>19, <1>o, <1>e DEF Claim, counts, claims, values, collector, reclaimer, strings
<1>20. ASSUME NEW a \in Actor, DropOnce(a)
      PROVE  Once(rest') /\ Once(queue') /\ Once(swept') /\ Once(batch')
  BY <1>20, <1>o, <1>e DEF DropOnce, counts, claims, values, collector, reclaimer, strings
<1>21. ASSUME NEW a \in Actor, Null(a)
      PROVE  Once(rest') /\ Once(queue') /\ Once(swept') /\ Once(batch')
  BY <1>21, <1>o, <1>e DEF Null, counts, claims, values, collector, reclaimer, strings
<1>22. ASSUME NEW a \in Actor, Retire(a)
      PROVE  Once(rest') /\ Once(queue') /\ Once(swept') /\ Once(batch')
  <2>1. Current(a) \in Objs /\ Current(a) \notin ToSet(queue)
    BY <1>22, RetireHere, RetiringParts DEF Retire, Queued
  <2>2. Once(queue')
    BY <1>22, <1>o, <1>s, <2>1, AppendOnce DEF Retire
  <2> QED
    BY <1>22, <1>o, <2>2 DEF Retire, collector, reclaimer
<1>23. ASSUME Mark PROVE Once(rest') /\ Once(queue') /\ Once(swept') /\ Once(batch')
  BY <1>23, <1>o, <1>e DEF Mark, counts, claims, values, collector, reclaimer, strings
<1>24. ASSUME NEW o \in Objs, Trim(o)
      PROVE  Once(rest') /\ Once(queue') /\ Once(swept') /\ Once(batch')
  BY <1>24, <1>o, <1>e DEF Trim, counts, claims, values, collector, reclaimer, strings
<1>25. ASSUME TrimDone PROVE Once(rest') /\ Once(queue') /\ Once(swept') /\ Once(batch')
  BY <1>25, <1>o, <1>e DEF TrimDone, counts, claims, values, collector, reclaimer, strings
<1>26. ASSUME Sweep PROVE Once(rest') /\ Once(queue') /\ Once(swept') /\ Once(batch')
  <2>1. Once(swept')
    BY <1>26, SetSeq DEF Sweep, Once, Unmarked
  <2> QED
    BY <1>26, <1>o, <2>1 DEF Sweep, reclaimer
<1>27. ASSUME Publish PROVE Once(rest') /\ Once(queue') /\ Once(swept') /\ Once(batch')
  <2>1. ToSet(queue) \cap ToSet(swept) = {}
    <3>1. \A o \in Objs : Queued(o) => ~Swept(o)
      BY DEF PlaceInv, PlaceOK
    <3>2. ToSet(queue) \subseteq Objs
      BY <1>s, ListObjs
    <3> QED
      BY <3>1, <3>2 DEF Queued, Swept
  <2>2. Once(queue')
    BY <1>27, <1>o, <1>s, <2>1, JoinOnce DEF Publish
  <2> QED
    BY <1>27, <1>o, <1>e, <2>2 DEF Publish, reclaimer
<1>28. ASSUME Drain PROVE Once(rest') /\ Once(queue') /\ Once(swept') /\ Once(batch')
  BY <1>28, <1>o, <1>e DEF Drain, counts, claims, values, collector, reclaimer, strings
<1>29. ASSUME DropNext PROVE Once(rest') /\ Once(queue') /\ Once(swept') /\ Once(batch')
  <2>1. Once(rest')
    BY <1>29, <1>o, <1>s, TailOnce DEF DropNext
  <2> QED
    BY <1>29, <1>o, <2>1 DEF DropNext, collector
<1>30. ASSUME Hold PROVE Once(rest') /\ Once(queue') /\ Once(swept') /\ Once(batch')
  BY <1>30, <1>o, <1>e DEF Hold, counts, claims, values, collector, reclaimer, strings
<1>31. ASSUME DestroyNext PROVE Once(rest') /\ Once(queue') /\ Once(swept') /\ Once(batch')
  <2>1. Once(rest')
    BY <1>31, <1>o, <1>s, TailOnce DEF DestroyNext
  <2> QED
    BY <1>31, <1>o, <2>1 DEF DestroyNext, collector
<1>32. ASSUME NEW a \in Actor, Unweak(a)
      PROVE  Once(rest') /\ Once(queue') /\ Once(swept') /\ Once(batch')
  BY <1>32, <1>o, <1>e DEF Unweak, counts, claims, values, collector, reclaimer, strings,
      FreedIfLast, Bump
<1>33. ASSUME ReleaseHolds PROVE Once(rest') /\ Once(queue') /\ Once(swept') /\ Once(batch')
  BY <1>33, <1>o, <1>e DEF ReleaseHolds, counts, claims, values, collector, reclaimer, strings
<1>34. ASSUME NEW o \in Actors, FinalizeActor(o)
      PROVE  Once(rest') /\ Once(queue') /\ Once(swept') /\ Once(batch')
  BY <1>34, <1>o, <1>e DEF FinalizeActor, counts, claims, values, collector, reclaimer, strings,
      Bump
<1>35. ASSUME UNCHANGED vars PROVE Once(rest') /\ Once(queue') /\ Once(swept') /\ Once(batch')
  BY <1>35, <1>o, <1>e DEF vars, counts, claims, values, collector, reclaimer, strings
<1> QED
  BY <1>0, <1>1, <1>2, <1>3, <1>4, <1>5, <1>6, <1>7, <1>8, <1>9, <1>10, <1>11, <1>12, <1>13,
      <1>14, <1>15, <1>16, <1>17, <1>18, <1>19, <1>20, <1>21, <1>22, <1>23, <1>24, <1>25, <1>26,
      <1>27, <1>28, <1>29, <1>30, <1>31, <1>32, <1>33, <1>34, <1>35, StepKinds

(* What the reclaimer does with a batch. *)
LEMMA BatchStep ==
  ASSUME TypeInv, NameInv, StrongInv, WeakInv, LinkInv, PlaceInv, BatchInv, RefInv, HeldInv,
         DecInv, ClaimsInv, RetireInv, ThreadInv, StringInv, UnweakInv, MarkInv, PhaseInv,
         TableInv, NEW x \in Objs, [Next]_vars
  PROVE  BatchOK(x)'
<1>0. world.threads \subseteq Threads
  BY WorldThreads
<1>q. BatchOK(x) /\ PlaceOK(x)
  BY DEF BatchInv, PlaceInv
<1>p. phase'[x] = phase[x] \/ Born(x) \/ Ends(x)
  BY PhaseStep
<1>c. collecting[x] => collecting'[x]
  BY CollectStep DEF Dies
<1>d. dropClaimed[x] => dropClaimed'[x]
  BY DropStep
<1>h. Has(Rec, 1, "dropOnce", x) => Has(Rec, 1, "dropOnce", x)' \/ dropClaimed'[x]
  BY DropPersist
<1>z. x \in finalize /\ strong[x] = 0 => strong'[x] = 0
  BY <1>q, ZeroKept DEF BatchOK, Dead, Live, Born
<1>b. phase[x] \notin {"built", "destroyed"} => ~InBatch(x) /\ x \notin finalize
  <2>1. phase[x] = "none" => ~collecting[x]
    BY DEF LinkInv, LinkOK
  <2> QED
    BY <2>1, <1>q DEF BatchOK, Dead, TypeInv
<1>w. /\ InBatch(x) \/ x \in finalize => Shared(x) + Kept(x) >= 1
      /\ InBatch(x) /\ phase[x] = "built" /\ rec = "destroy" => Shared(x) + Kept(x) = 2
      /\ InBatch(x) => rec # "idle"
  <2>1. InBatch(x) => rec # "idle"
    BY EmptyIn DEF InBatch, PhaseInv
  <2> QED
    BY <1>q, <2>1 DEF BatchOK, Dead, Shared, Kept, TypeInv
<1>n. /\ weak[x] = Cardinality(WeakBy(x)) + Shared(x) + Kept(x)
      /\ Cardinality(WeakBy(x)) \in Nat /\ Shared(x) \in {0, 1} /\ Kept(x) \in {0, 1}
  BY WeakNat
<1>v. ASSUME UNCHANGED <<rec, batch, rest, finalize>>,
             phase'[x] = phase[x] \/ (~InBatch(x) /\ x \notin finalize)
      PROVE  BatchOK(x)'
  <2>1. InBatch(x)' = InBatch(x) /\ ToVisit(x)' = ToVisit(x)
    BY <1>v DEF InBatch, ToVisit
  <2> QED
    BY <1>v, <1>q, <1>c, <1>d, <1>h, <1>z, <2>1 DEF BatchOK, Dead
<1>1. ASSUME NEW t \in Threads, NEW o \in Objs, New(t, o) PROVE BatchOK(x)'
  <2>1. phase'[x] = phase[x] \/ (x = o /\ phase[x] = "none")
    BY <1>1 DEF New, Build
  <2> QED
    BY <1>1, <1>v, <1>b, <2>1 DEF New, reclaimer
<1>2. ASSUME NEW t \in Threads, NEW u \in Threads, NEW o \in Objs, Share(t, u, o)
      PROVE  BatchOK(x)'
  BY <1>2, <1>v DEF Share, counts, claims, values, collector, reclaimer, strings, Ready, Bump
<1>3. ASSUME NEW t \in Threads, NEW o \in Objs, Drop(t, o) PROVE BatchOK(x)'
  BY <1>3, <1>v DEF Drop, counts, claims, values, collector, reclaimer, strings, Ready
<1>4. ASSUME NEW t \in Threads, NEW o \in Objs, NEW k \in Slots, NEW p \in Objs, Store(t, o, k, p)
      PROVE  BatchOK(x)'
  BY <1>4, <1>v DEF Store, counts, claims, values, collector, reclaimer, strings, Ready
<1>5. ASSUME NEW t \in Threads, Put(t) PROVE BatchOK(x)'
  BY <1>5, <1>v DEF Put, counts, claims, values, collector, reclaimer, strings, Bump
<1>6. ASSUME NEW t \in Threads, NEW o \in Objs, NEW k \in Slots, Load(t, o, k) PROVE BatchOK(x)'
  BY <1>6, <1>v DEF Load, counts, claims, values, collector, reclaimer, strings, Ready, Bump
<1>7. ASSUME NEW t \in Threads, NEW o \in Objs, NEW v \in Versions, SaveVersion(t, o, v)
      PROVE  BatchOK(x)'
  <2>1. phase'[x] = phase[x] \/ (x = v /\ phase[x] = "none")
    BY <1>7 DEF SaveVersion, Build
  <2> QED
    BY <1>7, <1>v, <1>b, <2>1 DEF SaveVersion, reclaimer
<1>8. ASSUME NEW t \in Threads, NEW o \in Objs, WeakRef(t, o) PROVE BatchOK(x)'
  BY <1>8, <1>v DEF WeakRef, counts, claims, values, collector, reclaimer, strings, Ready, Bump
<1>9. ASSUME NEW t \in Threads, NEW o \in Objs, DropWeak(t, o) PROVE BatchOK(x)'
  <2>1. phase'[x] = phase[x] \/ (x = o /\ weak[x] = 1)
    BY <1>9 DEF DropWeak, FreedIfLast
  <2>2. x = o => Cardinality(WeakBy(x)) >= 1
    BY <1>9, WeakParts DEF DropWeak
  <2>3. x = o /\ weak[x] = 1 => ~InBatch(x) /\ x \notin finalize
    BY <2>2, <1>n, <1>w
  <2> QED
    BY <1>9, <1>v, <2>1, <2>3 DEF DropWeak, reclaimer
<1>10. ASSUME NEW t \in Threads, NEW o \in Objs, StrongRef(t, o) PROVE BatchOK(x)'
  BY <1>10, <1>v DEF StrongRef, counts, claims, values, collector, reclaimer, strings, Ready
<1>11. ASSUME NEW t \in Threads, TryIncRef(t) PROVE BatchOK(x)'
  BY <1>11, <1>v DEF TryIncRef, counts, claims, values, collector, reclaimer, strings, Bump
<1>12. ASSUME NEW t \in Threads, Recheck(t) PROVE BatchOK(x)'
  BY <1>12, <1>v DEF Recheck, counts, claims, values, collector, reclaimer, strings
<1>13. ASSUME NEW t \in Threads, Intern(t) PROVE BatchOK(x)'
  BY <1>13, <1>v DEF Intern, counts, claims, values, collector, reclaimer, strings, Ready
<1>14. ASSUME NEW t \in Threads, Lookup(t) PROVE BatchOK(x)'
  BY <1>14, <1>v DEF Lookup, counts, claims, values, collector, reclaimer, strings, Bump
<1>15. ASSUME NEW t \in Threads, NEW s \in Strings, AllocString(t, s) PROVE BatchOK(x)'
  <2>1. phase'[x] = phase[x] \/ (x = s /\ phase[x] = "none")
    BY <1>15 DEF AllocString, Build
  <2> QED
    BY <1>15, <1>v, <1>b, <2>1 DEF AllocString, reclaimer
<1>16. ASSUME NEW t \in Threads, PublishString(t) PROVE BatchOK(x)'
  BY <1>16, <1>v DEF PublishString, counts, claims, values, collector, reclaimer, strings
<1>17. ASSUME NEW t \in Threads, Own(t) PROVE BatchOK(x)'
  BY <1>17, <1>v DEF Own, counts, claims, values, collector, reclaimer, strings, Bump
<1>18. ASSUME NEW a \in Actor, DecRef(a) PROVE BatchOK(x)'
  BY <1>18, <1>v DEF DecRef, counts, claims, values, collector, reclaimer, strings, Bump
<1>19. ASSUME NEW a \in Actor, Claim(a) PROVE BatchOK(x)'
  BY <1>19, <1>v DEF Claim, counts, claims, values, collector, reclaimer, strings
<1>20. ASSUME NEW a \in Actor, DropOnce(a) PROVE BatchOK(x)'
  BY <1>20, <1>v DEF DropOnce, counts, claims, values, collector, reclaimer, strings
<1>21. ASSUME NEW a \in Actor, Null(a) PROVE BatchOK(x)'
  BY <1>21, <1>v DEF Null, counts, claims, values, collector, reclaimer, strings
<1>22. ASSUME NEW a \in Actor, Retire(a) PROVE BatchOK(x)'
  BY <1>22, <1>v DEF Retire, counts, claims, values, collector, reclaimer, strings
<1>23. ASSUME Mark PROVE BatchOK(x)'
  BY <1>23, <1>v DEF Mark, counts, claims, values, collector, reclaimer, strings
<1>24. ASSUME NEW o \in Objs, Trim(o) PROVE BatchOK(x)'
  BY <1>24, <1>v DEF Trim, counts, claims, values, collector, reclaimer, strings
<1>25. ASSUME TrimDone PROVE BatchOK(x)'
  BY <1>25, <1>v DEF TrimDone, counts, claims, values, collector, reclaimer, strings
<1>26. ASSUME Sweep PROVE BatchOK(x)'
  BY <1>26, <1>v DEF Sweep, counts, claims, values, collector, reclaimer, strings
<1>27. ASSUME Publish PROVE BatchOK(x)'
  BY <1>27, <1>v DEF Publish, counts, claims, values, collector, reclaimer, strings
<1>28. ASSUME Drain PROVE BatchOK(x)'
  <2>1. ToSet(batch) = {} /\ ToSet(batch') = ToSet(queue) /\ ToSet(rest') = ToSet(queue)
    BY <1>28, EmptyIn DEF Drain, PhaseInv
  <2>2. phase'[x] = phase[x] /\ finalize' = finalize /\ rec' = "drop"
    BY <1>28 DEF Drain
  <2> QED
    BY <1>q, <1>c, <1>d, <1>z, <2>1, <2>2 DEF BatchOK, PlaceOK, Dead, InBatch, ToVisit, Queued
<1>29. ASSUME DropNext PROVE BatchOK(x)'
  <2>0. PICK h : h = Head(rest)
    OBVIOUS
  <2>1. h \in ToSet(rest) /\ ToSet(rest) = {h} \cup ToSet(rest')
    BY <1>29, <2>0, HeadIn DEF DropNext, TypeInv
  <2>2. Has(Rec, 1, "dropOnce", h)'
    <3>1. Begun1(Rec, Op("dropOnce", h))
      BY <1>29, <2>0, DropNextShape
    <3> QED
      BY <3>1 DEF Begun1, Has, Count, Step, Op
  <2>3. phase'[x] = phase[x] /\ finalize' = finalize /\ rec' = "drop" /\ rec = "drop" /\ batch' = batch
    BY <1>29 DEF DropNext
  <2> QED
    BY <1>q, <1>c, <1>d, <1>h, <1>z, <2>1, <2>2, <2>3 DEF BatchOK, Dead, InBatch, ToVisit
<1>30. ASSUME Hold PROVE BatchOK(x)'
  <2>1. ~ToVisit(x) /\ rec = "drop" /\ ~Has(Rec, 1, "dropOnce", x)
    BY <1>30, EmptyIn DEF Hold, ToVisit, Idle, Has, Count, Cnt
  <2>2. /\ phase'[x] = phase[x] /\ finalize' = finalize /\ rec' = "destroy" /\ batch' = batch
        /\ ToSet(rest') = ToSet(batch)
    BY <1>30 DEF Hold
  <2> QED
    BY <1>q, <1>c, <1>d, <1>z, <2>1, <2>2 DEF BatchOK, Dead, InBatch, ToVisit
<1>31. ASSUME DestroyNext PROVE BatchOK(x)'
  <2>1. /\ Head(rest) \in ToSet(rest) /\ ToSet(rest) = {Head(rest)} \cup ToSet(rest')
        /\ Head(rest) \notin ToSet(rest')
    BY <1>31, HeadIn, TailOnce DEF DestroyNext, TypeInv, BatchInv, Once
  <2>2. rec = "destroy" /\ rec' = "destroy" /\ batch' = batch
    BY <1>31 DEF DestroyNext
  <2>3. CASE x # Head(rest)
    <3>1. phase'[x] = phase[x]
      BY <1>31, <2>3 DEF DestroyNext, Destroy, TypeInv
    <3>2. x \in finalize' <=> x \in finalize
      BY <1>31, <2>3 DEF DestroyNext
    <3> QED
      BY <1>q, <1>c, <1>d, <1>z, <2>1, <2>2, <2>3, <3>1, <3>2 DEF BatchOK, Dead, InBatch, ToVisit
  <2>4. CASE x = Head(rest) /\ x \in Actors
    <3>1. phase'[x] = phase[x] /\ x \in finalize'
      BY <1>31, <2>4 DEF DestroyNext
    <3> QED
      BY <1>q, <1>c, <1>d, <2>1, <2>2, <2>4, <3>1 DEF BatchOK, Dead, InBatch, ToVisit
  <2>5. CASE x = Head(rest) /\ x \notin Actors
    <3>1. phase'[x] = "destroyed" /\ finalize' = finalize
      BY <1>31, <2>5 DEF DestroyNext, Destroy, TypeInv
    <3> QED
      BY <1>q, <1>c, <1>d, <2>1, <2>2, <2>5, <3>1 DEF BatchOK, Dead, InBatch, ToVisit
  <2> QED
    BY <2>3, <2>4, <2>5
<1>32. ASSUME NEW a \in Actor, Unweak(a) PROVE BatchOK(x)'
  <2>1. Current(a) \in Objs /\ rec = "destroy" /\ InBatch(Current(a)) /\ Unweaking(Current(a))
    BY <1>32, UnweakHere, Here, ActorParts DEF Unweak, Unweaking, Has
  <2>2. x = Current(a) => weak[x] # 1
    BY <1>n, <2>1 DEF Shared, Kept
  <2>3. phase'[x] = phase[x]
    BY <1>32, <2>2 DEF Unweak, FreedIfLast
  <2> QED
    BY <1>32, <1>v, <2>3 DEF Unweak, reclaimer
<1>33. ASSUME ReleaseHolds PROVE BatchOK(x)'
  <2>1. ToSet(batch') = {} /\ ToSet(rest') = {} /\ finalize' = finalize /\ rec' = "idle" /\ strong' = strong
    BY <1>33, EmptyIn DEF ReleaseHolds
  <2>2. x \in finalize => strong[x] = 0
    BY <1>33, FinalUnowned DEF ReleaseHolds
  <2>3. x \in finalize => phase'[x] = phase[x]
    <3>1. x \in finalize /\ InBatch(x) => weak[x] # 1
      BY <1>33, <1>n, <1>w, <1>q DEF BatchOK, Dead, ReleaseHolds
    <3> QED
      BY <1>33, <3>1 DEF ReleaseHolds, InBatch
  <2> QED
    BY <1>q, <1>c, <1>d, <2>1, <2>2, <2>3 DEF BatchOK, Dead, InBatch, ToVisit
<1>34. ASSUME NEW o \in Actors, FinalizeActor(o) PROVE BatchOK(x)'
  <2>1. rec' = rec /\ batch' = batch /\ rest' = rest /\ o \in Objs
    BY <1>34, NoneParts DEF FinalizeActor
  <2>2. CASE x # o
    <3>1. phase'[x] = phase[x] /\ (x \in finalize' <=> x \in finalize)
      BY <1>34, <2>2 DEF FinalizeActor
    <3> QED
      BY <1>q, <1>c, <1>d, <1>h, <1>z, <2>1, <3>1 DEF BatchOK, Dead, InBatch, ToVisit
  <2>3. CASE x = o
    <3>1. x \in finalize /\ x \notin finalize' /\ phase'[x] # "built"
      BY <1>34, <2>3 DEF FinalizeActor, TypeInv
    <3>2. InBatch(x) => rec = "destroy"
      BY <1>q, <1>w, <3>1 DEF BatchOK, TypeInv
    <3>3. InBatch(x) => weak[x] # 1
      BY <1>q, <1>n, <1>w, <3>1, <3>2 DEF BatchOK, Dead
    <3>4. InBatch(x) => phase'[x] = "destroyed"
      BY <1>34, <2>3, <3>3 DEF FinalizeActor, TypeInv
    <3> QED
      BY <1>q, <1>c, <1>d, <2>1, <3>1, <3>2, <3>4 DEF BatchOK, Dead, InBatch, ToVisit
  <2> QED
    BY <2>2, <2>3
<1>35. ASSUME UNCHANGED vars PROVE BatchOK(x)'
  BY <1>35, <1>v DEF vars, counts, claims, values, collector, reclaimer, strings
<1> QED
  BY <1>0, <1>1, <1>2, <1>3, <1>4, <1>5, <1>6, <1>7, <1>8, <1>9, <1>10, <1>11, <1>12, <1>13,
      <1>14, <1>15, <1>16, <1>17, <1>18, <1>19, <1>20, <1>21, <1>22, <1>23, <1>24, <1>25, <1>26,
      <1>27, <1>28, <1>29, <1>30, <1>31, <1>32, <1>33, <1>34, <1>35, StepKinds

(* The batch is kept. *)
LEMMA BatchInvStep ==
  ASSUME TypeInv, NameInv, StrongInv, WeakInv, LinkInv, PlaceInv, BatchInv, RefInv, HeldInv,
         DecInv, ClaimsInv, RetireInv, ThreadInv, StringInv, UnweakInv, MarkInv, PhaseInv,
         TableInv, [Next]_vars
  PROVE  BatchInv'
<1>1. \A x \in Objs : BatchOK(x)'
  BY BatchStep
<1>2. Once(rest') /\ Once(queue') /\ Once(swept') /\ Once(batch')
  BY OnceStep
<1> QED
  BY <1>1, <1>2 DEF BatchInv, Once

-----------------------------------------------------------------------------
(* The inductive invariant. *)
Inv ==
  /\ TypeInv /\ NameInv /\ StrongInv /\ WeakInv /\ LinkInv /\ PlaceInv /\ BatchInv
  /\ RefInv /\ HeldInv /\ DecInv /\ ClaimsInv /\ RetireInv /\ ThreadInv /\ StringInv
  /\ UnweakInv /\ MarkInv /\ PhaseInv /\ TableInv

(* Every step keeps the invariant. *)
LEMMA InvStep ==
  ASSUME Inv, [Next]_vars
  PROVE  Inv'
<1>0. /\ TypeInv /\ NameInv /\ StrongInv /\ WeakInv /\ LinkInv /\ PlaceInv /\ BatchInv /\ RefInv /\ HeldInv
      /\ DecInv /\ ClaimsInv /\ RetireInv /\ ThreadInv /\ StringInv /\ UnweakInv /\ MarkInv /\ PhaseInv /\ TableInv
  BY DEF Inv
<1>1. TypeInv'
  BY <1>0, TypeStep
<1>2. NameInv'
  BY <1>0, NameStep DEF NameInv, Count
<1>3. StrongInv'
  BY <1>0, StrongStep DEF StrongInv
<1>4. WeakInv'
  BY <1>0, WeakStep DEF WeakInv
<1>5. LinkInv'
  BY <1>0, LinkStep DEF LinkInv
<1>6. PlaceInv'
  BY <1>0, PlaceStep DEF PlaceInv
<1>7. BatchInv'
  BY <1>0, BatchInvStep
<1>8. RefInv'
  BY <1>0, RefInvStep
<1>9. HeldInv'
  BY <1>0, HeldInvStep
<1>10. DecInv'
  BY <1>0, DecInvStep DEF DecInv, Count
<1>11. ClaimsInv'
  BY <1>0, ClaimsInvStep DEF ClaimsInv, Count
<1>12. RetireInv'
  BY <1>0, RetireInvStep DEF RetireInv, Count
<1>13. ThreadInv'
  BY <1>0, ThreadInvStep DEF ThreadInv, Count
<1>14. StringInv'
  <2>1. \A b \in Actor : \A m \in 1 .. Cnt(todo', b) : StringOK(b, m)'
    BY <1>0, StringOKStep
  <2>2. ASSUME NEW t \in Threads, NEW u \in Threads, NEW o \in Objs, Making(t, o)', Making(u, o)'
        PROVE  t = u
    BY <1>0, <2>2, MakingStep
  <2> QED
    BY <1>0, <2>1, <2>2 DEF StringInv, Count
<1>15. UnweakInv'
  BY <1>0, UnweakInvStep DEF UnweakInv, Count
<1>16. MarkInv'
  BY <1>0, MarkInvStep
<1>17. PhaseInv'
  BY <1>0, PhaseInvStep
<1>18. TableInv'
  BY <1>0, TableInvStep
<1> QED
  BY <1>1, <1>2, <1>3, <1>4, <1>5, <1>6, <1>7, <1>8, <1>9, <1>10, <1>11, <1>12, <1>13, <1>14,
      <1>15, <1>16, <1>17, <1>18 DEF Inv

(* The invariant holds at the start. *)
LEMMA InvInit ==
  ASSUME Init
  PROVE  Inv
<1>0. /\ \A a \in Actor : 1 .. Count(a) = {}
      /\ \A o : ~Retiring(o) /\ ~Claiming(o) /\ ~Unweaking(o)
      /\ \A t \in Threads, o \in Objs : ~Making(t, o)
      /\ \A a \in Actor : Idle(a)
  <2>1. \A a \in Actor : Count(a) = 0
    BY DEF Init, Count, Cnt
  <2>2. \A a \in Actor : Idle(a)
    BY DEF Init, Idle
  <2> QED
    BY <2>1, <2>2, ActorParts DEF Retiring, Claiming, Unweaking, Making, Has
<1>e. \A o : ~Queued(o) /\ ~Swept(o) /\ ~InBatch(o) /\ ~ToVisit(o) /\ o \notin finalize
  BY EmptyIn DEF Init, Queued, Swept, InBatch, ToVisit
<1>1. TypeInv
  BY NoneParts DEF Init, TypeInv
<1>2. NameInv /\ DecInv /\ ClaimsInv /\ RetireInv /\ ThreadInv /\ UnweakInv
  BY <1>0 DEF NameInv, DecInv, ClaimsInv, RetireInv, ThreadInv, UnweakInv
<1>3. StrongInv
  <2> SUFFICES ASSUME NEW o \in Objs PROVE StrongOK(o)
    BY DEF StrongInv
  <2>1. HeldBy(o) = {}
    BY DEF Init, HeldBy
  <2>2. RefBy(o) = {}
    BY NoneParts DEF Init, RefBy, RefIn
  <2>3. Due(todo, o) = {}
    BY <1>0 DEF Due, Owes, Count
  <2>4. strong[o] = 0
    BY DEF Init
  <2> QED
    BY <2>1, <2>2, <2>3, <2>4, FS_EmptySet DEF StrongOK
<1>4. WeakInv
  <2> SUFFICES ASSUME NEW o \in Objs PROVE WeakOK(o)
    BY DEF WeakInv
  <2>1. WeakBy(o) = {}
    BY DEF Init, WeakBy
  <2>2. weak[o] = 0 /\ phase[o] = "none"
    BY DEF Init
  <2>3. Shared(o) = 0 /\ Kept(o) = 0
    BY <1>0, <1>e, <2>2 DEF Shared, Kept
  <2> QED
    BY <2>1, <2>2, <2>3, FS_EmptySet DEF WeakOK
<1>5. LinkInv
  BY DEF Init, LinkInv, LinkOK, Live, Slots
<1>6. PlaceInv
  BY <1>0, <1>e DEF Init, PlaceInv, PlaceOK, Dead
<1>7. BatchInv
  <2>1. \A o \in Objs : BatchOK(o)
    BY <1>e DEF BatchOK
  <2> QED
    BY <2>1 DEF Init, BatchInv
<1>8. RefInv /\ HeldInv
  BY DEF Init, RefInv, HeldInv
<1>9. StringInv
  BY <1>0 DEF StringInv
<1>10. MarkInv
  BY DEF Init, MarkInv, InProgress
<1>11. PhaseInv /\ TableInv
  BY <1>0, ActorParts DEF Init, PhaseInv, TableInv
<1> QED
  BY <1>1, <1>2, <1>3, <1>4, <1>5, <1>6, <1>7, <1>8, <1>9, <1>10, <1>11 DEF Inv

(* The invariant contains the types. *)
LEMMA InvType ==
  ASSUME Inv
  PROVE  TypeOK
<1>1. TypeInv /\ WeakInv
  BY DEF Inv
<1>2. weak \in [Objs -> Nat]
  <2>1. \A o \in Objs : weak[o] \in Nat
    BY <1>1, WeakNat
  <2> QED
    BY <1>1, <2>1 DEF TypeInv
<1>3. ASSUME NEW a \in Actor, NEW i \in DOMAIN todo[a]
      PROVE  todo[a][i].op \in OpNames /\ todo[a][i].obj \in Objs \cup {None}
  <2>1. todo[a][i] \in Steps
    BY <1>1 DEF TypeInv
  <2> QED
    BY <2>1 DEF Steps, OpNames
<1>4. \A s \in {queue, swept, batch, rest} : ToSet(s) \subseteq Objs
  BY <1>1, ListObjs DEF TypeInv
<1>5. marked \cup finalize \cup interned \subseteq Objs /\ table \in Objs \cup {None}
  BY <1>1, NoneParts DEF TypeInv
<1> QED
  BY <1>1, <1>2, <1>3, <1>4, <1>5 DEF TypeInv, TypeOK

(* A dead object that the reclaimer has not finished with has its block. *)
LEMMA WaitingKeeps ==
  ASSUME BatchInv, NEW o \in Objs, Waiting(o)
  PROVE  phase[o] # "freed"
BY DEF BatchInv, BatchOK, Waiting

(* What a step in progress names has its block. *)
LEMMA StepKeeps ==
  ASSUME Inv, NEW a \in Actor, NEW n \in 1 .. Count(a), Step(a, n).obj # None
  PROVE  Step(a, n).obj \in Objs /\ phase[Step(a, n).obj] # "freed"
<1>0. /\ TypeInv /\ NameInv /\ StrongInv /\ WeakInv /\ BatchInv /\ HeldInv /\ DecInv
      /\ ClaimsInv /\ RetireInv /\ ThreadInv /\ StringInv /\ UnweakInv
  BY DEF Inv
<1>1. /\ NameOK(a, n) /\ DecOK(a, n) /\ ClaimOK(a, n) /\ RetireOK(a, n) /\ ThreadOK(a, n)
      /\ StringOK(a, n) /\ UnweakOK(a, n)
  BY <1>0 DEF NameInv, DecInv, ClaimsInv, RetireInv, ThreadInv, StringInv, UnweakInv
<1>2. PICK o : o = Step(a, n).obj
  OBVIOUS
<1>3. o \in Objs /\ Step(a, n).op \notin {"lookup", "alloc"}
  BY <1>1, <1>2 DEF NameOK
<1>4. Step(a, n).op \in OpNames
  <2>1. todo[a] \in Seq(Steps) /\ Len(todo[a]) + 1 - n \in 1 .. Len(todo[a])
    BY <1>0 DEF TypeInv, Count, Cnt
  <2>2. Step(a, n) \in Steps
    BY <2>1 DEF Step, Stp
  <2> QED
    BY <2>2 DEF Steps, OpNames
<1>w. Waiting(o) => phase[o] # "freed"
  BY <1>0, <1>3, WaitingKeeps
<1>r. \A b \in Actor : \A m : Has(b, m, "retire", o) => phase[o] # "freed"
  BY <1>0 DEF RetireInv, RetireOK, Has, Dead
<1>u. \A b \in Actor : \A m : Has(b, m, "null", o) => phase[o] # "freed"
  BY <1>0, <1>r DEF RetireInv, RetireOK, Has
<1>5. CASE Step(a, n).op \in {"dec", "recheck"}
  BY <1>1, <1>2, <1>3, <1>5, <1>w DEF DecOK, Live
<1>6. CASE Step(a, n).op = "claim"
  BY <1>1, <1>2, <1>3, <1>6, <1>w DEF ClaimOK, Live
<1>7. CASE Step(a, n).op \in {"retire", "null", "dropOnce"}
  <2>1. InBatch(o) => phase[o] # "freed"
    BY <1>0, <1>3 DEF BatchInv, BatchOK
  <2> QED
    BY <1>1, <1>2, <1>3, <1>7, <1>r, <1>u, <2>1 DEF RetireOK, Dead
<1>8. CASE Step(a, n).op = "put"
  <2>1. a \in Threads /\ o \in held[a]
    BY <1>1, <1>2, <1>8, ActorParts DEF ThreadOK
  <2> QED
    BY <1>0, <1>2, <1>3, <2>1 DEF HeldInv, Live
<1>9. CASE Step(a, n).op = "try"
  <2>1. a \in Threads /\ o \in weakHeld[a]
    BY <1>1, <1>2, <1>9 DEF ThreadOK
  <2> QED
    BY <1>0, <1>2, <1>3, <2>1, WeakParts
<1>10. CASE Step(a, n).op = "publish"
  BY <1>1, <1>2, <1>3, <1>10 DEF StringOK, Fresh, Live
<1>11. CASE Step(a, n).op = "own"
  <2>1. CASE Has(a, 1, "dec", o)
    <3>1. DecOK(a, 1) /\ a \in Threads
      BY <1>0, <1>1, <1>11, <2>1 DEF DecInv, Has, StringOK
    <3>2. Live(o)
      BY <2>1, <3>1, ActorParts DEF DecOK, Has
    <3> QED
      BY <1>2, <1>3, <3>2 DEF Live
  <2>2. CASE Fresh(o)
    BY <1>2, <1>3, <2>2 DEF Fresh, Live
  <2> QED
    BY <1>1, <1>2, <1>11, <2>1, <2>2 DEF StringOK
<1>12. CASE Step(a, n).op = "unweak"
  BY <1>1, <1>2, <1>3, <1>12 DEF UnweakOK
<1> QED
  BY <1>3, <1>4, <1>5, <1>6, <1>7, <1>8, <1>9, <1>10, <1>11, <1>12 DEF OpNames

(* Nothing that is freed is named. *)
LEMMA InvNoUse ==
  ASSUME Inv
  PROVE  NoUseAfterFree
<1>0. /\ TypeInv /\ WeakInv /\ LinkInv /\ PlaceInv /\ BatchInv /\ RefInv /\ TableInv
  BY DEF Inv
<1> SUFFICES ASSUME NEW o \in Objs, phase[o] = "freed",
                    o \in (UNION {weakHeld[t] : t \in Threads})
                            \cup (UNION {Pending(a) : a \in Actor})
                            \cup (UNION {Targets(q) : q \in Objs \ Freed})
                            \cup ToSet(queue) \cup ToSet(swept) \cup ToSet(batch)
                            \cup finalize \cup {table}
             PROVE  FALSE
  BY DEF NoUseAfterFree, Freed
<1>1. ASSUME NEW t \in Threads, o \in weakHeld[t] PROVE FALSE
  BY <1>0, <1>1, WeakParts
<1>2. ASSUME NEW a \in Actor, o \in Pending(a) PROVE FALSE
  <2>1. PICK i \in DOMAIN todo[a] : o = todo[a][i].obj /\ o # None
    BY <1>2 DEF Pending
  <2>2. todo[a] \in Seq(Steps) /\ i \in 1 .. Len(todo[a])
    BY <1>0 DEF TypeInv
  <2>3. PICK n : n = Len(todo[a]) + 1 - i
    OBVIOUS
  <2>4. n \in 1 .. Count(a) /\ Len(todo[a]) + 1 - n = i
    BY <2>2, <2>3 DEF Count, Cnt
  <2>5. Step(a, n).obj = o
    BY <2>1, <2>4 DEF Step, Stp
  <2> QED
    BY <2>1, <2>4, <2>5, StepKeeps
<1>3. ASSUME NEW q \in Objs, o \in Targets(q) PROVE FALSE
  <2>1. PICK k \in Slots : o = ref[q][k] /\ o # None
    BY <1>3 DEF Targets
  <2>2. RefOK(q, o)
    BY <1>0, <2>1 DEF RefInv
  <2> QED
    BY <1>0, <2>2, WaitingKeeps DEF RefOK, Live
<1>4. ~Queued(o) /\ ~Swept(o) /\ ~InBatch(o) /\ o \notin finalize
  BY <1>0 DEF PlaceInv, PlaceOK, BatchInv, BatchOK, Dead
<1>5. o # table
  BY <1>0, NoneParts DEF TableInv
<1> QED
  BY <1>1, <1>2, <1>3, <1>4, <1>5 DEF Queued, Swept, InBatch

(* Every state has the types of the declarations, and no weak count is     *)
(* negative (the reference counts of Value and Obj::decRef).               *)
THEOREM TypeCorrect == Spec => []TypeOK
<1>1. Inv /\ [Next]_vars => Inv'
  BY InvStep
<1> QED
  BY InvInit, <1>1, InvType, PTL DEF Spec

(* No use after free: whatever still names a block names one that was not  *)
(* given back (the batch hold of VM::freeObjects, the weak count of Value, *)
(* the locked looks of newObjString, ~ObjString's erasure).                *)
THEOREM NoUseAfterFreeHolds == Spec => []NoUseAfterFree
<1>1. Inv /\ [Next]_vars => Inv'
  BY InvStep
<1> QED
  BY InvInit, <1>1, InvNoUse, PTL DEF Spec

-----------------------------------------------------------------------------
(* The refinement of ObjectHeap. *)

(* What a program sees of an object. *)
Seen(o) ==
  CASE phase[o] = "none" -> "none"
    [] phase[o] = "built" /\ ~collecting[o] -> "live"
    [] phase[o] = "built" /\ collecting[o] -> "dead"
    [] OTHER -> "gone"

(* What a program sees of an object, by its phase and its claim. *)
LEMMA SeenParts ==
  ASSUME TypeInv, NEW o \in Objs
  PROVE  /\ Seen(o) = "none" <=> phase[o] = "none"
         /\ Seen(o) = "live" <=> Live(o)
         /\ Seen(o) = "dead" <=> Dead(o)
         /\ Seen(o) = "gone" <=> phase[o] \in {"destroyed", "freed"}
         /\ Seen(o) \in {"none", "live", "dead", "gone"}
<1>1. phase[o] \in {"none", "built", "destroyed", "freed"} /\ collecting[o] \in BOOLEAN
  BY DEF TypeInv
<1>2. CASE phase[o] = "none"
  BY <1>2 DEF Seen, Live, Dead
<1>3. CASE phase[o] = "built" /\ ~collecting[o]
  BY <1>3 DEF Seen, Live, Dead
<1>4. CASE phase[o] = "built" /\ collecting[o]
  BY <1>4 DEF Seen, Live, Dead
<1>5. CASE phase[o] \in {"destroyed", "freed"}
  BY <1>5 DEF Seen, Live, Dead
<1> QED
  BY <1>1, <1>2, <1>3, <1>4, <1>5

(* What nobody owns cannot be reached. *)
LEMMA UnownedUnreached ==
  ASSUME TypeInv, StrongInv, HeldInv, RefInv, LinkInv, NEW x \in Objs, strong[x] = 0
  PROVE  x \notin Reach(Roots)
<1>1. PICK C : C = Reach(Roots) \ {x}
  OBVIOUS
<1>2. /\ Roots \subseteq Reach(Roots) /\ Closed(Reach(Roots)) /\ Reach(Roots) \subseteq world.objs
      /\ world.objs \subseteq Objs
  BY ReachParts, WorldObjs DEF Reach
<1>3. /\ \A t \in Threads : x \notin held[t]
      /\ \A q \in Objs, k \in Slots : ref[q][k] # x
  <2>1. /\ \A t \in Threads : x \in held[t] => strong[x] >= 1
        /\ \A q \in Objs, k \in Slots : ref[q][k] = x => strong[x] >= 1
    BY Owned
  <2> QED
    BY <2>1
<1>4. Roots \subseteq C
  BY <1>1, <1>2, <1>3 DEF Roots
<1>5. Closed(C)
  <2>1. ASSUME NEW q \in C, NEW p \in Targets(q) PROVE p \in C
    <3>1. p \in Reach(Roots) /\ q \in Objs
      BY <1>1, <1>2, <2>1 DEF Closed
    <3>2. p # x
      BY <1>3, <2>1, <3>1 DEF Targets
    <3> QED
      BY <1>1, <3>1, <3>2
  <2> QED
    BY <2>1 DEF Closed
<1>6. C \in SUBSET world.objs
  BY <1>1, <1>2
<1> QED
  BY <1>1, <1>4, <1>5, <1>6 DEF Reach

(* What a collection did not mark cannot be reached. *)
LEMMA UnmarkedUnreached ==
  ASSUME TypeInv, HeldInv, RefInv, LinkInv, MarkInv, InProgress
  PROVE  Reach(Roots) \subseteq marked
<1>1. PICK C : C = Reach(Roots) \cap marked
  OBVIOUS
<1>2. /\ Roots \subseteq Reach(Roots) /\ Closed(Reach(Roots)) /\ Reach(Roots) \subseteq world.objs
  BY ReachParts DEF Reach
<1>3. Roots \subseteq marked /\ Closed(marked)
  BY DEF MarkInv
<1>4. Roots \subseteq C /\ Closed(C) /\ C \in SUBSET world.objs
  BY <1>1, <1>2, <1>3 DEF Closed
<1> QED
  BY <1>1, <1>4 DEF Reach

(* The same after a step. *)
LEMMA ReachNext ==
  Inv' => (Roots \subseteq Reach(Roots) /\ Closed(Reach(Roots)) /\ Reach(Roots) \subseteq LiveObjs)'
<1>1. Inv => Roots \subseteq Reach(Roots) /\ Closed(Reach(Roots)) /\ Reach(Roots) \subseteq LiveObjs
  BY ReachParts DEF Inv
<1> QED
  BY <1>1, PTL

(* What can be reached depends on the live objects only. *)
LEMMA ReachSame ==
  ASSUME Inv, Inv', UNCHANGED <<held, world>>, \A o \in LiveObjs : ref'[o] = ref[o]
  PROVE  Reach(Roots)' = Reach(Roots)
<1>1. /\ Roots \subseteq Reach(Roots) /\ Closed(Reach(Roots)) /\ Reach(Roots) \subseteq LiveObjs
      /\ Reach(Roots) \subseteq world.objs
  BY ReachParts DEF Inv, Reach
<1>2. Roots' \subseteq Reach(Roots)' /\ Closed(Reach(Roots))'
  BY ReachNext
<1>3. PICK R : R = Reach(Roots)
  OBVIOUS
<1>4. PICK S : S = Reach(Roots)'
  OBVIOUS
<1>5. Roots' = Roots /\ world' = world
  BY DEF Roots
<1>6. \A o \in R : {ref'[o][k] : k \in Slots} \ {None} = {ref[o][k] : k \in Slots} \ {None}
  BY <1>1, <1>3
<1>7. Closed(R)'
  BY <1>1, <1>3, <1>6 DEF Closed, Targets
<1>8. S \subseteq R
  <2>1. R \in SUBSET world'.objs /\ Roots' \subseteq R
    BY <1>1, <1>3, <1>5
  <2> QED
    BY <1>4, <1>7, <2>1 DEF Reach
<1>9. Closed(S)
  <2>1. \A o \in S : {ref'[o][k] : k \in Slots} \ {None} \subseteq S
    BY <1>2, <1>4 DEF Closed, Targets
  <2> QED
    BY <1>6, <1>8, <2>1 DEF Closed, Targets
<1>10. R \subseteq S
  BY <1>1, <1>2, <1>3, <1>4, <1>5, <1>8, <1>9 DEF Reach
<1> QED
  BY <1>3, <1>4, <1>8, <1>10

(* What can be reached is seen live, before and after a step. *)
LEMMA ReachSeen ==
  /\ Inv => \A o \in Reach(Roots) : o \in Objs /\ Seen(o) = "live"
  /\ Inv' => (\A o \in Reach(Roots) : o \in Objs /\ Seen(o) = "live")'
<1>1. Inv => \A o \in Reach(Roots) : o \in Objs /\ Seen(o) = "live"
  <2> SUFFICES ASSUME Inv, NEW o \in Reach(Roots) PROVE o \in Objs /\ Seen(o) = "live"
    OBVIOUS
  <2>1. o \in Objs /\ Live(o)
    BY ReachParts, WorldObjs DEF Inv, LiveObjs
  <2> QED
    BY <2>1, SeenParts DEF Inv
<1> QED
  BY <1>1, PTL

(* What a program sees of the objects is the status of ObjectHeap. *)
LEMMA HeapLive ==
  Heap!Live = {o \in Objs : Seen(o) = "live"}
BY DEF Heap!Live, Seen

(* A step that a program does not see may change what it can reach. *)
LEMMA HeapUse ==
  ASSUME Inv, Inv', \A o \in Objs : Seen(o)' = Seen(o)
  PROVE  Heap!Next
<1>1. Reach(Roots)' \subseteq Heap!Live
  BY ReachSeen, HeapLive
<1>2. [o \in Objs |-> Seen(o)]' = [o \in Objs |-> Seen(o)]
  OBVIOUS
<1>3. Heap!Use
  BY <1>1, <1>2 DEF Heap!Use, Seen
<1> QED
  BY <1>3 DEF Heap!Next

(* A new object can be reached. *)
LEMMA HeapBirth ==
  ASSUME Inv, Inv', NEW y \in Objs, Seen(y) = "none",
         \A o \in Objs : Seen(o)' = IF o = y THEN "live" ELSE Seen(o)
  PROVE  Heap!Next
<1>1. Reach(Roots)' \subseteq Heap!Live \cup {y}
  BY ReachSeen, HeapLive
<1>2. [o \in Objs |-> Seen(o)]' = [o \in Objs |-> IF o \in {y} THEN "live" ELSE [p \in Objs |-> Seen(p)][o]]
  OBVIOUS
<1>3. Heap!Birth({y})
  BY <1>1, <1>2 DEF Heap!Birth, Seen
<1> QED
  BY <1>3 DEF Heap!Next

(* Objects that cannot be reached die. *)
LEMMA HeapDeath ==
  ASSUME NEW S \in SUBSET Objs, UNCHANGED Reach(Roots),
         \A o \in S : Seen(o) = "live" /\ o \notin Reach(Roots),
         \A o \in Objs : Seen(o)' = IF o \in S THEN "dead" ELSE Seen(o)
  PROVE  Heap!Next
<1>1. S \subseteq Heap!Live \ Reach(Roots)
  BY HeapLive
<1>2. [o \in Objs |-> Seen(o)]' = [o \in Objs |-> IF o \in S THEN "dead" ELSE [p \in Objs |-> Seen(p)][o]]
  OBVIOUS
<1>3. Heap!Death(S)
  BY <1>1, <1>2 DEF Heap!Death, Seen
<1> QED
  BY <1>3 DEF Heap!Next

(* A dead object is destroyed. *)
LEMMA HeapDestroy ==
  ASSUME NEW y \in Objs, Seen(y) = "dead", UNCHANGED Reach(Roots),
         \A o \in Objs : Seen(o)' = IF o = y THEN "gone" ELSE Seen(o)
  PROVE  Heap!Next
<1>1. [o \in Objs |-> Seen(o)]' = [[o \in Objs |-> Seen(o)] EXCEPT ![y] = "gone"]
  OBVIOUS
<1>2. [o \in Objs |-> Seen(o)][y] = "dead"
  OBVIOUS
<1>3. Heap!Destroy(y)
  BY <1>1, <1>2 DEF Heap!Destroy, Seen
<1> QED
  BY <1>3 DEF Heap!Next

(* What a program sees of an object after a step. *)
LEMMA SeenNext ==
  ASSUME Inv, Inv', NEW o \in Objs
  PROVE  /\ Live(o)' => Seen(o)' = "live"
         /\ Dead(o)' => Seen(o)' = "dead"
         /\ phase'[o] \in {"destroyed", "freed"} => Seen(o)' = "gone"
         /\ phase'[o] = phase[o] /\ collecting'[o] = collecting[o] => Seen(o)' = Seen(o)
<1>1. phase'[o] \in {"none", "built", "destroyed", "freed"} /\ collecting'[o] \in BOOLEAN
  BY DEF Inv, TypeInv
<1>2. CASE Live(o)'
  BY <1>2 DEF Seen, Live, Dead
<1>3. CASE Dead(o)'
  BY <1>3 DEF Seen, Live, Dead
<1>4. CASE phase'[o] \in {"destroyed", "freed"}
  BY <1>4 DEF Seen, Live, Dead
<1>5. phase'[o] = phase[o] /\ collecting'[o] = collecting[o] => Seen(o)' = Seen(o)
  BY DEF Seen
<1> QED
  BY <1>2, <1>3, <1>4, <1>5 DEF Live, Dead

(* Every step is one of the heap a program sees. *)
LEMMA HeapStep ==
  ASSUME TypeInv, Inv, Inv', [Next]_vars
  PROVE  Heap!Next
<1>0. world.threads \subseteq Threads
  BY WorldThreads
<1>i. /\ TypeInv /\ NameInv /\ StrongInv /\ WeakInv /\ LinkInv /\ PlaceInv /\ BatchInv
      /\ RefInv /\ HeldInv /\ DecInv /\ ClaimsInv /\ RetireInv /\ ThreadInv /\ StringInv
      /\ UnweakInv /\ MarkInv /\ PhaseInv /\ TableInv
  BY DEF Inv
<1>k. ASSUME UNCHANGED <<phase, collecting>> PROVE Heap!Next
  <2>1. \A o \in Objs : Seen(o)' = Seen(o)
    BY <1>k, SeenNext
  <2> QED
    BY <2>1, HeapUse
<1>f. ASSUME collecting' = collecting,
             \A o \in Objs : phase'[o] = phase[o] \/ {phase[o], phase'[o]} \subseteq {"destroyed", "freed"}
      PROVE  Heap!Next
  <2>1. ASSUME NEW o \in Objs PROVE Seen(o)' = Seen(o)
    BY <1>f, <1>i, SeenNext, SeenParts
  <2> QED
    BY <2>1, HeapUse
<1>b. ASSUME NEW y \in Objs, phase[y] = "none", phase' = [phase EXCEPT ![y] = "built"],
             UNCHANGED collecting
      PROVE  Heap!Next
  <2>1. ~collecting[y] /\ Seen(y) = "none"
    BY <1>i, <1>b, NotBuilt, SeenParts
  <2>2. ASSUME NEW o \in Objs PROVE Seen(o)' = IF o = y THEN "live" ELSE Seen(o)
    <3>1. phase'[y] = "built" /\ Live(y)'
      BY <1>b, <1>i, <2>1 DEF Live, TypeInv
    <3>2. o # y => phase'[o] = phase[o] /\ collecting'[o] = collecting[o]
      BY <1>b
    <3> QED
      BY <3>1, <3>2, SeenNext
  <2> QED
    BY <2>1, <2>2, HeapBirth
<1>r. UNCHANGED <<held, ref, world>> => UNCHANGED Reach(Roots)
  BY ReachSame
<1>1. ASSUME NEW t \in Threads, NEW o \in Objs, New(t, o) PROVE Heap!Next
  BY <1>1, <1>b, NoneParts DEF New, Build
<1>2. ASSUME NEW t \in Threads, NEW u \in Threads, NEW o \in Objs, Share(t, u, o) PROVE Heap!Next
  BY <1>2, <1>k DEF Share, counts, claims, values, collector, reclaimer, strings, Ready, Bump
<1>3. ASSUME NEW t \in Threads, NEW o \in Objs, Drop(t, o) PROVE Heap!Next
  BY <1>3, <1>k DEF Drop, counts, claims, values, collector, reclaimer, strings, Ready
<1>4. ASSUME NEW t \in Threads, NEW o \in Objs, NEW k \in Slots, NEW p \in Objs, Store(t, o, k, p)
      PROVE  Heap!Next
  BY <1>4, <1>k DEF Store, counts, claims, values, collector, reclaimer, strings, Ready
<1>5. ASSUME NEW t \in Threads, Put(t) PROVE Heap!Next
  BY <1>5, <1>k DEF Put, counts, claims, values, collector, reclaimer, strings, Bump
<1>6. ASSUME NEW t \in Threads, NEW o \in Objs, NEW k \in Slots, Load(t, o, k) PROVE Heap!Next
  BY <1>6, <1>k DEF Load, counts, claims, values, collector, reclaimer, strings, Ready, Bump
<1>7. ASSUME NEW t \in Threads, NEW o \in Objs, NEW v \in Versions, SaveVersion(t, o, v)
      PROVE  Heap!Next
  BY <1>7, <1>b, NoneParts DEF SaveVersion, Build
<1>8. ASSUME NEW t \in Threads, NEW o \in Objs, WeakRef(t, o) PROVE Heap!Next
  BY <1>8, <1>k DEF WeakRef, counts, claims, values, collector, reclaimer, strings, Ready, Bump
<1>9. ASSUME NEW t \in Threads, NEW o \in Objs, DropWeak(t, o) PROVE Heap!Next
  <2>1. o \in Objs /\ (weak[o] = 1 => phase[o] = "destroyed")
    BY <1>9, <1>i, WeakParts, LastWeak DEF DropWeak
  <2>2. ASSUME NEW x \in Objs
        PROVE  phase'[x] = phase[x] \/ {phase[x], phase'[x]} \subseteq {"destroyed", "freed"}
    BY <1>9, <1>i, <2>1 DEF DropWeak, FreedIfLast, TypeInv
  <2> QED
    BY <1>9, <1>f, <2>2 DEF DropWeak, claims
<1>10. ASSUME NEW t \in Threads, NEW o \in Objs, StrongRef(t, o) PROVE Heap!Next
  BY <1>10, <1>k DEF StrongRef, counts, claims, values, collector, reclaimer, strings, Ready
<1>11. ASSUME NEW t \in Threads, TryIncRef(t) PROVE Heap!Next
  BY <1>11, <1>k DEF TryIncRef, counts, claims, values, collector, reclaimer, strings, Bump
<1>12. ASSUME NEW t \in Threads, Recheck(t) PROVE Heap!Next
  BY <1>12, <1>k DEF Recheck, counts, claims, values, collector, reclaimer, strings
<1>13. ASSUME NEW t \in Threads, Intern(t) PROVE Heap!Next
  BY <1>13, <1>k DEF Intern, counts, claims, values, collector, reclaimer, strings, Ready
<1>14. ASSUME NEW t \in Threads, Lookup(t) PROVE Heap!Next
  BY <1>14, <1>k DEF Lookup, counts, claims, values, collector, reclaimer, strings, Bump
<1>15. ASSUME NEW t \in Threads, NEW s \in Strings, AllocString(t, s) PROVE Heap!Next
  BY <1>15, <1>b, NoneParts DEF AllocString, Build
<1>16. ASSUME NEW t \in Threads, PublishString(t) PROVE Heap!Next
  BY <1>16, <1>k DEF PublishString, counts, claims, values, collector, reclaimer, strings
<1>17. ASSUME NEW t \in Threads, Own(t) PROVE Heap!Next
  BY <1>17, <1>k DEF Own, counts, claims, values, collector, reclaimer, strings, Bump
<1>18. ASSUME NEW a \in Actor, DecRef(a) PROVE Heap!Next
  BY <1>18, <1>k DEF DecRef, counts, claims, values, collector, reclaimer, strings, Bump
<1>19. ASSUME NEW a \in Actor, Claim(a) PROVE Heap!Next
  <2>1. /\ Current(a) \in Objs /\ strong[Current(a)] = 0
        /\ Live(Current(a)) \/ collecting[Current(a)]
    BY <1>19, <1>i, ClaimHere DEF Claim, Waiting
  <2>2. collecting' = [collecting EXCEPT ![Current(a)] = TRUE]
    BY <1>19 DEF Claim
  <2>3. CASE collecting[Current(a)]
    <3>1. collecting' = collecting
      BY <1>i, <2>2, <2>3 DEF TypeInv
    <3> QED
      BY <1>19, <1>k, <3>1 DEF Claim
  <2>4. CASE Live(Current(a))
    <3>1. \A x \in {Current(a)} : Seen(x) = "live" /\ x \notin Reach(Roots)
      BY <1>i, <2>1, <2>4, SeenParts, UnownedUnreached
    <3>2. UNCHANGED Reach(Roots)
      BY <1>19, <1>r DEF Claim, values, strings
    <3>3. ASSUME NEW x \in Objs PROVE Seen(x)' = IF x \in {Current(a)} THEN "dead" ELSE Seen(x)
      <4>1. phase'[x] = phase[x]
        BY <1>19 DEF Claim
      <4>2. CASE x = Current(a)
        <5>1. Dead(x)'
          BY <1>i, <2>2, <2>4, <4>1, <4>2 DEF Live, Dead, TypeInv
        <5> QED
          BY <4>2, <5>1, SeenNext
      <4>3. CASE x # Current(a)
        <5>1. collecting'[x] = collecting[x]
          BY <2>2, <4>3
        <5> QED
          BY <4>1, <4>3, <5>1, SeenNext
      <4> QED
        BY <4>2, <4>3
    <3>4. {Current(a)} \in SUBSET Objs
      BY <2>1
    <3> QED
      BY <3>1, <3>2, <3>3, <3>4, HeapDeath
  <2> QED
    BY <2>1, <2>3, <2>4
<1>20. ASSUME NEW a \in Actor, DropOnce(a) PROVE Heap!Next
  BY <1>20, <1>k DEF DropOnce, counts, claims, values, collector, reclaimer, strings
<1>21. ASSUME NEW a \in Actor, Null(a) PROVE Heap!Next
  BY <1>21, <1>k DEF Null, counts, claims, values, collector, reclaimer, strings
<1>22. ASSUME NEW a \in Actor, Retire(a) PROVE Heap!Next
  BY <1>22, <1>k DEF Retire, counts, claims, values, collector, reclaimer, strings
<1>23. ASSUME Mark PROVE Heap!Next
  BY <1>23, <1>k DEF Mark, counts, claims, values, collector, reclaimer, strings
<1>24. ASSUME NEW o \in Objs, Trim(o) PROVE Heap!Next
  BY <1>24, <1>k DEF Trim, counts, claims, values, collector, reclaimer, strings
<1>25. ASSUME TrimDone PROVE Heap!Next
  BY <1>25, <1>k DEF TrimDone, counts, claims, values, collector, reclaimer, strings
<1>26. ASSUME Sweep PROVE Heap!Next
  <2>1. PICK S \in SUBSET Objs : S = Unmarked
    BY DEF Unmarked
  <2>2. \A x \in S : Live(x) /\ x \notin marked
    BY <2>1 DEF Unmarked, Live
  <2>3. Reach(Roots) \subseteq marked
    BY <1>26, <1>i, UnmarkedUnreached DEF Sweep, InProgress
  <2>4. \A x \in S : Seen(x) = "live" /\ x \notin Reach(Roots)
    BY <1>i, <2>2, <2>3, SeenParts
  <2>5. UNCHANGED Reach(Roots)
    BY <1>26, <1>r DEF Sweep, values
  <2>6. ASSUME NEW x \in Objs PROVE Seen(x)' = IF x \in S THEN "dead" ELSE Seen(x)
    <3>1. phase'[x] = phase[x] /\ collecting'[x] = (collecting[x] \/ x \in S)
      BY <1>26, <2>1 DEF Sweep
    <3>2. CASE x \in S
      <4>1. Dead(x)'
        BY <2>2, <3>1, <3>2 DEF Live, Dead
      <4> QED
        BY <3>2, <4>1, SeenNext
    <3>3. CASE x \notin S
      <4>1. collecting'[x] = collecting[x]
        BY <1>i, <3>1, <3>3 DEF TypeInv
      <4> QED
        BY <3>1, <3>3, <4>1, SeenNext
    <3> QED
      BY <3>2, <3>3
  <2> QED
    BY <2>4, <2>5, <2>6, HeapDeath
<1>27. ASSUME Publish PROVE Heap!Next
  BY <1>27, <1>k DEF Publish, counts, claims, values, collector, reclaimer, strings
<1>28. ASSUME Drain PROVE Heap!Next
  BY <1>28, <1>k DEF Drain, counts, claims, values, collector, reclaimer, strings
<1>29. ASSUME DropNext PROVE Heap!Next
  BY <1>29, <1>k DEF DropNext, counts, claims, values, collector, reclaimer, strings
<1>30. ASSUME Hold PROVE Heap!Next
  BY <1>30, <1>k DEF Hold, counts, claims, values, collector, reclaimer, strings
<1>31. ASSUME DestroyNext PROVE Heap!Next
  <2>0. PICK h : h = Head(rest)
    OBVIOUS
  <2>1. h \in Objs /\ ToVisit(h)
    BY <1>31, <1>i, <2>0, HeadIn DEF DestroyNext, ToVisit, TypeInv
  <2>2. Dead(h)
    BY <1>i, <2>1 DEF BatchInv, BatchOK
  <2>3. CASE h \in Actors
    BY <1>31, <1>k, <2>0, <2>3 DEF DestroyNext, claims
  <2>4. CASE h \notin Actors
    <3>1. Seen(h) = "dead"
      BY <1>i, <2>1, <2>2, SeenParts
    <3>2. phase' = [phase EXCEPT ![h] = "destroyed"] /\ collecting' = collecting
      BY <1>31, <2>0, <2>4 DEF DestroyNext, Destroy, claims
    <3>3. UNCHANGED Reach(Roots)
      <4>1. ref' = [ref EXCEPT ![h]["hidden"] = None] /\ UNCHANGED <<held, world>>
        BY <1>31, <2>0, <2>4 DEF DestroyNext, Destroy
      <4>2. ASSUME NEW o \in LiveObjs PROVE ref'[o] = ref[o]
        BY <2>2, <4>1, <4>2 DEF LiveObjs, Live, Dead
      <4> QED
        BY <4>1, <4>2, ReachSame
    <3>4. ASSUME NEW o \in Objs PROVE Seen(o)' = IF o = h THEN "gone" ELSE Seen(o)
      <4>1. phase'[h] = "destroyed"
        BY <1>i, <2>1, <3>2 DEF TypeInv
      <4>2. o # h => phase'[o] = phase[o] /\ collecting'[o] = collecting[o]
        BY <3>2
      <4> QED
        BY <2>1, <4>1, <4>2, SeenNext
    <3> QED
      BY <2>1, <3>1, <3>3, <3>4, HeapDestroy
  <2> QED
    BY <2>3, <2>4
<1>32. ASSUME NEW a \in Actor, Unweak(a) PROVE Heap!Next
  <2>1. Current(a) \in Objs /\ phase[Current(a)] = "destroyed"
    BY <1>32, <1>i, UnweakHere DEF Unweak
  <2>2. ASSUME NEW x \in Objs
        PROVE  phase'[x] = phase[x] \/ {phase[x], phase'[x]} \subseteq {"destroyed", "freed"}
    BY <1>32, <1>i, <2>1 DEF Unweak, FreedIfLast, TypeInv
  <2> QED
    BY <1>32, <1>f, <2>2 DEF Unweak, claims
<1>33. ASSUME ReleaseHolds PROVE Heap!Next
  <2>1. ASSUME NEW x \in Objs
        PROVE  phase'[x] = phase[x] \/ {phase[x], phase'[x]} \subseteq {"destroyed", "freed"}
    <3>1. phase'[x] = phase[x] \/ Born(x) \/ Ends(x)
      BY <1>i, PhaseStep
    <3>2. phase'[x] \in {phase[x], "freed"}
      BY <1>33 DEF ReleaseHolds
    <3> QED
      BY <1>33, <3>1, <3>2 DEF ReleaseHolds, Born, Ends, DestroyNext, FinalizeActor
  <2> QED
    BY <1>33, <1>f, <2>1 DEF ReleaseHolds, claims
<1>34. ASSUME NEW o \in Actors, FinalizeActor(o) PROVE Heap!Next
  <2>1. o \in Objs /\ Dead(o)
    BY <1>34, <1>i, NoneParts DEF FinalizeActor, BatchInv, BatchOK
  <2>2. Seen(o) = "dead"
    BY <1>i, <2>1, SeenParts
  <2>3. UNCHANGED Reach(Roots)
    BY <1>34, <1>r DEF FinalizeActor, values, strings
  <2>4. ASSUME NEW x \in Objs PROVE Seen(x)' = IF x = o THEN "gone" ELSE Seen(x)
    <3>1. phase'[o] \in {"destroyed", "freed"}
      BY <1>34, <1>i, <2>1 DEF FinalizeActor, TypeInv
    <3>2. x # o => phase'[x] = phase[x] /\ collecting'[x] = collecting[x]
      BY <1>34 DEF FinalizeActor, claims
    <3> QED
      BY <2>1, <3>1, <3>2, SeenNext
  <2> QED
    BY <2>1, <2>2, <2>3, <2>4, HeapDestroy
<1>35. ASSUME UNCHANGED vars PROVE Heap!Next
  BY <1>35, <1>k DEF vars, claims
<1> QED
  BY <1>0, <1>1, <1>2, <1>3, <1>4, <1>5, <1>6, <1>7, <1>8, <1>9, <1>10, <1>11, <1>12, <1>13,
      <1>14, <1>15, <1>16, <1>17, <1>18, <1>19, <1>20, <1>21, <1>22, <1>23, <1>24, <1>25, <1>26,
      <1>27, <1>28, <1>29, <1>30, <1>31, <1>32, <1>33, <1>34, <1>35, StepKinds

(* At the start there is no object, and nothing can be reached. *)
LEMMA HeapInit == Init => Heap!Init
<1> SUFFICES ASSUME Init PROVE Heap!Init
  OBVIOUS
<1>1. \A o \in Objs : Seen(o) = "none"
  BY DEF Init, Seen
<1>2. [o \in Objs |-> Seen(o)] = [o \in Objs |-> "none"]
  BY <1>1
<1>3. Reach(Roots) = {}
  <2>1. Roots = {} /\ Closed({})
    BY DEF Init, Roots, Closed
  <2> QED
    BY <2>1 DEF Reach
<1> QED
  BY <1>2, <1>3 DEF Heap!Init, Seen

(* The counts, the weak promotions, the collections and the reclaimer      *)
(* together implement ObjectHeap: nothing a thread can reach dies, what is *)
(* dead is not reached again, and every death is destroyed once (decRef's  *)
(* claim, the sweep of performCollection, freeObjects, the finalizer).     *)
THEOREM HeapImplementedHolds == Spec => HeapImplemented
<1>1. Inv /\ [Next]_vars => Inv'
  BY InvStep
<1>2. Inv /\ Inv' /\ [Next]_vars => [Heap!Next]_(Heap!vars)
  BY HeapStep DEF Inv
<1> QED
  BY InvInit, HeapInit, <1>1, <1>2, PTL DEF Spec, HeapImplemented, Heap!Spec

=============================================================================
