--------------------------- MODULE ObjectLifecycle ---------------------------
(***************************************************************************)
(* How a Roxal object dies and how its memory is given back.               *)
(*                                                                         *)
(* A Value owns a strong reference (Object.h incRef, Object.cpp decRef) or *)
(* a weak one that can be promoted (Value.cpp strongRef).  Two paths kill: *)
(* the decrement that reaches zero, on any thread, and the sweep of a      *)
(* collection.  Both claim the death with one exchange on                  *)
(* ObjControl::collecting and put the object on the retire queue; the      *)
(* reclaimer (VM::freeObjects) drains the queue in batches, drops every    *)
(* reference of a batch before it runs the first destructor and keeps      *)
(* every block of the batch until it has run the last one.  The table of   *)
(* interned strings refers to its strings without owning them.             *)
(*                                                                         *)
(* A collection is one critical section of the whole program: what makes   *)
(* it so is GCBarrier.BarrierExclusion (no thread runs) and                *)
(* GCBarrier.NoDrainDuringMark (no drain is in flight).                    *)
(***************************************************************************)
EXTENDS Integers, Sequences, FiniteSets, SequencesExt

CONSTANTS
  Objs,       \* blocks a program may allocate, each at most once
  Worlds,     \* programs: the blocks they allocate and the threads they run
  Strings,    \* the ones that are strings; they all have the same content
  Actors,     \* the ones that are actor instances
  Versions,   \* the ones a version chain may be given (shallow clones)
  Threads,    \* threads that hold Values
  Writer,     \* the thread that stores into fields: actors do not share them
  Natives,    \* objects with Values in native state (ObjFuture: the promise)
  Weaks,      \* objects weak Values are made of
  Gc,         \* the thread that collects
  Rec,        \* the thread that reclaims
  None

ASSUME LifecycleAssumption ==
  /\ IsFiniteSet(Objs)
  /\ Worlds \subseteq [objs : SUBSET Objs, threads : SUBSET Threads]
  /\ Strings \cup Actors \cup Versions \cup Natives \cup Weaks \subseteq Objs
  /\ Writer \in Threads
  /\ None \notin Objs
  /\ Gc \notin Threads /\ Rec \notin Threads /\ Gc # Rec
  /\ Natives \cap (Strings \cup Actors) = {}   \* Object.cpp 7836: nothing hidden
  /\ Strings \cap Actors = {}                 \* an object has one ObjType

Actor == Threads \cup {Gc, Rec}

(* "edge": traced, released by dropReferences.  "hidden": traced, released *)
(* by the destructor only.  "version": the snapshot of the version chain.  *)
Slots == {"edge", "hidden", "version"}

VARIABLES
  phase,        \* "none", "built", "destroyed" or "freed"
  strong, weak, \* ObjControl::strong, ::weak
  linked,       \* ObjControl::obj is not null: weak Values may be promoted
  collecting,   \* ObjControl::collecting: a death path has claimed the object
  dropClaimed,  \* ObjControl::dropClaimed
  ref,          \* per object and slot the object referred to, or None
  held,         \* per thread the objects its Values own a strong reference to
  weakHeld,     \* per thread the objects it has a weak Value of
  todo,         \* per actor the steps its current operation still has to take
  queue,        \* the retire queue, in arrival order
  gc,           \* "idle", "trim", "sweep" or "publish"
  marked,       \* objects with the collection's mark epoch
  swept,        \* what the sweep found, not yet published
  rec,          \* "idle", "drop" or "destroy"
  batch,        \* the drained batch
  rest,         \* the part of it the current pass has still to visit
  finalize,     \* actor instances handed to the lifecycle thread
  table,        \* the interned string of the one content, or None
  interned,     \* strings with a nonzero internKey
  world         \* the program this behaviour is about: it never changes

counts == <<strong, weak>>
claims == <<linked, collecting, dropClaimed>>
values == <<ref, held, weakHeld>>
collector == <<gc, marked, swept>>
reclaimer == <<rec, batch, rest, finalize>>
strings == <<table, interned, world>>
vars == <<phase, counts, claims, values, todo, queue, collector, reclaimer, strings>>

Init ==
  /\ phase = [o \in Objs |-> "none"]
  /\ strong = [o \in Objs |-> 0] /\ weak = [o \in Objs |-> 0]
  /\ linked = [o \in Objs |-> FALSE]
  /\ collecting = [o \in Objs |-> FALSE]
  /\ dropClaimed = [o \in Objs |-> FALSE]
  /\ ref = [o \in Objs |-> [k \in Slots |-> None]]
  /\ held = [t \in Threads |-> {}] /\ weakHeld = [t \in Threads |-> {}]
  /\ todo = [a \in Actor |-> <<>>]
  /\ queue = <<>>
  /\ gc = "idle" /\ marked = {} /\ swept = <<>>
  /\ rec = "idle" /\ batch = <<>> /\ rest = <<>> /\ finalize = {}
  /\ table = None /\ interned = {}
  /\ world \in Worlds

-----------------------------------------------------------------------------
(* Operations in progress.  An actor between two operations has nothing to *)
(* do; a step replaces the head of its list by the steps that follow.      *)
Op(name, o) == [op |-> name, obj |-> o]
Doing(a, name) == todo[a] # <<>> /\ Head(todo[a]).op = name
Current(a) == Head(todo[a]).obj
Then(a, steps) == todo' = [todo EXCEPT ![a] = steps \o Tail(@)]
Start(a, steps) == todo' = [todo EXCEPT ![a] = steps]
Idle(a) == todo[a] = <<>>

(* A thread begins an operation when no collection holds the world. *)
Ready(t) == Idle(t) /\ gc \in {"idle", "publish"}

Bump(f, o, n) == [f EXCEPT ![o] = @ + n]

(* newObj: counts 0 and 1 (the weak reference all strong ones share). *)
Build(o) ==
  /\ o \in world.objs /\ phase[o] = "none"
  /\ phase' = [phase EXCEPT ![o] = "built"]
  /\ weak' = [weak EXCEPT ![o] = 1]
  /\ linked' = [linked EXCEPT ![o] = TRUE]

-----------------------------------------------------------------------------
(* What a thread does with Values. *)

(* A new object and the first Value of it. *)
New(t, o) ==
  /\ Ready(t)
  /\ o \notin Strings \cup Versions
  /\ Build(o)
  /\ strong' = Bump(strong, o, 1)
  /\ held' = [held EXCEPT ![t] = @ \cup {o}]
  /\ UNCHANGED <<collecting, dropClaimed, ref, weakHeld, todo, queue, collector,
                 reclaimer, strings>>

(* A Value copied to another thread: an argument of an actor call. *)
Share(t, u, o) ==
  /\ Ready(t)
  /\ t # u /\ o \in held[t] \ held[u] /\ Idle(u)
  /\ strong' = Bump(strong, o, 1)
  /\ held' = [held EXCEPT ![u] = @ \cup {o}]
  /\ UNCHANGED <<phase, weak, claims, ref, weakHeld, todo, queue, collector,
                 reclaimer, strings>>

(* ~Value. *)
Drop(t, o) ==
  /\ Ready(t)
  /\ o \in held[t]
  /\ held' = [held EXCEPT ![t] = @ \ {o}]
  /\ Start(t, <<Op("dec", o)>>)
  /\ UNCHANGED <<phase, counts, claims, ref, weakHeld, queue, collector,
                 reclaimer, strings>>

(* The slots a program stores into: a promise's state is set once. *)
MayStore(o, k) ==
  \/ k = "edge" /\ o \notin Strings
  \/ k = "hidden" /\ o \in Natives /\ ref[o][k] = None

(* Value::operator=: the old reference is released before the new one is   *)
(* taken.                                                                  *)
Store(t, o, k, p) ==
  LET old == ref[o][k] IN
  /\ Ready(t) /\ t = Writer
  /\ {o, p} \subseteq held[t] /\ MayStore(o, k) /\ old # p
  /\ ref' = [ref EXCEPT ![o][k] = None]
  /\ Start(t, (IF old = None THEN <<>> ELSE <<Op("dec", old)>>)
                \o <<[op |-> "put", obj |-> p, into |-> o, slot |-> k]>>)
  /\ UNCHANGED <<phase, counts, claims, held, weakHeld, queue, collector,
                 reclaimer, strings>>

Put(t) ==
  LET step == Head(todo[t]) IN
  /\ Doing(t, "put")
  /\ ref' = [ref EXCEPT ![step.into][step.slot] = step.obj]
  /\ strong' = Bump(strong, step.obj, 1)
  /\ Then(t, <<>>)
  /\ UNCHANGED <<phase, weak, claims, held, weakHeld, queue, collector,
                 reclaimer, strings>>

(* The copy constructor, from a field. *)
Load(t, o, k) ==
  LET p == ref[o][k] IN
  /\ Ready(t) /\ t = Writer
  /\ o \in held[t] /\ p # None /\ p \notin held[t] /\ k # "version"
  /\ strong' = Bump(strong, p, 1)
  /\ held' = [held EXCEPT ![t] = @ \cup {p}]
  /\ UNCHANGED <<phase, weak, claims, ref, weakHeld, todo, queue, collector,
                 reclaimer, strings>>

(* Obj::saveVersion: a shallow clone, owned by the version chain. *)
SaveVersion(t, o, v) ==
  LET e == ref[o]["edge"] IN
  /\ Ready(t) /\ t = Writer
  /\ o \in held[t] \ (Strings \cup Actors \cup Versions) /\ v \in Versions /\ ref[o]["version"] = None
  /\ Build(v)
  /\ strong' = [p \in Objs |-> strong[p] + (IF p = v THEN 1 ELSE 0)
                                         + (IF p = e THEN 1 ELSE 0)]
  /\ ref' = [ref EXCEPT ![v]["edge"] = e, ![o]["version"] = v]
  /\ UNCHANGED <<collecting, dropClaimed, held, weakHeld, todo, queue, collector,
                 reclaimer, strings>>

(* Value::weakRef and the destructor of a weak Value (decWeak). *)
WeakRef(t, o) ==
  /\ Ready(t)
  /\ o \in (held[t] \cap Weaks) \ weakHeld[t]
  /\ weak' = Bump(weak, o, 1)
  /\ weakHeld' = [weakHeld EXCEPT ![t] = @ \cup {o}]
  /\ UNCHANGED <<phase, strong, claims, ref, held, todo, queue, collector,
                 reclaimer, strings>>

FreedIfLast(o) == [phase EXCEPT ![o] = IF weak[o] = 1 THEN "freed" ELSE @]

DropWeak(t, o) ==
  /\ Ready(t)
  /\ o \in weakHeld[t]
  /\ weak' = Bump(weak, o, -1)
  /\ phase' = FreedIfLast(o)
  /\ weakHeld' = [weakHeld EXCEPT ![t] = @ \ {o}]
  /\ UNCHANGED <<strong, claims, ref, held, todo, queue, collector, reclaimer,
                 strings>>

(* Value::strongRef: load obj; tryIncRef; look at obj again. *)
StrongRef(t, o) ==
  /\ Ready(t)
  /\ o \in weakHeld[t] \ held[t]
  /\ linked[o]
  /\ Start(t, <<Op("try", o)>>)
  /\ UNCHANGED <<phase, counts, claims, values, queue, collector, reclaimer,
                 strings>>

TryIncRef(t) ==
  LET o == Current(t) IN
  /\ Doing(t, "try")
  /\ IF strong[o] > 0
       THEN strong' = Bump(strong, o, 1) /\ Then(t, <<Op("recheck", o)>>)
       ELSE UNCHANGED strong /\ Then(t, <<>>)
  /\ UNCHANGED <<phase, weak, claims, values, queue, collector, reclaimer,
                 strings>>

Recheck(t) ==
  LET o == Current(t) IN
  /\ Doing(t, "recheck")
  /\ IF linked[o]
       THEN held' = [held EXCEPT ![t] = @ \cup {o}] /\ Then(t, <<>>)
       ELSE UNCHANGED held /\ Then(t, <<Op("dec", o)>>)
  /\ UNCHANGED <<phase, counts, claims, ref, weakHeld, queue, collector,
                 reclaimer, strings>>

-----------------------------------------------------------------------------
(* Value::stringVal and newObjString: one locked look at the table, an     *)
(* allocation outside the lock, one locked publication.                    *)

Intern(t) ==
  /\ Ready(t)
  /\ held[t] \cap Strings = {}
  /\ \E s \in Strings \cap world.objs : phase[s] = "none"
  /\ Start(t, <<Op("lookup", None)>>)
  /\ UNCHANGED <<phase, counts, claims, values, queue, collector, reclaimer,
                 strings>>

(* The Value of a string found with a protective count: take one, then     *)
(* release the protective one.                                             *)
Adopt(s) == <<Op("own", s), Op("dec", s)>>

Lookup(t) ==
  /\ Doing(t, "lookup")
  /\ IF table # None /\ strong[table] > 0
       THEN /\ strong' = Bump(strong, table, 1)
            /\ Then(t, Adopt(table))
            /\ UNCHANGED table
       ELSE /\ table' = None
            /\ Then(t, <<Op("alloc", None)>>)
            /\ UNCHANGED strong
  /\ UNCHANGED <<phase, weak, claims, values, queue, collector, reclaimer, interned, world>>

AllocString(t, s) ==
  /\ Doing(t, "alloc")
  /\ s \in Strings
  /\ Build(s)
  /\ Then(t, <<Op("publish", s)>>)
  /\ UNCHANGED <<strong, collecting, dropClaimed, values, queue, collector,
                 reclaimer, strings>>

PublishString(t) ==
  LET candidate == Current(t) IN
  /\ Doing(t, "publish")
  /\ IF table # None /\ strong[table] > 0
       THEN /\ strong' = [strong EXCEPT ![table] = @ + 1, ![candidate] = @ + 1]
            /\ Then(t, <<Op("dec", candidate)>> \o Adopt(table))
            /\ UNCHANGED strings
       ELSE /\ table' = candidate
            /\ interned' = interned \cup {candidate}
            /\ UNCHANGED world
            /\ Then(t, <<Op("own", candidate)>>)
            /\ UNCHANGED strong
  /\ UNCHANGED <<phase, weak, claims, values, queue, collector, reclaimer>>

Own(t) ==
  LET candidate == Current(t) IN
  /\ Doing(t, "own")
  /\ strong' = Bump(strong, candidate, 1)
  /\ held' = [held EXCEPT ![t] = @ \cup {candidate}]
  /\ Then(t, <<>>)
  /\ UNCHANGED <<phase, weak, claims, ref, weakHeld, queue, collector, reclaimer,
                 strings>>

-----------------------------------------------------------------------------
(* Obj::decRef, by any actor. *)

DecRef(a) ==
  LET o == Current(a) IN
  /\ Doing(a, "dec")
  /\ strong' = Bump(strong, o, -1)
  /\ Then(a, IF strong[o] <= 1 THEN <<Op("claim", o)>> ELSE <<>>)
  /\ UNCHANGED <<phase, weak, claims, values, queue, collector, reclaimer,
                 strings>>

InProgress == gc \in {"trim", "sweep"}

(* The claim: collecting.exchange(true). *)
Claim(a) ==
  LET o == Current(a) IN
  /\ Doing(a, "claim")
  /\ collecting' = [collecting EXCEPT ![o] = TRUE]
  /\ Then(a, IF collecting[o] THEN <<>>
             ELSE (IF InProgress THEN <<Op("dropOnce", o)>> ELSE <<>>)
                    \o <<Op("null", o), Op("retire", o)>>)
  /\ UNCHANGED <<phase, counts, linked, dropClaimed, values, queue, collector,
                 reclaimer, strings>>

(* The release of a reference that may be nil. *)
Release(p) == IF p = None THEN <<>> ELSE <<Op("dec", p)>>

(* dropReferencesOnce: the version chain and the edges are released. *)
DropOnce(a) ==
  LET o == Current(a) IN
  /\ Doing(a, "dropOnce")
  /\ dropClaimed' = [dropClaimed EXCEPT ![o] = TRUE]
  /\ IF dropClaimed[o]
       THEN Then(a, <<>>) /\ UNCHANGED ref
       ELSE /\ ref' = [ref EXCEPT ![o]["edge"] = None, ![o]["version"] = None]
            /\ Then(a, Release(ref[o]["version"]) \o Release(ref[o]["edge"]))
  /\ UNCHANGED <<phase, counts, linked, collecting, held, weakHeld, queue,
                 collector, reclaimer, strings>>

Null(a) ==
  /\ Doing(a, "null")
  /\ linked' = [linked EXCEPT ![Current(a)] = FALSE]
  /\ Then(a, <<>>)
  /\ UNCHANGED <<phase, counts, collecting, dropClaimed, values, queue, collector,
                 reclaimer, strings>>

(* Seeded fault: a retirement during a collection is left to the sweep. *)
Retire_NotInGc(a) ==
  /\ Doing(a, "retire")
  /\ queue' = IF InProgress THEN queue ELSE Append(queue, Current(a))
  /\ Then(a, <<>>)
  /\ UNCHANGED <<phase, counts, claims, values, collector, reclaimer, strings>>

(* retireObject. *)
Retire(a) ==
  /\ Doing(a, "retire")
  /\ queue' = Append(queue, Current(a))
  /\ Then(a, <<>>)
  /\ UNCHANGED <<phase, counts, claims, values, collector, reclaimer, strings>>

-----------------------------------------------------------------------------
(* performCollection, with the world stopped. *)

Targets(o) == {ref[o][k] : k \in Slots} \ {None}
Closed(S) == \A o \in S : Targets(o) \subseteq S

(* Everything that can be reached from S. *)
Reach(S) == {o \in world.objs : \A C \in SUBSET world.objs : (S \subseteq C /\ Closed(C)) => o \in C}

Roots == UNION {held[t] : t \in Threads}

(* Seeded fault: the version chains are left out of the closure. *)
Mark_NoVersions ==
  /\ gc = "idle" /\ rec = "idle"
  /\ \A t \in Threads : Idle(t)
  /\ gc' = "trim"
  /\ marked' = Reach(Roots) \ (Versions \cup {o \in Objs : collecting[o]})
  /\ UNCHANGED <<phase, counts, claims, values, todo, queue, swept, reclaimer,
                 strings>>

(* MarkWorklist: version snapshots are marked in the same closure as the   *)
(* traced edges; an object already claimed is not entered.                 *)
Mark ==
  /\ gc = "idle" /\ rec = "idle"
  /\ \A t \in Threads : Idle(t)
  /\ gc' = "trim"
  /\ marked' = Reach(Roots) \ {o \in Objs : collecting[o]}
  /\ UNCHANGED <<phase, counts, claims, values, todo, queue, swept, reclaimer,
                 strings>>

(* trimVersionChain of a marked object, when no snapshot needs the entry.  *)
Trim(o) ==
  /\ gc = "trim" /\ Idle(Gc)
  /\ o \in marked /\ linked[o] /\ ~collecting[o] /\ ref[o]["version"] # None
  /\ ref' = [ref EXCEPT ![o]["version"] = None]
  /\ Start(Gc, <<Op("dec", ref[o]["version"])>>)
  /\ UNCHANGED <<phase, counts, claims, held, weakHeld, queue, collector,
                 reclaimer, strings>>

TrimDone ==
  /\ gc = "trim" /\ Idle(Gc)
  /\ gc' = "sweep"
  /\ UNCHANGED <<phase, counts, claims, values, todo, queue, marked, swept,
                 reclaimer, strings>>

Unmarked == {o \in Objs : phase[o] = "built" /\ linked[o] /\ ~collecting[o]} \ marked

(* The sweep claims and nulls what was not marked, in registry order;      *)
(* purgeDeadInternedStrings drops table entries of dead strings; the world *)
(* is let go with the swept objects in the collector's own vector.         *)
Sweep ==
  /\ gc = "sweep"
  /\ collecting' = [o \in Objs |-> collecting[o] \/ o \in Unmarked]
  /\ linked' = [o \in Objs |-> linked[o] /\ o \notin Unmarked]
  /\ swept' \in SetToSeqs(Unmarked)
  /\ table' = IF table # None /\ linked'[table] THEN table ELSE None
  /\ gc' = "publish"
  /\ marked' = {}
  /\ UNCHANGED <<phase, counts, dropClaimed, values, todo, queue, reclaimer,
                 interned, world>>

(* Seeded fault: the swept objects are retired one at a time. *)
Publish_OneByOne ==
  /\ gc = "publish"
  /\ IF swept = <<>>
       THEN gc' = "idle" /\ UNCHANGED <<queue, swept>>
       ELSE queue' = Append(queue, Head(swept)) /\ swept' = Tail(swept) /\ UNCHANGED gc
  /\ UNCHANGED <<phase, counts, claims, values, todo, marked, reclaimer, strings>>

(* retireObjects: the whole sweep is attached with one exchange. *)
Publish ==
  /\ gc = "publish"
  /\ queue' = queue \o swept
  /\ swept' = <<>>
  /\ gc' = "idle"
  /\ UNCHANGED <<phase, counts, claims, values, todo, marked, reclaimer, strings>>

-----------------------------------------------------------------------------
(* VM::freeObjects. *)

(* drainRetiredObjects: take all. *)
Drain ==
  /\ rec = "idle" /\ ~InProgress /\ queue # <<>>
  /\ batch' = queue /\ rest' = queue /\ queue' = <<>>
  /\ rec' = "drop"
  /\ UNCHANGED <<phase, counts, claims, values, todo, collector, finalize, strings>>

DropNext ==
  /\ rec = "drop" /\ Idle(Rec) /\ rest # <<>>
  /\ Start(Rec, <<Op("dropOnce", Head(rest))>>)
  /\ rest' = Tail(rest)
  /\ UNCHANGED <<phase, counts, claims, values, queue, collector, rec, batch,
                 finalize, strings>>

(* Seeded fault: no batch hold. *)
Hold_Never ==
  /\ rec = "drop" /\ Idle(Rec) /\ rest = <<>>
  /\ rec' = "destroy" /\ rest' = batch
  /\ UNCHANGED <<phase, counts, claims, values, todo, queue, collector, batch,
                 finalize, strings>>

(* The batch memory hold: one weak reference more on every block. *)
Hold ==
  /\ rec = "drop" /\ Idle(Rec) /\ rest = <<>>
  /\ weak' = [o \in Objs |-> weak[o] + (IF o \in ToSet(batch) THEN 1 ELSE 0)]
  /\ rec' = "destroy" /\ rest' = batch
  /\ UNCHANGED <<phase, strong, claims, values, todo, queue, collector, batch,
                 finalize, strings>>

(* ~ObjString: erase the table entry if it is this string's own. *)
SelfErase(o) == table' = IF table = o THEN None ELSE table

(* delObj: the destructor runs; the Values of native state are released,   *)
(* then the reference the strong ones shared.                              *)
Destroy(a, o) ==
  /\ phase' = [phase EXCEPT ![o] = "destroyed"]
  /\ ref' = [ref EXCEPT ![o]["hidden"] = None]
  /\ Start(a, Release(ref[o]["hidden"]) \o <<Op("unweak", o)>>)
  /\ SelfErase(o)

DestroyNext ==
  LET o == Head(rest) IN
  /\ rec = "destroy" /\ Idle(Rec) /\ rest # <<>>
  /\ rest' = Tail(rest)
  /\ IF o \in Actors
       THEN finalize' = finalize \cup {o} /\ UNCHANGED <<phase, ref, todo, table>>
       ELSE Destroy(Rec, o) /\ UNCHANGED finalize
  /\ UNCHANGED <<counts, claims, held, weakHeld, queue, collector, rec, batch,
                 interned, world>>

Unweak(a) ==
  LET o == Current(a) IN
  /\ Doing(a, "unweak")
  /\ weak' = Bump(weak, o, -1)
  /\ phase' = FreedIfLast(o)
  /\ Then(a, <<>>)
  /\ UNCHANGED <<strong, claims, values, queue, collector, reclaimer, strings>>

(* The holds are released after every destructor of the batch has run. *)
ReleaseHolds ==
  /\ rec = "destroy" /\ Idle(Rec) /\ rest = <<>>
  /\ weak' = [o \in Objs |-> weak[o] - (IF o \in ToSet(batch) THEN 1 ELSE 0)]
  /\ phase' = [o \in Objs |-> IF o \in ToSet(batch) /\ weak[o] = 1 THEN "freed" ELSE phase[o]]
  /\ rec' = "idle" /\ batch' = <<>>
  /\ UNCHANGED <<strong, claims, values, todo, queue, collector, rest, finalize,
                 strings>>

(* The lifecycle thread destroys an actor instance whose worker it joined: *)
(* its destructor has no Value left to release.                            *)
FinalizeActor(o) ==
  /\ o \in finalize
  /\ finalize' = finalize \ {o}
  /\ weak' = Bump(weak, o, -1)
  /\ phase' = [phase EXCEPT ![o] = IF weak[o] = 1 THEN "freed" ELSE "destroyed"]
  /\ UNCHANGED <<strong, claims, values, todo, queue, collector, rec, batch, rest,
                 strings>>

-----------------------------------------------------------------------------
DecRefSteps(a) == DecRef(a) \/ Claim(a) \/ DropOnce(a) \/ Null(a) \/ Retire(a)

Reclaim ==
  \/ Drain \/ DropNext \/ Hold \/ DestroyNext \/ ReleaseHolds
  \/ Unweak(Rec) \/ DecRefSteps(Rec)
  \/ \E o \in Actors : FinalizeActor(o)

Collect ==
  \/ (\E o \in Objs : Trim(o)) \/ TrimDone \/ Sweep \/ Publish
  \/ DecRefSteps(Gc)

Continue(t) ==
  \/ DecRefSteps(t) \/ Put(t)
  \/ TryIncRef(t) \/ Recheck(t)
  \/ Lookup(t) \/ PublishString(t) \/ Own(t)
  \/ \E s \in Strings : AllocString(t, s)

Begin(t) ==
  \/ Intern(t)
  \/ \E o \in Objs :
       \/ New(t, o) \/ Drop(t, o)
       \/ WeakRef(t, o) \/ DropWeak(t, o) \/ StrongRef(t, o)
       \/ \E u \in world.threads : Share(t, u, o)
       \/ \E k \in Slots : Load(t, o, k)
       \/ \E k \in Slots, p \in Objs : Store(t, o, k, p)
       \/ \E v \in Versions : SaveVersion(t, o, v)

Next ==
  \/ \E t \in world.threads : Begin(t) \/ Continue(t)
  \/ Mark \/ Collect \/ Reclaim

Spec == Init /\ [][Next]_vars

(* A thread finishes the operation it is in; a collection that has begun   *)
(* is finished; the reclaimer and the lifecycle thread keep running.  The  *)
(* reclaimer's fairness is strong: collections may follow each other, and  *)
(* a drain takes place after each of them (collectorThreadMain 557-566).   *)
Fairness ==
  /\ \A t \in Threads : WF_vars(Continue(t))
  /\ WF_vars(Collect)
  /\ SF_vars(Reclaim)

FairSpec == Spec /\ Fairness

-----------------------------------------------------------------------------
OpNames == {"dec", "claim", "dropOnce", "null", "retire", "put", "try", "recheck",
            "lookup", "alloc", "publish", "own", "unweak"}

(* The type of the state, and the links between counts and phases: a block *)
(* has no references before it is built, a freed one no weak count left.   *)
TypeOK ==
  /\ phase \in [Objs -> {"none", "built", "destroyed", "freed"}]
  /\ strong \in [Objs -> Int] /\ weak \in [Objs -> Nat]
  /\ linked \in [Objs -> BOOLEAN] /\ collecting \in [Objs -> BOOLEAN]
  /\ dropClaimed \in [Objs -> BOOLEAN]
  /\ ref \in [Objs -> [Slots -> Objs \cup {None}]]
  /\ held \in [Threads -> SUBSET Objs] /\ weakHeld \in [Threads -> SUBSET Objs]
  /\ \A a \in Actor : \A i \in DOMAIN todo[a] :
       todo[a][i].op \in OpNames /\ todo[a][i].obj \in Objs \cup {None}
  /\ gc \in {"idle", "trim", "sweep", "publish"}
  /\ rec \in {"idle", "drop", "destroy"}
  /\ \A s \in {queue, swept, batch, rest} : ToSet(s) \subseteq Objs
  /\ marked \cup finalize \cup interned \subseteq Objs
  /\ table \in Objs \cup {None}

Freed == {o \in Objs : phase[o] = "freed"}
Pending(a) == {todo[a][i].obj : i \in DOMAIN todo[a]} \ {None}

(* NO USE AFTER FREE.  Whatever still names a block - a weak Value, a step *)
(* of an operation in progress, a reference an object will release, the    *)
(* queue, a batch, the intern table - names one that has not been freed.   *)
(* About the batch hold in VM::freeObjects, the weak count of Value, the   *)
(* locked accesses of newObjString and ~ObjString's self-erase.            *)
NoUseAfterFree ==
  Freed \cap ( (UNION {weakHeld[t] : t \in Threads})
              \cup (UNION {Pending(a) : a \in Actor})
              \cup (UNION {Targets(o) : o \in Objs \ Freed})
              \cup ToSet(queue) \cup ToSet(swept) \cup ToSet(batch)
              \cup finalize \cup {table} ) = {}

(* The heap a program sees: claimed objects are dead, destroyed ones gone. *)
Heap == INSTANCE ObjectHeap WITH
  status <- [o \in Objs |-> CASE phase[o] = "none" -> "none"
                              [] phase[o] = "built" /\ ~collecting[o] -> "live"
                              [] phase[o] = "built" /\ collecting[o] -> "dead"
                              [] OTHER -> "gone"],
  reachable <- Reach(Roots)

(* REFINEMENT.  The reference counts, weak promotions, collections and the *)
(* reclaimer together implement ObjectHeap: nothing a thread can reach     *)
(* dies, nothing dead is reached again, every death is destroyed once.     *)
HeapImplemented == Heap!Spec

(* EVERY DEATH IS RECLAIMED.  An object claimed by a death path gets its   *)
(* destructor: by the reclaimer, or by the lifecycle thread for an actor.  *)
DeathReclaimed ==
  \A o \in Objs : collecting[o] ~> phase[o] \in {"destroyed", "freed"}

=============================================================================
