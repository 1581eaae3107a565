---------------------------- MODULE MvccSnapshot ----------------------------
(***************************************************************************)
(* Frozen snapshots of mutable object graphs: createFrozenSnapshot clones  *)
(* only the root and takes an epoch, mutations save the version a live     *)
(* snapshot may still need, and const reads on other threads materialise   *)
(* children lazily (resolveConstChild).                                    *)
(*                                                                         *)
(* An owner mutates its own objects and freezes graphs made of them; a     *)
(* reader resolves children through snapshots it was given.  An object's   *)
(* state is the number of times it was written.  A clone shares its        *)
(* source's storage until one side calls ensureUnique: shared holds the    *)
(* clones that still do.  Objects here have children or a second           *)
(* reference, so the sole-owner fast path (freeze in place, no copy) does  *)
(* not apply to them.                                                      *)
(***************************************************************************)
EXTENDS Integers, Sequences, FiniteSets

CONSTANTS
  Owners, Readers,   \* threads that mutate and freeze, threads that read
  Objs, Snaps,       \* objects and snapshots
  None,              \* no thread, no object, no snapshot
  Guarded,           \* objects of the types whose mutators use a CowGuard
  Worlds             \* the programs behaviours are about

(* A world says which thread each object belongs to, whether snapshots die and
   collections trim version chains, whether mutators are given arguments they
   reject, and bounds the writes to each object and the snapshots. *)
ASSUME ConstantsOK ==
  /\ Owners \intersect Readers = {}
  /\ None \notin Owners \union Readers /\ None \notin Objs /\ None \notin Snaps
  /\ Guarded \subseteq Objs /\ IsFiniteSet(Snaps)
  /\ Worlds \subseteq [owner : [Objs -> Owners], drops : BOOLEAN, throws : BOOLEAN,
                       writes : [Objs -> Nat], snaps : Nat]

Threads == Owners \union Readers
Clones  == Threads \X Snaps \X Objs

VARIABLES
  world,           \* the world this behaviour is about: it never changes
  globalWriteEpoch, activeSnapshotCount, latestSnapshotCreationEpoch,
  tracker,         \* snapshotEpochTracker (a multiset of epochs that never repeat)
  data,            \* per object: its state, -1 before it is created
  writeEpoch, lastSaveEpoch,
  versionChain,    \* per object: saved versions, newest first
  cowLock,         \* per object: who holds its spinlock
  phase,           \* per snapshot: unused, made, live, dying, gone
  epoch,           \* SnapshotToken::epoch
  cloneMap,        \* SnapshotToken::cloneMap: who made each child's clone
  asOf,            \* the states the snapshot promises, -1 for no state
  frozen,          \* per clone: the state it shows, -1 before it is made
  shared,          \* clones that share their source's storage
  got,             \* per reader: the clones it was given
  pc, obj, snap,   \* per thread: where it is, and on what
  guard            \* per thread: CowGuard::active_

globalVars == <<world, globalWriteEpoch, activeSnapshotCount, latestSnapshotCreationEpoch,
                tracker>>
objVars    == <<data, writeEpoch, lastSaveEpoch, versionChain, cowLock>>
snapVars   == <<phase, epoch, cloneMap, asOf>>
cloneVars  == <<frozen, shared, got>>
vars == <<globalVars, objVars, snapVars, cloneVars, pc, obj, snap, guard>>

OwnerPC  == {"idle", "lock", "save", "stamp", "unique", "write", "bump",
             "epoch", "publish", "track", "count"}
ReaderPC == {"idle", "map", "epoch", "chain", "lock", "again", "insert", "failed"}

Version == [epoch : Nat, state : Nat]

GlobalsOK ==
  /\ globalWriteEpoch \in Nat /\ activeSnapshotCount \in Nat
  /\ latestSnapshotCreationEpoch \in Nat /\ tracker \subseteq Nat

ObjectsOK ==
  /\ data \in [Objs -> Nat \union {-1}]
  /\ writeEpoch \in [Objs -> Nat] /\ lastSaveEpoch \in [Objs -> Nat]
  /\ versionChain \in [Objs -> Seq(Version)]
  /\ cowLock \in [Objs -> Threads \union {None}]

SnapsOK ==
  /\ phase \in [Snaps -> {"unused", "made", "live", "dying", "gone"}]
  /\ epoch \in [Snaps -> Nat]
  /\ cloneMap \in [Snaps -> [Objs -> Readers \union {None}]]
  /\ asOf \in [Snaps -> [Objs -> Nat \union {-1}]]

ClonesOK ==
  /\ frozen \in [Clones -> Nat \union {-1}] /\ shared \subseteq Clones
  /\ got \in [Readers -> SUBSET Clones]

ThreadsOK ==
  /\ pc \in [Threads -> OwnerPC \union ReaderPC]
  /\ obj \in [Threads -> Objs \union {None}] /\ snap \in [Threads -> Snaps \union {None}]
  /\ guard \in [Threads -> BOOLEAN]

(* Every variable keeps its type. *)
TypeOK == GlobalsOK /\ ObjectsOK /\ SnapsOK /\ ClonesOK /\ ThreadsOK

Init ==
  /\ world \in Worlds
  /\ globalWriteEpoch = 1 /\ activeSnapshotCount = 0
  /\ latestSnapshotCreationEpoch = 0 /\ tracker = {}
  /\ data = [o \in Objs |-> -1]
  /\ writeEpoch = [o \in Objs |-> 0] /\ lastSaveEpoch = [o \in Objs |-> 0]
  /\ versionChain = [o \in Objs |-> <<>>] /\ cowLock = [o \in Objs |-> None]
  /\ phase = [s \in Snaps |-> "unused"] /\ epoch = [s \in Snaps |-> 0]
  /\ cloneMap = [s \in Snaps |-> [o \in Objs |-> None]]
  /\ asOf = [s \in Snaps |-> [o \in Objs |-> -1]]
  /\ frozen = [c \in Clones |-> -1] /\ shared = {} /\ got = [r \in Readers |-> {}]
  /\ pc = [t \in Threads |-> "idle"]
  /\ obj = [t \in Threads |-> None] /\ snap = [t \in Threads |-> None]
  /\ guard = [t \in Threads |-> FALSE]

-----------------------------------------------------------------------------
Goto(t, l) == pc' = [pc EXCEPT ![t] = l]
At(t, l)   == pc[t] = l

(* The call returns and its locals die. *)
Return(t) ==
  /\ Goto(t, "idle")
  /\ obj' = [obj EXCEPT ![t] = None] /\ snap' = [snap EXCEPT ![t] = None]
  /\ guard' = [guard EXCEPT ![t] = FALSE]

(* shallowClone: the clone shows the source's state and shares its storage. *)
CloneCurrent(c, o) ==
  /\ frozen' = [frozen EXCEPT ![c] = data[o]]
  /\ shared' = shared \union {c}

(* A new object starts at the epoch of the most recent snapshot. *)
NewObject(t, o) ==
  /\ At(t, "idle") /\ world.owner[o] = t /\ data[o] = -1
  /\ data' = [data EXCEPT ![o] = 0]
  /\ lastSaveEpoch' = [lastSaveEpoch EXCEPT ![o] = latestSnapshotCreationEpoch]
  /\ UNCHANGED <<globalVars, writeEpoch, versionChain, cowLock, snapVars, cloneVars,
                 pc, obj, snap, guard>>

-----------------------------------------------------------------------------
(* A mutator: CowGuard, saveVersion, ensureUnique, write, bump *)

MutateBegin(t, o) ==
  /\ At(t, "idle") /\ world.owner[o] = t /\ data[o] \in 0 .. world.writes[o] - 1
  /\ obj' = [obj EXCEPT ![t] = o]
  /\ guard' = [guard EXCEPT ![t] = activeSnapshotCount > 0]
  /\ Goto(t, IF activeSnapshotCount = 0 THEN "unique" ELSE IF o \in Guarded THEN "lock" ELSE "save")
  /\ UNCHANGED <<globalVars, objVars, snapVars, cloneVars, snap>>

GuardLock(t) ==
  /\ t \in Owners /\ At(t, "lock") /\ cowLock[obj[t]] = None
  /\ cowLock' = [cowLock EXCEPT ![obj[t]] = t]
  /\ Goto(t, "save")
  /\ UNCHANGED <<globalVars, data, writeEpoch, lastSaveEpoch, versionChain, snapVars, cloneVars,
                 obj, snap, guard>>

SaveVersion(t) ==
  LET o == obj[t] IN
  /\ At(t, "save")
  /\ IF lastSaveEpoch[o] >= latestSnapshotCreationEpoch
     THEN /\ Goto(t, "unique")
          /\ UNCHANGED versionChain
     ELSE /\ versionChain' = [versionChain EXCEPT
                ![o] = <<[epoch |-> writeEpoch[o], state |-> data[o]]>> \o @]
          /\ Goto(t, "stamp")
  /\ UNCHANGED <<globalVars, data, writeEpoch, lastSaveEpoch, cowLock, snapVars, cloneVars,
                 obj, snap, guard>>

SaveStamp(t) ==
  /\ At(t, "stamp")
  /\ lastSaveEpoch' = [lastSaveEpoch EXCEPT ![obj[t]] = globalWriteEpoch]
  /\ Goto(t, "unique")
  /\ UNCHANGED <<globalVars, data, writeEpoch, versionChain, cowLock, snapVars, cloneVars,
                 obj, snap, guard>>

(* Copy-on-write: the object leaves storage it shares with clones. *)
EnsureUnique(t) ==
  /\ At(t, "unique")
  /\ shared' = {c \in shared : c[3] # obj[t]}
  /\ Goto(t, "write")
  /\ UNCHANGED <<globalVars, objVars, snapVars, frozen, got, obj, snap, guard>>

(* The write goes to the storage in place, seen by whatever shares it. *)
Write(t) ==
  LET o == obj[t] IN
  /\ At(t, "write")
  /\ data' = [data EXCEPT ![o] = @ + 1]
  /\ frozen' = [c \in Clones |-> IF c \in shared /\ c[3] = o THEN data[o] + 1 ELSE frozen[c]]
  /\ Goto(t, "bump")
  /\ UNCHANGED <<globalVars, writeEpoch, lastSaveEpoch, versionChain, cowLock, snapVars, shared,
                 got, obj, snap, guard>>

Release(t) == cowLock' = [cowLock EXCEPT ![obj[t]] = IF @ = t THEN None ELSE @]

(* A mutator that rejects its arguments throws after saving and copying. *)
MutateThrow(t) ==
  /\ world.throws /\ At(t, "write")
  /\ Release(t)
  /\ Return(t)
  /\ UNCHANGED <<globalVars, data, writeEpoch, lastSaveEpoch, versionChain, snapVars, cloneVars>>

(* Guarded types bump only under an active guard, the others always. *)
Bump(t) ==
  LET o == obj[t] IN
  /\ At(t, "bump")
  /\ IF guard[t] \/ o \notin Guarded
     THEN /\ writeEpoch' = [writeEpoch EXCEPT ![o] = globalWriteEpoch]
          /\ globalWriteEpoch' = globalWriteEpoch + 1
     ELSE UNCHANGED <<writeEpoch, globalWriteEpoch>>
  /\ Release(t)
  /\ Return(t)
  /\ UNCHANGED <<world, activeSnapshotCount, latestSnapshotCreationEpoch, tracker, data, lastSaveEpoch,
                 versionChain, snapVars, cloneVars>>

-----------------------------------------------------------------------------
(* createFrozenSnapshot *)

(* The root is cloned under its spinlock; its children stay live. *)
SnapClone(t, s, o) ==
  /\ At(t, "idle") /\ world.owner[o] = t /\ data[o] >= 0 /\ phase[s] = "unused"
  /\ Cardinality({q \in Snaps : phase[q] # "unused"}) < world.snaps
  /\ cowLock[o] = None
  /\ CloneCurrent(<<t, s, o>>, o)
  /\ asOf' = [asOf EXCEPT ![s] = [p \in Objs |-> IF world.owner[p] = t THEN data[p] ELSE -1]]
  /\ phase' = [phase EXCEPT ![s] = "made"]
  /\ snap' = [snap EXCEPT ![t] = s]
  /\ Goto(t, "epoch")
  /\ UNCHANGED <<globalVars, objVars, epoch, cloneMap, got, obj, guard>>

SnapEpoch(t) ==
  /\ t \in Owners /\ At(t, "epoch")
  /\ epoch' = [epoch EXCEPT ![snap[t]] = globalWriteEpoch]
  /\ globalWriteEpoch' = globalWriteEpoch + 1
  /\ Goto(t, "publish")
  /\ UNCHANGED <<world, activeSnapshotCount, latestSnapshotCreationEpoch, tracker, objVars, phase,
                 cloneMap, asOf, cloneVars, obj, snap, guard>>

(* A running maximum (the compare-exchange loop). *)
publishSnapshotEpoch(t) ==
  LET e == epoch[snap[t]] IN
  /\ At(t, "publish")
  /\ latestSnapshotCreationEpoch' =
       IF latestSnapshotCreationEpoch < e THEN e ELSE latestSnapshotCreationEpoch
  /\ Goto(t, "track")
  /\ UNCHANGED <<world, globalWriteEpoch, activeSnapshotCount, tracker, objVars, snapVars, cloneVars,
                 obj, snap, guard>>

SnapTrack(t) ==
  /\ At(t, "track")
  /\ tracker' = tracker \union {epoch[snap[t]]}
  /\ Goto(t, "count")
  /\ UNCHANGED <<world, globalWriteEpoch, activeSnapshotCount, latestSnapshotCreationEpoch, objVars,
                 snapVars, cloneVars, obj, snap, guard>>

SnapCount(t) ==
  /\ At(t, "count")
  /\ activeSnapshotCount' = activeSnapshotCount + 1
  /\ phase' = [phase EXCEPT ![snap[t]] = "live"]
  /\ Return(t)
  /\ UNCHANGED <<world, globalWriteEpoch, latestSnapshotCreationEpoch, tracker, objVars, epoch, cloneMap,
                 asOf, cloneVars>>

-----------------------------------------------------------------------------
(* resolveConstChild *)

(* The children of a snapshot are what its owner had when it was made. *)
ResolveBegin(r, s, o) ==
  /\ At(r, "idle") /\ phase[s] = "live" /\ asOf[s][o] >= 0
  /\ obj' = [obj EXCEPT ![r] = o] /\ snap' = [snap EXCEPT ![r] = s]
  /\ Goto(r, "map")
  /\ UNCHANGED <<globalVars, objVars, snapVars, cloneVars, guard>>

ResolveMap(r) ==
  LET maker == cloneMap[snap[r]][obj[r]] IN
  /\ At(r, "map")
  /\ IF maker # None
     THEN /\ got' = [got EXCEPT ![r] = @ \union {<<maker, snap[r], obj[r]>>}]
          /\ Return(r)
     ELSE /\ Goto(r, "epoch")
          /\ UNCHANGED <<got, obj, snap, guard>>
  /\ UNCHANGED <<globalVars, objVars, snapVars, frozen, shared>>

(* findVersionForEpoch, first half: is the current state old enough? *)
ResolveEpoch(r) ==
  /\ r \in Readers /\ At(r, "epoch")
  /\ Goto(r, IF writeEpoch[obj[r]] < epoch[snap[r]] THEN "lock" ELSE "chain")
  /\ UNCHANGED <<globalVars, objVars, snapVars, cloneVars, obj, snap, guard>>

(* The newest version older than the snapshot, if there is one. *)
VersionsFor(o, e) == {i \in DOMAIN versionChain[o] : versionChain[o][i].epoch < e}
VersionFor(o, e)  == CHOOSE i \in VersionsFor(o, e) : \A j \in VersionsFor(o, e) : i <= j

FromChain(r, otherwise) ==
  LET o == obj[r]
      e == epoch[snap[r]]
  IN  IF VersionsFor(o, e) # {}
      THEN /\ frozen' = [frozen EXCEPT ![<<r, snap[r], o>>] =
                           versionChain[o][VersionFor(o, e)].state]
           /\ Goto(r, "insert")
      ELSE /\ Goto(r, otherwise)
           /\ UNCHANGED frozen

(* findVersionForEpoch, second half. *)
ResolveChain(r) ==
  /\ At(r, "chain")
  /\ FromChain(r, "lock")
  /\ UNCHANGED <<globalVars, objVars, snapVars, shared, got, obj, snap, guard>>

(* Seeded fault: the epoch is not checked again under the lock. *)
ResolveLocked_NoRecheck(r) ==
  /\ r \in Readers /\ At(r, "lock") /\ cowLock[obj[r]] = None
  /\ CloneCurrent(<<r, snap[r], obj[r]>>, obj[r])
  /\ Goto(r, "insert")
  /\ UNCHANGED <<globalVars, objVars, snapVars, got, obj, snap, guard>>

(* Under the spinlock: clone the current state if it is still old enough. *)
ResolveLocked(r) ==
  /\ r \in Readers /\ At(r, "lock") /\ cowLock[obj[r]] = None
  /\ IF writeEpoch[obj[r]] < epoch[snap[r]]
     THEN /\ CloneCurrent(<<r, snap[r], obj[r]>>, obj[r])
          /\ Goto(r, "insert")
     ELSE /\ Goto(r, "again")
          /\ UNCHANGED <<frozen, shared>>
  /\ UNCHANGED <<globalVars, objVars, snapVars, got, obj, snap, guard>>

(* A mutation slipped in: its version must be there, or the read throws. *)
ResolveAgain(r) ==
  /\ At(r, "again")
  /\ FromChain(r, "failed")
  /\ UNCHANGED <<globalVars, objVars, snapVars, shared, got, obj, snap, guard>>

ResolveInsert(r) ==
  LET s == snap[r] IN
  /\ At(r, "insert")
  /\ cloneMap' = [cloneMap EXCEPT ![s][obj[r]] = r]
  /\ got' = [got EXCEPT ![r] = @ \union {<<r, s, obj[r]>>}]
  /\ Return(r)
  /\ UNCHANGED <<globalVars, objVars, phase, epoch, asOf, frozen, shared>>

-----------------------------------------------------------------------------
(* The end of a snapshot (cleanupMVCC of its last clone), and trimming *)

SnapUntrack(s) ==
  /\ world.drops /\ phase[s] = "live" /\ \A r \in Readers : snap[r] # s
  /\ tracker' = tracker \ {epoch[s]}
  /\ phase' = [phase EXCEPT ![s] = "dying"]
  /\ UNCHANGED <<world, globalWriteEpoch, activeSnapshotCount, latestSnapshotCreationEpoch, objVars,
                 epoch, cloneMap, asOf, cloneVars, pc, obj, snap, guard>>

(* Seeded fault: every clone of the snapshot decrements the count. *)
SnapUncount_PerClone(s) ==
  /\ phase[s] = "dying"
  /\ activeSnapshotCount' = activeSnapshotCount - Cardinality({c \in Clones : c[2] = s /\ frozen[c] >= 0})
  /\ phase' = [phase EXCEPT ![s] = "gone"]
  /\ frozen' = [c \in Clones |-> IF c[2] = s THEN -1 ELSE frozen[c]]
  /\ shared' = {c \in shared : c[2] # s}
  /\ UNCHANGED <<world, globalWriteEpoch, latestSnapshotCreationEpoch, tracker, objVars, epoch, cloneMap,
                 asOf, got, pc, obj, snap, guard>>

SnapUncount(s) ==
  /\ phase[s] = "dying"
  /\ activeSnapshotCount' = activeSnapshotCount - 1
  /\ phase' = [phase EXCEPT ![s] = "gone"]
  /\ frozen' = [c \in Clones |-> IF c[2] = s THEN -1 ELSE frozen[c]]
  /\ shared' = {c \in shared : c[2] # s}
  /\ UNCHANGED <<world, globalWriteEpoch, latestSnapshotCreationEpoch, tracker, objVars, epoch, cloneMap,
                 asOf, got, pc, obj, snap, guard>>

minEpoch == CHOOSE e \in tracker : \A f \in tracker : e <= f

(* Seeded fault: the floor version is discarded too. *)
Trimmed_NoFloor(o) ==
  IF VersionsFor(o, minEpoch) = {} THEN versionChain[o]
  ELSE SubSeq(versionChain[o], 1, VersionFor(o, minEpoch) - 1)

(* Keep the newest version older than the oldest snapshot, and all newer. *)
Trimmed(o) ==
  IF VersionsFor(o, minEpoch) = {} THEN versionChain[o]
  ELSE SubSeq(versionChain[o], 1, VersionFor(o, minEpoch))

(* A collection: every thread is at a safepoint. *)
trimVersionChains ==
  /\ world.drops /\ \A t \in Threads : At(t, "idle") /\ \E o \in Objs : versionChain[o] # <<>>
  /\ versionChain' = [o \in Objs |-> IF tracker = {} THEN <<>> ELSE Trimmed(o)]
  /\ lastSaveEpoch' = [o \in Objs |->
       IF tracker = {} /\ versionChain[o] # <<>> THEN 0 ELSE lastSaveEpoch[o]]
  /\ UNCHANGED <<globalVars, data, writeEpoch, cowLock, snapVars, cloneVars, pc, obj, snap, guard>>

-----------------------------------------------------------------------------
OwnerStep(t) ==
  \/ \E o \in Objs : NewObject(t, o) \/ MutateBegin(t, o) \/ \E s \in Snaps : SnapClone(t, s, o)
  \/ GuardLock(t) \/ SaveVersion(t) \/ SaveStamp(t) \/ EnsureUnique(t) \/ Write(t)
  \/ MutateThrow(t) \/ Bump(t)
  \/ SnapEpoch(t) \/ publishSnapshotEpoch(t) \/ SnapTrack(t) \/ SnapCount(t)

ReaderStep(r) ==
  \/ \E s \in Snaps, o \in Objs : ResolveBegin(r, s, o)
  \/ ResolveMap(r) \/ ResolveEpoch(r) \/ ResolveChain(r) \/ ResolveLocked(r) \/ ResolveAgain(r)
  \/ ResolveInsert(r)

Next ==
  \/ \E t \in Owners : OwnerStep(t)
  \/ \E r \in Readers : ReaderStep(r)
  \/ \E s \in Snaps : SnapUntrack(s) \/ SnapUncount(s)
  \/ trimVersionChains

Spec == Init /\ [][Next]_vars

-----------------------------------------------------------------------------
(* Snapshot isolation: the frozen root, and whatever a const read was given,
   show now and for as long as the snapshot lives the state the object had
   when the snapshot was made, however mutations, other snapshots, lazy reads
   and collections interleave (createFrozenSnapshot, saveVersion,
   ensureUniqueStorage, resolveConstChild). *)
RootClones == {<<world.owner[o], s, o>> : s \in Snaps, o \in Objs}
SnapshotIsolation ==
  \A c \in (UNION {got[r] : r \in Readers}) \union {c \in RootClones : frozen[c] >= 0} :
    phase[c[2]] = "live" => frozen[c] = asOf[c[2]][c[3]]

(* findVersionForEpoch's invariant: the version a live snapshot needs is on
   the chain, so a const read never throws. *)
VersionFound == \A r \in Readers : pc[r] # "failed"

=============================================================================
