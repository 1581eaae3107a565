------------------------- MODULE MvccSnapshotProofs -------------------------
(***************************************************************************)
(* Proofs, for any threads, objects, snapshots and worlds, of the safety   *)
(* properties of MvccSnapshot.                                             *)
(***************************************************************************)
EXTENDS MvccSnapshot, FiniteSetTheorems, SequenceTheorems, TLAPS

-----------------------------------------------------------------------------
(* The parts of the inductive invariant *)

WorldOK == world \in Worlds

(* Every set of naturals has a least element, said of the sets this needs: it
   is carried along as they grow and shrink one element at a time. *)
WellOrdered(S) == \A T \in SUBSET S : T # {} => \E m \in T : \A n \in T : m <= n
OrderInv ==
  /\ WellOrdered(tracker)
  /\ \A o \in Objs : WellOrdered(DOMAIN versionChain[o])

(* Where an owner mutates, and where it makes a snapshot. *)
MutatePC == {"lock", "save", "stamp", "unique", "write", "bump"}
SnapPC   == {"epoch", "publish", "track", "count"}

(* o's owner is at one of the places pcs, on o. *)
In(o, pcs) == pc[world.owner[o]] \in pcs /\ obj[world.owner[o]] = o

(* Threads are on objects and snapshots that exist, the owners on their own,
   one owner to a snapshot. *)
OwnerPlace(t) ==
  /\ pc[t] \in OwnerPC
  /\ pc[t] \in MutatePC => obj[t] \in Objs /\ world.owner[obj[t]] = t /\ data[obj[t]] >= 0
  /\ pc[t] \in SnapPC => snap[t] \in Snaps /\ phase[snap[t]] = "made"
  /\ \A u \in Owners : pc[t] \in SnapPC /\ pc[u] \in SnapPC /\ snap[t] = snap[u] => t = u

ReaderPlace(r) ==
  /\ pc[r] \in ReaderPC
  /\ pc[r] # "idle" => /\ snap[r] \in Snaps /\ obj[r] \in Objs
                       /\ phase[snap[r]] = "live" /\ asOf[snap[r]][obj[r]] >= 0

PlaceInv == (\A t \in Owners : OwnerPlace(t)) /\ (\A r \in Readers : ReaderPlace(r))

(* The count is the number of snapshots counted and not yet uncounted. *)
Counted  == {s \in Snaps : phase[s] \in {"live", "dying"}}
CountInv == activeSnapshotCount = Cardinality(Counted)

(* Epochs are positive once taken, distinct and in the past; a live snapshot's
   is published and tracked. *)
GlobalEpochs == globalWriteEpoch >= 1 /\ latestSnapshotCreationEpoch < globalWriteEpoch

SnapEpochs(s) ==
  /\ epoch[s] < globalWriteEpoch
  /\ phase[s] = "unused" => epoch[s] = 0
  /\ phase[s] = "live" => /\ epoch[s] > 0 /\ epoch[s] <= latestSnapshotCreationEpoch
                          /\ epoch[s] \in tracker
  /\ \A q \in Snaps : s # q /\ epoch[s] > 0 => epoch[s] # epoch[q]

MakerEpochs(t) ==
  /\ pc[t] = "epoch" => epoch[snap[t]] = 0
  /\ pc[t] \in {"publish", "track", "count"} => epoch[snap[t]] > 0
  /\ pc[t] \in {"track", "count"} => epoch[snap[t]] <= latestSnapshotCreationEpoch
  /\ pc[t] = "count" => epoch[snap[t]] \in tracker

EpochInv ==
  /\ GlobalEpochs
  /\ \A s \in Snaps : SnapEpochs(s)
  /\ \A t \in Owners : MakerEpochs(t)

(* A snapshot being made promises the current state of objects whose owner is
   busy making it. *)
Made(s, o) ==
  phase[s] = "made" /\ asOf[s][o] >= 0
  => /\ data[o] = asOf[s][o]
     /\ pc[world.owner[o]] \in SnapPC /\ snap[world.owner[o]] = s

MadeInv == \A s \in Snaps, o \in Objs : Made(s, o)

(* An active guard holds its object's spinlock from the save to the bump. *)
Guards(t) ==
  /\ pc[t] \in {"lock", "save", "stamp"} => guard[t]
  /\ pc[t] \in MutatePC \ {"lock"} /\ guard[t] => cowLock[obj[t]] = t

GuardInv == \A t \in Owners : Guards(t)

(* The newest saved version is the current state. *)
HeadMatch(o) ==
  /\ versionChain[o] # <<>>
  /\ versionChain[o][1].epoch = writeEpoch[o] /\ versionChain[o][1].state = data[o]

(* An object stamped at the current epoch has its current state on the chain:
   the stamp would let the next snapshot's mutation skip the save.  Only a
   mutator that threw leaves one; a mutation bumps past its stamp. *)
Save(o) ==
  /\ writeEpoch[o] < globalWriteEpoch /\ lastSaveEpoch[o] <= globalWriteEpoch
  /\ In(o, {"stamp"}) => HeadMatch(o)
  /\ \/ lastSaveEpoch[o] < globalWriteEpoch
     \/ guard[world.owner[o]] /\ In(o, {"bump"})
     \/ guard[world.owner[o]] /\ ~world.throws /\ In(o, {"unique", "write"})
     \/ world.throws /\ HeadMatch(o)
  /\ In(o, MutatePC) /\ ~guard[world.owner[o]] => lastSaveEpoch[o] < globalWriteEpoch

SaveInv == \A o \in Objs : Save(o)

(* Where snapshots do not die a count once positive stays so. *)
LastingInv ==
  ~world.drops =>
    /\ \A s \in Snaps : phase[s] # "dying"
    /\ \A t \in Owners : pc[t] \in MutatePC /\ guard[t] => activeSnapshotCount > 0
    /\ activeSnapshotCount = 0 => \A o \in Objs : lastSaveEpoch[o] < globalWriteEpoch

(* Snapshot s has taken its epoch and promises a state of o. *)
Covered(s, o) == phase[s] \in {"made", "live"} /\ epoch[s] > 0 /\ asOf[s][o] >= 0

(* findVersionForEpoch would find the promised state on the chain. *)
ChainHas(s, o) ==
  \E i \in DOMAIN versionChain[o] :
    /\ versionChain[o][i].epoch < epoch[s] /\ versionChain[o][i].state = asOf[s][o]
    /\ \A j \in DOMAIN versionChain[o] : j < i => versionChain[o][j].epoch >= epoch[s]

(* The promised state is the object's own until it is overwritten, and on the
   chain from the moment the mutation that will overwrite it passed its save. *)
CurrentOK(s, o) ==
  Covered(s, o) =>
    /\ data[o] >= 0
    /\ In(o, MutatePC) => guard[world.owner[o]]
    /\ writeEpoch[o] < epoch[s] /\ ~In(o, {"bump"}) => data[o] = asOf[s][o]

ChainOK(s, o) ==
  /\ Covered(s, o)
  /\ \/ writeEpoch[o] >= epoch[s]
     \/ lastSaveEpoch[o] >= epoch[s]
     \/ In(o, {"stamp", "unique", "write", "bump"})
  => ChainHas(s, o)

VersionsInv == \A s \in Snaps, o \in Objs : CurrentOK(s, o) /\ ChainOK(s, o)

(* No clone shares the storage a write is about to change. *)
Unique(t) == pc[t] = "write" => \A c \in shared : c[3] # obj[t]

UniqueInv == \A t \in Owners : Unique(t)

(* A reader looks at the chain only when the object was written after its
   snapshot, and never fails. *)
Reading(r) ==
  /\ pc[r] \in {"chain", "again"} => writeEpoch[obj[r]] >= epoch[snap[r]]
  /\ pc[r] = "insert" => frozen[<<r, snap[r], obj[r]>>] >= 0
  /\ pc[r] # "failed"

ReaderInv == \A r \in Readers : Reading(r)

(* The clones of a snapshot show what it promises, and the clones given out or
   entered in its map are made and stay until it is gone. *)
CloneShows(t, s, o) ==
  /\ phase[s] = "unused" => frozen[<<t, s, o>>] = -1
  /\ phase[s] \in {"made", "live"} /\ frozen[<<t, s, o>>] >= 0 => frozen[<<t, s, o>>] = asOf[s][o]

Given(t, s, o) ==
  phase[s] \in {"live", "dying", "gone"} /\ (phase[s] = "live" => frozen[<<t, s, o>>] >= 0)

CloneInv ==
  /\ \A t \in Threads, s \in Snaps, o \in Objs :
       /\ CloneShows(t, s, o)
       /\ \A r \in Readers : <<t, s, o>> \in got[r] => Given(t, s, o)
  /\ \A s \in Snaps, o \in Objs : cloneMap[s][o] # None => Given(cloneMap[s][o], s, o)

(* What every world keeps. *)
TypeInv == TypeOK /\ WorldOK /\ OrderInv /\ PlaceInv /\ CountInv

-----------------------------------------------------------------------------
(* Least elements *)

(* One more element. *)
LEMMA WellOrderedAdd ==
  ASSUME NEW S, S \subseteq Nat, NEW x \in Nat, WellOrdered(S)
  PROVE  WellOrdered(S \union {x})
<1> SUFFICES ASSUME NEW T \in SUBSET (S \union {x}), T # {}
             PROVE  \E m \in T : \A n \in T : m <= n
  BY DEF WellOrdered
<1>1. CASE T \subseteq {x}
  <2>1. T = {x}
    BY <1>1
  <2>2. x <= x
    OBVIOUS
  <2> QED
    BY <2>1, <2>2
<1>2. CASE ~(T \subseteq {x})
  <2>1. T \ {x} \in SUBSET S /\ T \ {x} # {}
    BY <1>2
  <2>2. PICK m \in T \ {x} : \A n \in T \ {x} : m <= n
    BY <2>1 DEF WellOrdered
  <2>3. m \in Nat /\ \A n \in T : n \in Nat
    BY <2>1
  <2>4. CASE x \in T /\ x < m
    BY <2>2, <2>3, <2>4
  <2>5. CASE ~(x \in T /\ x < m)
    BY <2>2, <2>3, <2>5
  <2> QED
    BY <2>4, <2>5
<1> QED
  BY <1>1, <1>2

(* Fewer. *)
LEMMA WellOrderedSub ==
  ASSUME NEW S, NEW R \in SUBSET S, WellOrdered(S)
  PROVE  WellOrdered(R)
BY DEF WellOrdered

(* VersionFor is the first index that qualifies, when one does. *)
LEMMA VersionForFirst ==
  ASSUME OrderInv, NEW o \in Objs, NEW e, VersionsFor(o, e) # {}
  PROVE  /\ VersionFor(o, e) \in VersionsFor(o, e)
         /\ \A j \in VersionsFor(o, e) : VersionFor(o, e) <= j
<1>1. VersionsFor(o, e) \in SUBSET (DOMAIN versionChain[o])
  BY DEF VersionsFor
<1>2. \E i \in VersionsFor(o, e) : \A j \in VersionsFor(o, e) : i <= j
  BY <1>1 DEF OrderInv, WellOrdered
<1> QED
  BY <1>2 DEF VersionFor

(* So is minEpoch the oldest tracked epoch. *)
LEMMA MinEpochFirst ==
  ASSUME OrderInv, tracker # {}
  PROVE  minEpoch \in tracker /\ \A f \in tracker : minEpoch <= f
<1>1. \E e \in tracker : \A f \in tracker : e <= f
  BY DEF OrderInv, WellOrdered
<1> QED
  BY <1>1 DEF minEpoch

(* Owners are not readers. *)
LEMMA Apart == \A t \in Owners, r \in Readers : t # r
BY ConstantsOK

-----------------------------------------------------------------------------
(* Version chains *)

(* What is on a chain is a version. *)
LEMMA InChain ==
  ASSUME NEW s \in Seq(Version), NEW i \in DOMAIN s
  PROVE  i \in 1..Len(s) /\ s[i].epoch \in Nat /\ s[i].state \in Nat
<1>1. i \in 1..Len(s)
  OBVIOUS
<1>2. s[i] \in Version
  BY <1>1
<1> QED
  BY <1>1, <1>2 DEF Version

(* A saved version goes to the front. *)
LEMMA Saved ==
  ASSUME NEW s \in Seq(Version), NEW v \in Version
  PROVE  /\ <<v>> \o s \in Seq(Version) /\ Len(<<v>> \o s) = Len(s) + 1
         /\ (<<v>> \o s)[1] = v
         /\ \A i \in 1..Len(s) : (<<v>> \o s)[i + 1] = s[i]
<1>1. <<v>> \in Seq(Version) /\ Len(<<v>>) = 1 /\ <<v>>[1] = v
  OBVIOUS
<1> QED
  BY <1>1, ConcatProperties

(* Trimming keeps a prefix. *)
LEMMA Kept ==
  ASSUME NEW s \in Seq(Version), NEW k \in 1..Len(s)
  PROVE  /\ SubSeq(s, 1, k) \in Seq(Version) /\ Len(SubSeq(s, 1, k)) = k
         /\ \A i \in 1..k : SubSeq(s, 1, k)[i] = s[i]
BY SubSeqProperties

-----------------------------------------------------------------------------
(* Where threads are *)

(* An owner that mutates is on an object of its own, which exists. *)
LEMMA OwnerOn ==
  ASSUME TypeInv, NEW t \in Owners, pc[t] \in MutatePC
  PROVE  obj[t] \in Objs /\ world.owner[obj[t]] = t /\ data[obj[t]] \in Nat
<1>1. obj[t] \in Objs /\ world.owner[obj[t]] = t /\ data[obj[t]] >= 0
  BY DEF TypeInv, PlaceInv, OwnerPlace
<1>2. data[obj[t]] \in Nat \union {-1}
  BY <1>1 DEF TypeInv, TypeOK, ObjectsOK
<1> QED
  BY <1>1, <1>2

(* A reader inside resolveConstChild is on a live snapshot that promises the
   object's state. *)
LEMMA ReaderOn ==
  ASSUME TypeInv, NEW r \in Readers, pc[r] # "idle"
  PROVE  /\ snap[r] \in Snaps /\ obj[r] \in Objs /\ <<r, snap[r], obj[r]>> \in Clones
         /\ phase[snap[r]] = "live" /\ asOf[snap[r]][obj[r]] >= 0
         /\ cloneMap[snap[r]][obj[r]] \in Readers \union {None}
         /\ data[obj[r]] \in Nat \union {-1}
         /\ versionChain[obj[r]] \in Seq(Version)
<1>1. /\ snap[r] \in Snaps /\ obj[r] \in Objs
      /\ phase[snap[r]] = "live" /\ asOf[snap[r]][obj[r]] >= 0
  BY DEF TypeInv, PlaceInv, ReaderPlace
<1>2. <<r, snap[r], obj[r]>> \in Clones
  BY <1>1 DEF Clones, Threads
<1>3. cloneMap[snap[r]][obj[r]] \in Readers \union {None}
  BY <1>1 DEF TypeInv, TypeOK, SnapsOK
<1>4. data[obj[r]] \in Nat \union {-1} /\ versionChain[obj[r]] \in Seq(Version)
  BY <1>1 DEF TypeInv, TypeOK, ObjectsOK
<1> QED
  BY <1>1, <1>2, <1>3, <1>4

(* Threads go from place to place. *)
LEMMA ThreadsType ==
  ASSUME TypeInv, [Next]_vars
  PROVE  ThreadsOK'
<1> USE DEF TypeInv, TypeOK, ThreadsOK, PlaceInv, OwnerPlace, ReaderPlace, MutatePC, SnapPC,
    OwnerPC, ReaderPC, Threads, globalVars, objVars, snapVars, cloneVars, vars, Goto, At, Return,
    CloneCurrent, Release, FromChain
<1>1. ASSUME NEW t \in Owners, NEW p \in Objs, NewObject(t, p) PROVE ThreadsOK'
  BY <1>1 DEF NewObject
<1>2. ASSUME NEW t \in Owners, NEW p \in Objs, MutateBegin(t, p) PROVE ThreadsOK'
  BY <1>2 DEF MutateBegin
<1>3. ASSUME NEW t \in Owners, NEW q \in Snaps, NEW p \in Objs, SnapClone(t, q, p) PROVE ThreadsOK'
  BY <1>3 DEF SnapClone
<1>4. ASSUME NEW t \in Owners, GuardLock(t) PROVE ThreadsOK'
  BY <1>4 DEF GuardLock
<1>5. ASSUME NEW t \in Owners, SaveVersion(t) PROVE ThreadsOK'
  BY <1>5 DEF SaveVersion
<1>6. ASSUME NEW t \in Owners, SaveStamp(t) PROVE ThreadsOK'
  BY <1>6 DEF SaveStamp
<1>7. ASSUME NEW t \in Owners, EnsureUnique(t) PROVE ThreadsOK'
  BY <1>7 DEF EnsureUnique
<1>8. ASSUME NEW t \in Owners, Write(t) PROVE ThreadsOK'
  BY <1>8 DEF Write
<1>9. ASSUME NEW t \in Owners, MutateThrow(t) PROVE ThreadsOK'
  BY <1>9 DEF MutateThrow
<1>10. ASSUME NEW t \in Owners, Bump(t) PROVE ThreadsOK'
  BY <1>10 DEF Bump
<1>11. ASSUME NEW t \in Owners, SnapEpoch(t) PROVE ThreadsOK'
  BY <1>11 DEF SnapEpoch
<1>12. ASSUME NEW t \in Owners, publishSnapshotEpoch(t) PROVE ThreadsOK'
  BY <1>12 DEF publishSnapshotEpoch
<1>13. ASSUME NEW t \in Owners, SnapTrack(t) PROVE ThreadsOK'
  BY <1>13 DEF SnapTrack
<1>14. ASSUME NEW t \in Owners, SnapCount(t) PROVE ThreadsOK'
  BY <1>14 DEF SnapCount
<1>15. ASSUME NEW r \in Readers, NEW q \in Snaps, NEW p \in Objs, ResolveBegin(r, q,
    p) PROVE ThreadsOK'
  BY <1>15 DEF ResolveBegin
<1>16. ASSUME NEW r \in Readers, ResolveMap(r) PROVE ThreadsOK'
  <2>1. CASE cloneMap[snap[r]][obj[r]] # None
    <3>1. Return(r) /\ UNCHANGED <<world, data, phase>>
      BY <1>16, <2>1 DEF ResolveMap
    <3> QED
      BY <3>1, Apart
  <2>2. CASE cloneMap[snap[r]][obj[r]] = None
    BY <1>16, <2>2, Apart DEF ResolveMap
  <2> QED
    BY <2>1, <2>2
<1>17. ASSUME NEW r \in Readers, ResolveEpoch(r) PROVE ThreadsOK'
  BY <1>17 DEF ResolveEpoch
<1>18. ASSUME NEW r \in Readers, ResolveChain(r) PROVE ThreadsOK'
  BY <1>18 DEF ResolveChain
<1>19. ASSUME NEW r \in Readers, ResolveLocked(r) PROVE ThreadsOK'
  BY <1>19 DEF ResolveLocked
<1>20. ASSUME NEW r \in Readers, ResolveAgain(r) PROVE ThreadsOK'
  BY <1>20 DEF ResolveAgain
<1>21. ASSUME NEW r \in Readers, ResolveInsert(r) PROVE ThreadsOK'
  BY <1>21 DEF ResolveInsert
<1>22. ASSUME NEW q \in Snaps, SnapUntrack(q) PROVE ThreadsOK'
  BY <1>22 DEF SnapUntrack
<1>23. ASSUME NEW q \in Snaps, SnapUncount(q) PROVE ThreadsOK'
  BY <1>23 DEF SnapUncount
<1>24. ASSUME trimVersionChains PROVE ThreadsOK'
  BY <1>24 DEF trimVersionChains
<1>25. ASSUME UNCHANGED vars PROVE ThreadsOK'
  BY <1>25
<1> QED
  BY <1>1, <1>2, <1>3, <1>4, <1>5, <1>6, <1>7, <1>8, <1>9, <1>10, <1>11, <1>12, <1>13, <1>14,
      <1>15, <1>16, <1>17, <1>18, <1>19, <1>20, <1>21, <1>22, <1>23, <1>24, <1>25 DEF Next,
      OwnerStep, ReaderStep

(* Owners stay on what is theirs. *)
LEMMA OwnerPlaceStep ==
  ASSUME TypeInv, NEW u \in Owners, [Next]_vars
  PROVE  OwnerPlace(u)'
<1> USE DEF TypeInv, TypeOK, ObjectsOK, SnapsOK, ThreadsOK, PlaceInv, OwnerPlace, ReaderPlace,
    MutatePC, SnapPC, OwnerPC, ReaderPC, Threads, globalVars, objVars, snapVars, cloneVars, vars,
    Goto, At, Return, CloneCurrent, Release, FromChain
<1>1. ASSUME NEW t \in Owners, NEW p \in Objs, NewObject(t, p) PROVE OwnerPlace(u)'
  BY <1>1, Apart DEF NewObject
<1>2. ASSUME NEW t \in Owners, NEW p \in Objs, MutateBegin(t, p) PROVE OwnerPlace(u)'
  BY <1>2, Apart DEF MutateBegin
<1>3. ASSUME NEW t \in Owners, NEW q \in Snaps, NEW p \in Objs, SnapClone(t, q,
    p) PROVE OwnerPlace(u)'
  BY <1>3, Apart DEF SnapClone
<1>4. ASSUME NEW t \in Owners, GuardLock(t) PROVE OwnerPlace(u)'
  BY <1>4, Apart DEF GuardLock
<1>5. ASSUME NEW t \in Owners, SaveVersion(t) PROVE OwnerPlace(u)'
  BY <1>5, Apart DEF SaveVersion
<1>6. ASSUME NEW t \in Owners, SaveStamp(t) PROVE OwnerPlace(u)'
  BY <1>6, Apart DEF SaveStamp
<1>7. ASSUME NEW t \in Owners, EnsureUnique(t) PROVE OwnerPlace(u)'
  BY <1>7, Apart DEF EnsureUnique
<1>8. ASSUME NEW t \in Owners, Write(t) PROVE OwnerPlace(u)'
  <2>1. \A o \in Objs : data[o] >= 0 => data'[o] >= 0
    <3>1. pc[t] = "write" /\ data' = [data EXCEPT ![obj[t]] = data[obj[t]] + 1]
      BY <1>8 DEF Write
    <3>2. data[obj[t]] \in Nat /\ obj[t] \in Objs
      BY <3>1, OwnerOn
    <3> QED
      BY <3>1, <3>2
  <2>2. UNCHANGED <<obj, snap, phase, world>>
    BY <1>8 DEF Write
  <2>3. \A v \in Owners : pc'[v] = IF v = t THEN "bump" ELSE pc[v]
    BY <1>8 DEF Write
  <2>4. pc[t] = "write"
    BY <1>8 DEF Write
  <2> QED
    BY <2>1, <2>2, <2>3, <2>4
<1>9. ASSUME NEW t \in Owners, MutateThrow(t) PROVE OwnerPlace(u)'
  BY <1>9, Apart DEF MutateThrow
<1>10. ASSUME NEW t \in Owners, Bump(t) PROVE OwnerPlace(u)'
  BY <1>10, Apart DEF Bump
<1>11. ASSUME NEW t \in Owners, SnapEpoch(t) PROVE OwnerPlace(u)'
  BY <1>11, Apart DEF SnapEpoch
<1>12. ASSUME NEW t \in Owners, publishSnapshotEpoch(t) PROVE OwnerPlace(u)'
  BY <1>12, Apart DEF publishSnapshotEpoch
<1>13. ASSUME NEW t \in Owners, SnapTrack(t) PROVE OwnerPlace(u)'
  BY <1>13, Apart DEF SnapTrack
<1>14. ASSUME NEW t \in Owners, SnapCount(t) PROVE OwnerPlace(u)'
  BY <1>14, Apart DEF SnapCount
<1>15. ASSUME NEW r \in Readers, NEW q \in Snaps, NEW p \in Objs, ResolveBegin(r, q,
    p) PROVE OwnerPlace(u)'
  BY <1>15, Apart DEF ResolveBegin
<1>16. ASSUME NEW r \in Readers, ResolveMap(r) PROVE OwnerPlace(u)'
  <2>1. CASE cloneMap[snap[r]][obj[r]] # None
    <3>1. Return(r) /\ UNCHANGED <<world, data, phase>>
      BY <1>16, <2>1 DEF ResolveMap
    <3> QED
      BY <3>1, Apart
  <2>2. CASE cloneMap[snap[r]][obj[r]] = None
    BY <1>16, <2>2, Apart DEF ResolveMap
  <2> QED
    BY <2>1, <2>2
<1>17. ASSUME NEW r \in Readers, ResolveEpoch(r) PROVE OwnerPlace(u)'
  BY <1>17, Apart DEF ResolveEpoch
<1>18. ASSUME NEW r \in Readers, ResolveChain(r) PROVE OwnerPlace(u)'
  BY <1>18, Apart DEF ResolveChain
<1>19. ASSUME NEW r \in Readers, ResolveLocked(r) PROVE OwnerPlace(u)'
  BY <1>19, Apart DEF ResolveLocked
<1>20. ASSUME NEW r \in Readers, ResolveAgain(r) PROVE OwnerPlace(u)'
  BY <1>20, Apart DEF ResolveAgain
<1>21. ASSUME NEW r \in Readers, ResolveInsert(r) PROVE OwnerPlace(u)'
  BY <1>21, Apart DEF ResolveInsert
<1>22. ASSUME NEW q \in Snaps, SnapUntrack(q) PROVE OwnerPlace(u)'
  BY <1>22, Apart DEF SnapUntrack
<1>23. ASSUME NEW q \in Snaps, SnapUncount(q) PROVE OwnerPlace(u)'
  BY <1>23, Apart DEF SnapUncount
<1>24. ASSUME trimVersionChains PROVE OwnerPlace(u)'
  BY <1>24, Apart DEF trimVersionChains
<1>25. ASSUME UNCHANGED vars PROVE OwnerPlace(u)'
  BY <1>25, Apart
<1> QED
  BY <1>1, <1>2, <1>3, <1>4, <1>5, <1>6, <1>7, <1>8, <1>9, <1>10, <1>11, <1>12, <1>13, <1>14,
      <1>15, <1>16, <1>17, <1>18, <1>19, <1>20, <1>21, <1>22, <1>23, <1>24, <1>25 DEF Next,
      OwnerStep, ReaderStep

(* Readers stay on live snapshots. *)
LEMMA ReaderPlaceStep ==
  ASSUME TypeInv, NEW u \in Readers, [Next]_vars
  PROVE  ReaderPlace(u)'
<1> USE DEF TypeInv, TypeOK, ObjectsOK, SnapsOK, ThreadsOK, PlaceInv, OwnerPlace, ReaderPlace,
    MutatePC, SnapPC, OwnerPC, ReaderPC, Threads, globalVars, objVars, snapVars, cloneVars, vars,
    Goto, At, Return, CloneCurrent, Release, FromChain
<1>1. ASSUME NEW t \in Owners, NEW p \in Objs, NewObject(t, p) PROVE ReaderPlace(u)'
  BY <1>1, Apart DEF NewObject
<1>2. ASSUME NEW t \in Owners, NEW p \in Objs, MutateBegin(t, p) PROVE ReaderPlace(u)'
  BY <1>2, Apart DEF MutateBegin
<1>3. ASSUME NEW t \in Owners, NEW q \in Snaps, NEW p \in Objs, SnapClone(t, q,
    p) PROVE ReaderPlace(u)'
  BY <1>3, Apart DEF SnapClone
<1>4. ASSUME NEW t \in Owners, GuardLock(t) PROVE ReaderPlace(u)'
  BY <1>4, Apart DEF GuardLock
<1>5. ASSUME NEW t \in Owners, SaveVersion(t) PROVE ReaderPlace(u)'
  <2>1. pc'[u] = pc[u] /\ UNCHANGED <<snap, obj, phase, asOf>>
    BY <1>5, Apart DEF SaveVersion
  <2> QED
    BY <2>1
<1>6. ASSUME NEW t \in Owners, SaveStamp(t) PROVE ReaderPlace(u)'
  BY <1>6, Apart DEF SaveStamp
<1>7. ASSUME NEW t \in Owners, EnsureUnique(t) PROVE ReaderPlace(u)'
  BY <1>7, Apart DEF EnsureUnique
<1>8. ASSUME NEW t \in Owners, Write(t) PROVE ReaderPlace(u)'
  BY <1>8, Apart DEF Write
<1>9. ASSUME NEW t \in Owners, MutateThrow(t) PROVE ReaderPlace(u)'
  BY <1>9, Apart DEF MutateThrow
<1>10. ASSUME NEW t \in Owners, Bump(t) PROVE ReaderPlace(u)'
  BY <1>10, Apart DEF Bump
<1>11. ASSUME NEW t \in Owners, SnapEpoch(t) PROVE ReaderPlace(u)'
  BY <1>11, Apart DEF SnapEpoch
<1>12. ASSUME NEW t \in Owners, publishSnapshotEpoch(t) PROVE ReaderPlace(u)'
  BY <1>12, Apart DEF publishSnapshotEpoch
<1>13. ASSUME NEW t \in Owners, SnapTrack(t) PROVE ReaderPlace(u)'
  BY <1>13, Apart DEF SnapTrack
<1>14. ASSUME NEW t \in Owners, SnapCount(t) PROVE ReaderPlace(u)'
  BY <1>14, Apart DEF SnapCount
<1>15. ASSUME NEW r \in Readers, NEW q \in Snaps, NEW p \in Objs, ResolveBegin(r, q,
    p) PROVE ReaderPlace(u)'
  BY <1>15, Apart DEF ResolveBegin
<1>16. ASSUME NEW r \in Readers, ResolveMap(r) PROVE ReaderPlace(u)'
  BY <1>16, Apart DEF ResolveMap
<1>17. ASSUME NEW r \in Readers, ResolveEpoch(r) PROVE ReaderPlace(u)'
  BY <1>17, Apart DEF ResolveEpoch
<1>18. ASSUME NEW r \in Readers, ResolveChain(r) PROVE ReaderPlace(u)'
  <2>1. pc[r] # "idle" /\ UNCHANGED <<obj, snap, phase, asOf>>
    BY <1>18 DEF ResolveChain
  <2>2. pc'[u] \in ReaderPC /\ (u # r => pc'[u] = pc[u])
    <3>1. \E l \in ReaderPC : pc' = [pc EXCEPT ![r] = l]
      BY <1>18 DEF ResolveChain
    <3> QED
      BY <3>1
  <2> QED
    BY <2>1, <2>2
<1>19. ASSUME NEW r \in Readers, ResolveLocked(r) PROVE ReaderPlace(u)'
  <2>1. UNCHANGED <<obj, snap, phase, asOf>> /\ pc[r] # "idle"
    BY <1>19 DEF ResolveLocked
  <2>2. \E l \in ReaderPC : pc' = [pc EXCEPT ![r] = l]
    BY <1>19 DEF ResolveLocked
  <2> QED
    BY <2>1, <2>2
<1>20. ASSUME NEW r \in Readers, ResolveAgain(r) PROVE ReaderPlace(u)'
  <2>1. pc[r] # "idle" /\ UNCHANGED <<obj, snap, phase, asOf>>
    BY <1>20 DEF ResolveAgain
  <2>2. pc'[u] \in ReaderPC /\ (u # r => pc'[u] = pc[u])
    <3>1. \E l \in ReaderPC : pc' = [pc EXCEPT ![r] = l]
      BY <1>20 DEF ResolveAgain
    <3> QED
      BY <3>1
  <2> QED
    BY <2>1, <2>2
<1>21. ASSUME NEW r \in Readers, ResolveInsert(r) PROVE ReaderPlace(u)'
  BY <1>21, Apart DEF ResolveInsert
<1>22. ASSUME NEW q \in Snaps, SnapUntrack(q) PROVE ReaderPlace(u)'
  BY <1>22, Apart DEF SnapUntrack
<1>23. ASSUME NEW q \in Snaps, SnapUncount(q) PROVE ReaderPlace(u)'
  BY <1>23, Apart DEF SnapUncount
<1>24. ASSUME trimVersionChains PROVE ReaderPlace(u)'
  BY <1>24, Apart DEF trimVersionChains
<1>25. ASSUME UNCHANGED vars PROVE ReaderPlace(u)'
  BY <1>25, Apart
<1> QED
  BY <1>1, <1>2, <1>3, <1>4, <1>5, <1>6, <1>7, <1>8, <1>9, <1>10, <1>11, <1>12, <1>13, <1>14,
      <1>15, <1>16, <1>17, <1>18, <1>19, <1>20, <1>21, <1>22, <1>23, <1>24, <1>25 DEF Next,
      OwnerStep, ReaderStep

(* Snapshots keep their types. *)
LEMMA SnapsType ==
  ASSUME TypeInv, [Next]_vars
  PROVE  SnapsOK'
<1> USE DEF TypeInv, TypeOK, GlobalsOK, ObjectsOK, SnapsOK, ThreadsOK, PlaceInv, OwnerPlace,
    ReaderPlace, MutatePC, SnapPC, OwnerPC, ReaderPC, Threads, globalVars, objVars, snapVars,
    cloneVars, vars, Goto, At, Return, CloneCurrent, Release, FromChain
<1>1. ASSUME NEW t \in Owners, NEW p \in Objs, NewObject(t, p) PROVE SnapsOK'
  BY <1>1 DEF NewObject
<1>2. ASSUME NEW t \in Owners, NEW p \in Objs, MutateBegin(t, p) PROVE SnapsOK'
  BY <1>2 DEF MutateBegin
<1>3. ASSUME NEW t \in Owners, NEW q \in Snaps, NEW p \in Objs, SnapClone(t, q, p) PROVE SnapsOK'
  BY <1>3 DEF SnapClone
<1>4. ASSUME NEW t \in Owners, GuardLock(t) PROVE SnapsOK'
  BY <1>4 DEF GuardLock
<1>5. ASSUME NEW t \in Owners, SaveVersion(t) PROVE SnapsOK'
  BY <1>5 DEF SaveVersion
<1>6. ASSUME NEW t \in Owners, SaveStamp(t) PROVE SnapsOK'
  BY <1>6 DEF SaveStamp
<1>7. ASSUME NEW t \in Owners, EnsureUnique(t) PROVE SnapsOK'
  BY <1>7 DEF EnsureUnique
<1>8. ASSUME NEW t \in Owners, Write(t) PROVE SnapsOK'
  BY <1>8 DEF Write
<1>9. ASSUME NEW t \in Owners, MutateThrow(t) PROVE SnapsOK'
  BY <1>9 DEF MutateThrow
<1>10. ASSUME NEW t \in Owners, Bump(t) PROVE SnapsOK'
  BY <1>10 DEF Bump
<1>11. ASSUME NEW t \in Owners, SnapEpoch(t) PROVE SnapsOK'
  BY <1>11 DEF SnapEpoch
<1>12. ASSUME NEW t \in Owners, publishSnapshotEpoch(t) PROVE SnapsOK'
  BY <1>12 DEF publishSnapshotEpoch
<1>13. ASSUME NEW t \in Owners, SnapTrack(t) PROVE SnapsOK'
  BY <1>13 DEF SnapTrack
<1>14. ASSUME NEW t \in Owners, SnapCount(t) PROVE SnapsOK'
  BY <1>14 DEF SnapCount
<1>15. ASSUME NEW r \in Readers, NEW q \in Snaps, NEW p \in Objs, ResolveBegin(r, q,
    p) PROVE SnapsOK'
  BY <1>15 DEF ResolveBegin
<1>16. ASSUME NEW r \in Readers, ResolveMap(r) PROVE SnapsOK'
  BY <1>16 DEF ResolveMap
<1>17. ASSUME NEW r \in Readers, ResolveEpoch(r) PROVE SnapsOK'
  BY <1>17 DEF ResolveEpoch
<1>18. ASSUME NEW r \in Readers, ResolveChain(r) PROVE SnapsOK'
  BY <1>18 DEF ResolveChain
<1>19. ASSUME NEW r \in Readers, ResolveLocked(r) PROVE SnapsOK'
  BY <1>19 DEF ResolveLocked
<1>20. ASSUME NEW r \in Readers, ResolveAgain(r) PROVE SnapsOK'
  BY <1>20 DEF ResolveAgain
<1>21. ASSUME NEW r \in Readers, ResolveInsert(r) PROVE SnapsOK'
  BY <1>21 DEF ResolveInsert
<1>22. ASSUME NEW q \in Snaps, SnapUntrack(q) PROVE SnapsOK'
  BY <1>22 DEF SnapUntrack
<1>23. ASSUME NEW q \in Snaps, SnapUncount(q) PROVE SnapsOK'
  BY <1>23 DEF SnapUncount
<1>24. ASSUME trimVersionChains PROVE SnapsOK'
  BY <1>24 DEF trimVersionChains
<1>25. ASSUME UNCHANGED vars PROVE SnapsOK'
  BY <1>25
<1> QED
  BY <1>1, <1>2, <1>3, <1>4, <1>5, <1>6, <1>7, <1>8, <1>9, <1>10, <1>11, <1>12, <1>13, <1>14,
      <1>15, <1>16, <1>17, <1>18, <1>19, <1>20, <1>21, <1>22, <1>23, <1>24, <1>25 DEF Next,
      OwnerStep, ReaderStep

(* Clones keep their types. *)
LEMMA ClonesType ==
  ASSUME TypeInv, [Next]_vars
  PROVE  ClonesOK'
<1>0. \A t \in Owners : pc[t] = "write" => data[obj[t]] + 1 \in Nat
  <2>1. ASSUME NEW t \in Owners, pc[t] = "write" PROVE data[obj[t]] + 1 \in Nat
    <3>1. pc[t] \in MutatePC
      BY <2>1 DEF MutatePC
    <3>2. data[obj[t]] \in Nat
      BY <3>1, OwnerOn
    <3> QED
      BY <3>2
  <2> QED
    BY <2>1
<1> USE DEF TypeInv, TypeOK, ObjectsOK, SnapsOK, ClonesOK, Clones, ThreadsOK, PlaceInv, OwnerPlace,
    ReaderPlace, MutatePC, SnapPC, OwnerPC, ReaderPC, Threads, globalVars, objVars, snapVars,
    cloneVars, vars, Goto, At, Return, CloneCurrent, Release, FromChain
<1>1. ASSUME NEW t \in Owners, NEW p \in Objs, NewObject(t, p) PROVE ClonesOK'
  BY <1>1 DEF NewObject
<1>2. ASSUME NEW t \in Owners, NEW p \in Objs, MutateBegin(t, p) PROVE ClonesOK'
  BY <1>2 DEF MutateBegin
<1>3. ASSUME NEW t \in Owners, NEW q \in Snaps, NEW p \in Objs, SnapClone(t, q, p) PROVE ClonesOK'
  BY <1>3 DEF SnapClone
<1>4. ASSUME NEW t \in Owners, GuardLock(t) PROVE ClonesOK'
  BY <1>4 DEF GuardLock
<1>5. ASSUME NEW t \in Owners, SaveVersion(t) PROVE ClonesOK'
  BY <1>5 DEF SaveVersion
<1>6. ASSUME NEW t \in Owners, SaveStamp(t) PROVE ClonesOK'
  BY <1>6 DEF SaveStamp
<1>7. ASSUME NEW t \in Owners, EnsureUnique(t) PROVE ClonesOK'
  BY <1>7 DEF EnsureUnique
<1>8. ASSUME NEW t \in Owners, Write(t) PROVE ClonesOK'
  <2>1. pc[t] = "write" /\ UNCHANGED <<shared, got>>
    BY <1>8 DEF Write
  <2>2. data[obj[t]] + 1 \in Nat
    BY <1>0, <2>1
  <2>3. frozen' = [c \in Clones |-> IF c \in shared /\ c[3] = obj[t] THEN data[obj[t]] + 1 ELSE frozen[c]]
    BY <1>8 DEF Write
  <2> QED
    BY <2>1, <2>2, <2>3
<1>9. ASSUME NEW t \in Owners, MutateThrow(t) PROVE ClonesOK'
  BY <1>9 DEF MutateThrow
<1>10. ASSUME NEW t \in Owners, Bump(t) PROVE ClonesOK'
  BY <1>10 DEF Bump
<1>11. ASSUME NEW t \in Owners, SnapEpoch(t) PROVE ClonesOK'
  BY <1>11 DEF SnapEpoch
<1>12. ASSUME NEW t \in Owners, publishSnapshotEpoch(t) PROVE ClonesOK'
  BY <1>12 DEF publishSnapshotEpoch
<1>13. ASSUME NEW t \in Owners, SnapTrack(t) PROVE ClonesOK'
  BY <1>13 DEF SnapTrack
<1>14. ASSUME NEW t \in Owners, SnapCount(t) PROVE ClonesOK'
  BY <1>14 DEF SnapCount
<1>15. ASSUME NEW r \in Readers, NEW q \in Snaps, NEW p \in Objs, ResolveBegin(r, q,
    p) PROVE ClonesOK'
  BY <1>15 DEF ResolveBegin
<1>16. ASSUME NEW r \in Readers, ResolveMap(r) PROVE ClonesOK'
  <2>1. pc[r] = "map" /\ UNCHANGED <<frozen, shared>>
    BY <1>16 DEF ResolveMap
  <2>2. CASE cloneMap[snap[r]][obj[r]] # None
    <3>1. <<cloneMap[snap[r]][obj[r]], snap[r], obj[r]>> \in Clones
      BY <2>1, <2>2, ReaderOn
    <3>2. got' = [got EXCEPT ![r] = got[r] \union {<<cloneMap[snap[r]][obj[r]], snap[r], obj[r]>>}]
      BY <1>16, <2>2 DEF ResolveMap
    <3> QED
      BY <2>1, <3>1, <3>2
  <2>3. CASE cloneMap[snap[r]][obj[r]] = None
    BY <1>16, <2>3 DEF ResolveMap
  <2> QED
    BY <2>2, <2>3
<1>17. ASSUME NEW r \in Readers, ResolveEpoch(r) PROVE ClonesOK'
  BY <1>17 DEF ResolveEpoch
<1>18. ASSUME NEW r \in Readers, ResolveChain(r) PROVE ClonesOK'
  <2>1. pc[r] # "idle" /\ UNCHANGED <<shared, got>>
    BY <1>18 DEF ResolveChain
  <2>2. CASE VersionsFor(obj[r], epoch[snap[r]]) # {}
    <3>1. VersionFor(obj[r], epoch[snap[r]]) \in DOMAIN versionChain[obj[r]]
      BY <2>1, <2>2, VersionForFirst, ReaderOn DEF VersionsFor
    <3>2. versionChain[obj[r]][VersionFor(obj[r], epoch[snap[r]])].state \in Nat
      BY <2>1, <3>1, ReaderOn, InChain
    <3>3. frozen' = [frozen EXCEPT ![<<r, snap[r], obj[r]>>] =
                       versionChain[obj[r]][VersionFor(obj[r], epoch[snap[r]])].state]
      BY <1>18, <2>2 DEF ResolveChain
    <3> QED
      BY <2>1, <3>2, <3>3
  <2>3. CASE VersionsFor(obj[r], epoch[snap[r]]) = {}
    BY <1>18, <2>3 DEF ResolveChain
  <2> QED
    BY <2>2, <2>3
<1>19. ASSUME NEW r \in Readers, ResolveLocked(r) PROVE ClonesOK'
  <2>1. pc[r] = "lock" /\ UNCHANGED got
    BY <1>19 DEF ResolveLocked
  <2>2. CASE writeEpoch[obj[r]] < epoch[snap[r]]
    <3>1. /\ frozen' = [frozen EXCEPT ![<<r, snap[r], obj[r]>>] = data[obj[r]]]
          /\ shared' = shared \union {<<r, snap[r], obj[r]>>}
      BY <1>19, <2>2 DEF ResolveLocked
    <3>2. <<r, snap[r], obj[r]>> \in Clones /\ data[obj[r]] \in Nat \union {-1}
      BY <2>1, ReaderOn
    <3> QED
      BY <2>1, <3>1, <3>2
  <2>3. CASE ~(writeEpoch[obj[r]] < epoch[snap[r]])
    BY <1>19, <2>3 DEF ResolveLocked
  <2> QED
    BY <2>2, <2>3
<1>20. ASSUME NEW r \in Readers, ResolveAgain(r) PROVE ClonesOK'
  <2>1. pc[r] # "idle" /\ UNCHANGED <<shared, got>>
    BY <1>20 DEF ResolveAgain
  <2>2. CASE VersionsFor(obj[r], epoch[snap[r]]) # {}
    <3>1. VersionFor(obj[r], epoch[snap[r]]) \in DOMAIN versionChain[obj[r]]
      BY <2>1, <2>2, VersionForFirst, ReaderOn DEF VersionsFor
    <3>2. versionChain[obj[r]][VersionFor(obj[r], epoch[snap[r]])].state \in Nat
      BY <2>1, <3>1, ReaderOn, InChain
    <3>3. frozen' = [frozen EXCEPT ![<<r, snap[r], obj[r]>>] =
                       versionChain[obj[r]][VersionFor(obj[r], epoch[snap[r]])].state]
      BY <1>20, <2>2 DEF ResolveAgain
    <3> QED
      BY <2>1, <3>2, <3>3
  <2>3. CASE VersionsFor(obj[r], epoch[snap[r]]) = {}
    BY <1>20, <2>3 DEF ResolveAgain
  <2> QED
    BY <2>2, <2>3
<1>21. ASSUME NEW r \in Readers, ResolveInsert(r) PROVE ClonesOK'
  BY <1>21 DEF ResolveInsert
<1>22. ASSUME NEW q \in Snaps, SnapUntrack(q) PROVE ClonesOK'
  BY <1>22 DEF SnapUntrack
<1>23. ASSUME NEW q \in Snaps, SnapUncount(q) PROVE ClonesOK'
  BY <1>23 DEF SnapUncount
<1>24. ASSUME trimVersionChains PROVE ClonesOK'
  BY <1>24 DEF trimVersionChains
<1>25. ASSUME UNCHANGED vars PROVE ClonesOK'
  BY <1>25
<1> QED
  BY <1>1, <1>2, <1>3, <1>4, <1>5, <1>6, <1>7, <1>8, <1>9, <1>10, <1>11, <1>12, <1>13, <1>14,
      <1>15, <1>16, <1>17, <1>18, <1>19, <1>20, <1>21, <1>22, <1>23, <1>24, <1>25 DEF Next,
      OwnerStep, ReaderStep

(* Objects and their chains keep their types. *)
LEMMA ObjectsType ==
  ASSUME TypeInv, [Next]_vars
  PROVE  ObjectsOK'
<1> USE DEF TypeInv, TypeOK, GlobalsOK, ObjectsOK, SnapsOK, ThreadsOK, PlaceInv, OwnerPlace,
    ReaderPlace, MutatePC, SnapPC, OwnerPC, ReaderPC, Threads, globalVars, objVars, snapVars,
    cloneVars, vars, Goto, At, Return, CloneCurrent, Release, FromChain
<1>1. ASSUME NEW t \in Owners, NEW p \in Objs, NewObject(t, p) PROVE ObjectsOK'
  BY <1>1 DEF NewObject
<1>2. ASSUME NEW t \in Owners, NEW p \in Objs, MutateBegin(t, p) PROVE ObjectsOK'
  BY <1>2 DEF MutateBegin
<1>3. ASSUME NEW t \in Owners, NEW q \in Snaps, NEW p \in Objs, SnapClone(t, q, p) PROVE ObjectsOK'
  BY <1>3 DEF SnapClone
<1>4. ASSUME NEW t \in Owners, GuardLock(t) PROVE ObjectsOK'
  BY <1>4 DEF GuardLock
<1>5. ASSUME NEW t \in Owners, SaveVersion(t) PROVE ObjectsOK'
  <2>1. pc[t] = "save" /\ UNCHANGED <<data, writeEpoch, lastSaveEpoch, cowLock, tracker>>
    BY <1>5 DEF SaveVersion
  <2>2. CASE lastSaveEpoch[obj[t]] >= latestSnapshotCreationEpoch
    BY <1>5, <2>1, <2>2 DEF SaveVersion
  <2>3. CASE ~(lastSaveEpoch[obj[t]] >= latestSnapshotCreationEpoch)
    <3> DEFINE v == [epoch |-> writeEpoch[obj[t]], state |-> data[obj[t]]]
    <3>1. obj[t] \in Objs /\ v \in Version
      BY <2>1, OwnerOn DEF Version
    <3>2. versionChain' = [versionChain EXCEPT ![obj[t]] = <<v>> \o versionChain[obj[t]]]
      BY <1>5, <2>3 DEF SaveVersion
    <3>3. <<v>> \o versionChain[obj[t]] \in Seq(Version)
      BY <3>1, Saved
    <3> QED
      BY <2>1, <3>1, <3>2, <3>3
  <2> QED
    BY <2>2, <2>3
<1>6. ASSUME NEW t \in Owners, SaveStamp(t) PROVE ObjectsOK'
  BY <1>6 DEF SaveStamp
<1>7. ASSUME NEW t \in Owners, EnsureUnique(t) PROVE ObjectsOK'
  BY <1>7 DEF EnsureUnique
<1>8. ASSUME NEW t \in Owners, Write(t) PROVE ObjectsOK'
  <2>1. pc[t] = "write" /\ UNCHANGED <<writeEpoch, lastSaveEpoch, versionChain, cowLock>>
    BY <1>8 DEF Write
  <2>2. data[obj[t]] + 1 \in Nat
    BY <2>1, OwnerOn
  <2>3. data' = [data EXCEPT ![obj[t]] = data[obj[t]] + 1]
    BY <1>8 DEF Write
  <2> QED
    BY <2>1, <2>2, <2>3
<1>9. ASSUME NEW t \in Owners, MutateThrow(t) PROVE ObjectsOK'
  BY <1>9 DEF MutateThrow
<1>10. ASSUME NEW t \in Owners, Bump(t) PROVE ObjectsOK'
  <2>1. cowLock' \in [Objs -> Threads \union {None}]
    BY <1>10 DEF Bump
  <2>2. writeEpoch' \in [Objs -> Nat]
    BY <1>10 DEF Bump
  <2>3. UNCHANGED <<data, lastSaveEpoch, versionChain>>
    BY <1>10 DEF Bump
  <2> QED
    BY <2>1, <2>2, <2>3
<1>11. ASSUME NEW t \in Owners, SnapEpoch(t) PROVE ObjectsOK'
  BY <1>11 DEF SnapEpoch
<1>12. ASSUME NEW t \in Owners, publishSnapshotEpoch(t) PROVE ObjectsOK'
  BY <1>12 DEF publishSnapshotEpoch
<1>13. ASSUME NEW t \in Owners, SnapTrack(t) PROVE ObjectsOK'
  BY <1>13 DEF SnapTrack
<1>14. ASSUME NEW t \in Owners, SnapCount(t) PROVE ObjectsOK'
  BY <1>14 DEF SnapCount
<1>15. ASSUME NEW r \in Readers, NEW q \in Snaps, NEW p \in Objs, ResolveBegin(r, q,
    p) PROVE ObjectsOK'
  BY <1>15 DEF ResolveBegin
<1>16. ASSUME NEW r \in Readers, ResolveMap(r) PROVE ObjectsOK'
  BY <1>16 DEF ResolveMap
<1>17. ASSUME NEW r \in Readers, ResolveEpoch(r) PROVE ObjectsOK'
  BY <1>17 DEF ResolveEpoch
<1>18. ASSUME NEW r \in Readers, ResolveChain(r) PROVE ObjectsOK'
  BY <1>18 DEF ResolveChain
<1>19. ASSUME NEW r \in Readers, ResolveLocked(r) PROVE ObjectsOK'
  BY <1>19 DEF ResolveLocked
<1>20. ASSUME NEW r \in Readers, ResolveAgain(r) PROVE ObjectsOK'
  BY <1>20 DEF ResolveAgain
<1>21. ASSUME NEW r \in Readers, ResolveInsert(r) PROVE ObjectsOK'
  BY <1>21 DEF ResolveInsert
<1>22. ASSUME NEW q \in Snaps, SnapUntrack(q) PROVE ObjectsOK'
  BY <1>22 DEF SnapUntrack
<1>23. ASSUME NEW q \in Snaps, SnapUncount(q) PROVE ObjectsOK'
  BY <1>23 DEF SnapUncount
<1>24. ASSUME trimVersionChains PROVE ObjectsOK'
  <2> DEFINE k(o) == VersionFor(o, minEpoch)
  <2>1. \A o \in Objs : versionChain'[o] = <<>> \/ versionChain'[o] = versionChain[o]
                         \/ (k(o) \in DOMAIN versionChain[o] /\ versionChain'[o] = SubSeq(versionChain[o], 1, k(o)))
    <3> SUFFICES ASSUME NEW o \in Objs
                 PROVE  \/ versionChain'[o] = <<>> \/ versionChain'[o] = versionChain[o]
                        \/ k(o) \in DOMAIN versionChain[o] /\ versionChain'[o] = SubSeq(versionChain[o], 1, k(o))
      OBVIOUS
    <3>1. versionChain'[o] = IF tracker = {} THEN <<>> ELSE Trimmed(o)
      BY <1>24 DEF trimVersionChains
    <3>2. VersionsFor(o, minEpoch) # {} => k(o) \in DOMAIN versionChain[o]
      BY VersionForFirst DEF VersionsFor
    <3> QED
      BY <3>1, <3>2 DEF Trimmed
  <2>2. ASSUME NEW o \in Objs PROVE versionChain'[o] \in Seq(Version)
    <3>1. CASE k(o) \in DOMAIN versionChain[o] /\ versionChain'[o] = SubSeq(versionChain[o], 1,
        k(o))
      <4>1. versionChain[o] \in Seq(Version) /\ k(o) \in 1..Len(versionChain[o])
        BY <3>1, InChain
      <4> QED
        BY <3>1, <4>1, Kept
    <3>2. CASE versionChain'[o] = <<>>
      BY <3>2
    <3>3. CASE versionChain'[o] = versionChain[o]
      BY <3>3
    <3> QED
      BY <2>1, <3>1, <3>2, <3>3
  <2>3. versionChain' = [o \in Objs |-> IF tracker = {} THEN <<>> ELSE Trimmed(o)]
    BY <1>24 DEF trimVersionChains
  <2>4. versionChain' \in [Objs -> Seq(Version)]
    BY <2>2, <2>3
  <2>5. lastSaveEpoch' \in [Objs -> Nat] /\ UNCHANGED <<data, writeEpoch, cowLock>>
    BY <1>24 DEF trimVersionChains
  <2> QED
    BY <2>4, <2>5
<1>25. ASSUME UNCHANGED vars PROVE ObjectsOK'
  BY <1>25
<1> QED
  BY <1>1, <1>2, <1>3, <1>4, <1>5, <1>6, <1>7, <1>8, <1>9, <1>10, <1>11, <1>12, <1>13, <1>14,
      <1>15, <1>16, <1>17, <1>18, <1>19, <1>20, <1>21, <1>22, <1>23, <1>24, <1>25 DEF Next,
      OwnerStep, ReaderStep

(* The tracker and the chains grow and shrink an element, or a suffix, at a time. *)
LEMMA OrderStep ==
  ASSUME TypeInv, [Next]_vars
  PROVE  OrderInv'
<1> USE DEF TypeInv, TypeOK, GlobalsOK, ObjectsOK, SnapsOK, ThreadsOK, OrderInv, PlaceInv,
    OwnerPlace, ReaderPlace, MutatePC, SnapPC, OwnerPC, ReaderPC, Threads, globalVars, objVars,
    snapVars, cloneVars, vars, Goto, At, Return, CloneCurrent, Release, FromChain
<1>1. ASSUME NEW t \in Owners, NEW p \in Objs, NewObject(t, p) PROVE OrderInv'
  BY <1>1 DEF NewObject
<1>2. ASSUME NEW t \in Owners, NEW p \in Objs, MutateBegin(t, p) PROVE OrderInv'
  BY <1>2 DEF MutateBegin
<1>3. ASSUME NEW t \in Owners, NEW q \in Snaps, NEW p \in Objs, SnapClone(t, q, p) PROVE OrderInv'
  BY <1>3 DEF SnapClone
<1>4. ASSUME NEW t \in Owners, GuardLock(t) PROVE OrderInv'
  BY <1>4 DEF GuardLock
<1>5. ASSUME NEW t \in Owners, SaveVersion(t) PROVE OrderInv'
  <2>1. pc[t] = "save" /\ UNCHANGED <<data, writeEpoch, lastSaveEpoch, cowLock, tracker>>
    BY <1>5 DEF SaveVersion
  <2>2. CASE lastSaveEpoch[obj[t]] >= latestSnapshotCreationEpoch
    BY <1>5, <2>1, <2>2 DEF SaveVersion
  <2>3. CASE ~(lastSaveEpoch[obj[t]] >= latestSnapshotCreationEpoch)
    <3> DEFINE v == [epoch |-> writeEpoch[obj[t]], state |-> data[obj[t]]]
    <3>1. obj[t] \in Objs /\ v \in Version
      BY <2>1, OwnerOn DEF Version
    <3>2. versionChain' = [versionChain EXCEPT ![obj[t]] = <<v>> \o versionChain[obj[t]]]
      BY <1>5, <2>3 DEF SaveVersion
    <3>3. <<v>> \o versionChain[obj[t]] \in Seq(Version)
      BY <3>1, Saved
    <3>4. versionChain[obj[t]] \in Seq(Version)
      BY <3>1
    <3>5. DOMAIN versionChain'[obj[t]] = (DOMAIN versionChain[obj[t]]) \union {Len(versionChain[obj[t]]) + 1}
      <4>1. versionChain'[obj[t]] = <<v>> \o versionChain[obj[t]]
        BY <3>1, <3>2
      <4>2. DOMAIN versionChain'[obj[t]] = 1..(Len(versionChain[obj[t]]) + 1)
        BY <3>1, <3>3, <3>4, <4>1, Saved
      <4> QED
        BY <3>4, <4>2
    <3>6. DOMAIN versionChain[obj[t]] \subseteq Nat /\ Len(versionChain[obj[t]]) + 1 \in Nat
      BY <3>4
    <3>7. WellOrdered(DOMAIN versionChain[obj[t]])
      BY <3>1
    <3>8. WellOrdered(DOMAIN versionChain'[obj[t]])
      <4> DEFINE S == DOMAIN versionChain[obj[t]]
                 x == Len(versionChain[obj[t]]) + 1
      <4>1. S \subseteq Nat /\ x \in Nat /\ WellOrdered(S) /\ DOMAIN versionChain'[obj[t]] = S \union {x}
        BY <3>5, <3>6, <3>7
      <4> HIDE DEF S, x
      <4>2. WellOrdered(S \union {x})
        BY <4>1, WellOrderedAdd
      <4> QED
        BY <4>1, <4>2
    <3>9. \A o \in Objs : o # obj[t] => versionChain'[o] = versionChain[o]
      BY <3>1, <3>2
    <3> QED
      BY <2>1, <3>8, <3>9
  <2> QED
    BY <2>2, <2>3
<1>6. ASSUME NEW t \in Owners, SaveStamp(t) PROVE OrderInv'
  BY <1>6 DEF SaveStamp
<1>7. ASSUME NEW t \in Owners, EnsureUnique(t) PROVE OrderInv'
  BY <1>7 DEF EnsureUnique
<1>8. ASSUME NEW t \in Owners, Write(t) PROVE OrderInv'
  BY <1>8 DEF Write
<1>9. ASSUME NEW t \in Owners, MutateThrow(t) PROVE OrderInv'
  BY <1>9 DEF MutateThrow
<1>10. ASSUME NEW t \in Owners, Bump(t) PROVE OrderInv'
  BY <1>10 DEF Bump
<1>11. ASSUME NEW t \in Owners, SnapEpoch(t) PROVE OrderInv'
  BY <1>11 DEF SnapEpoch
<1>12. ASSUME NEW t \in Owners, publishSnapshotEpoch(t) PROVE OrderInv'
  BY <1>12 DEF publishSnapshotEpoch
<1>13. ASSUME NEW t \in Owners, SnapTrack(t) PROVE OrderInv'
  <2>1. epoch[snap[t]] \in Nat /\ tracker \subseteq Nat /\ tracker' = tracker \union {epoch[snap[t]]}
    BY <1>13 DEF SnapTrack
  <2>2. WellOrdered(tracker')
    BY <2>1, WellOrderedAdd
  <2> QED
    BY <1>13, <2>2 DEF SnapTrack
<1>14. ASSUME NEW t \in Owners, SnapCount(t) PROVE OrderInv'
  BY <1>14 DEF SnapCount
<1>15. ASSUME NEW r \in Readers, NEW q \in Snaps, NEW p \in Objs, ResolveBegin(r, q,
    p) PROVE OrderInv'
  BY <1>15 DEF ResolveBegin
<1>16. ASSUME NEW r \in Readers, ResolveMap(r) PROVE OrderInv'
  BY <1>16 DEF ResolveMap
<1>17. ASSUME NEW r \in Readers, ResolveEpoch(r) PROVE OrderInv'
  BY <1>17 DEF ResolveEpoch
<1>18. ASSUME NEW r \in Readers, ResolveChain(r) PROVE OrderInv'
  BY <1>18 DEF ResolveChain
<1>19. ASSUME NEW r \in Readers, ResolveLocked(r) PROVE OrderInv'
  BY <1>19 DEF ResolveLocked
<1>20. ASSUME NEW r \in Readers, ResolveAgain(r) PROVE OrderInv'
  BY <1>20 DEF ResolveAgain
<1>21. ASSUME NEW r \in Readers, ResolveInsert(r) PROVE OrderInv'
  BY <1>21 DEF ResolveInsert
<1>22. ASSUME NEW q \in Snaps, SnapUntrack(q) PROVE OrderInv'
  <2>1. tracker' = tracker \ {epoch[q]} /\ UNCHANGED versionChain
    BY <1>22 DEF SnapUntrack
  <2> QED
    BY <2>1, WellOrderedSub
<1>23. ASSUME NEW q \in Snaps, SnapUncount(q) PROVE OrderInv'
  BY <1>23 DEF SnapUncount
<1>24. ASSUME trimVersionChains PROVE OrderInv'
  <2> DEFINE k(o) == VersionFor(o, minEpoch)
  <2>1. \A o \in Objs : versionChain'[o] = <<>> \/ versionChain'[o] = versionChain[o]
                         \/ (k(o) \in DOMAIN versionChain[o] /\ versionChain'[o] = SubSeq(versionChain[o], 1, k(o)))
    <3> SUFFICES ASSUME NEW o \in Objs
                 PROVE  \/ versionChain'[o] = <<>> \/ versionChain'[o] = versionChain[o]
                        \/ k(o) \in DOMAIN versionChain[o] /\ versionChain'[o] = SubSeq(versionChain[o], 1, k(o))
      OBVIOUS
    <3>1. versionChain'[o] = IF tracker = {} THEN <<>> ELSE Trimmed(o)
      BY <1>24 DEF trimVersionChains
    <3>2. VersionsFor(o, minEpoch) # {} => k(o) \in DOMAIN versionChain[o]
      BY VersionForFirst DEF VersionsFor
    <3> QED
      BY <3>1, <3>2 DEF Trimmed
  <2>2. \A o \in Objs : (DOMAIN versionChain'[o]) \subseteq (DOMAIN versionChain[o])
    <3> SUFFICES ASSUME NEW o \in Objs
                 PROVE  (DOMAIN versionChain'[o]) \subseteq (DOMAIN versionChain[o])
      OBVIOUS
    <3>1. CASE versionChain'[o] = <<>>
      BY <3>1
    <3>2. CASE versionChain'[o] = versionChain[o]
      BY <3>2
    <3>3. CASE k(o) \in DOMAIN versionChain[o] /\ versionChain'[o] = SubSeq(versionChain[o], 1,
        k(o))
      <4>1. versionChain[o] \in Seq(Version) /\ k(o) \in 1..Len(versionChain[o])
        BY <3>3, InChain
      <4>2. SubSeq(versionChain[o], 1, k(o)) \in Seq(Version) /\ Len(SubSeq(versionChain[o], 1,
          k(o))) = k(o)
        BY <4>1, Kept
      <4> QED
        BY <3>3, <4>1, <4>2
    <3> QED
      BY <2>1, <3>1, <3>2, <3>3
  <2>3. UNCHANGED tracker
    BY <1>24 DEF trimVersionChains
  <2> QED
    BY <2>2, <2>3, WellOrderedSub
<1>25. ASSUME UNCHANGED vars PROVE OrderInv'
  BY <1>25
<1> QED
  BY <1>1, <1>2, <1>3, <1>4, <1>5, <1>6, <1>7, <1>8, <1>9, <1>10, <1>11, <1>12, <1>13, <1>14,
      <1>15, <1>16, <1>17, <1>18, <1>19, <1>20, <1>21, <1>22, <1>23, <1>24, <1>25 DEF Next,
      OwnerStep, ReaderStep

(* A snapshot is counted once and uncounted once. *)
LEMMA CountStep ==
  ASSUME TypeInv, [Next]_vars
  PROVE  CountInv'
<1> USE DEF TypeInv, TypeOK, GlobalsOK, SnapsOK, CountInv, Counted, PlaceInv, OwnerPlace,
    ReaderPlace, MutatePC, SnapPC, OwnerPC, ReaderPC, Threads, globalVars, objVars, snapVars,
    cloneVars, vars, Goto, At, Return, CloneCurrent, Release, FromChain
<1>0. IsFiniteSet(Counted)
  BY ConstantsOK, FS_Subset
<1>1. ASSUME NEW t \in Owners, NEW p \in Objs, NewObject(t, p) PROVE CountInv'
  <2>1. UNCHANGED <<activeSnapshotCount, phase>>
    BY <1>1 DEF NewObject
  <2> QED
    BY <2>1
<1>2. ASSUME NEW t \in Owners, NEW p \in Objs, MutateBegin(t, p) PROVE CountInv'
  <2>1. UNCHANGED <<activeSnapshotCount, phase>>
    BY <1>2 DEF MutateBegin
  <2> QED
    BY <2>1
<1>3. ASSUME NEW t \in Owners, NEW q \in Snaps, NEW p \in Objs, SnapClone(t, q, p) PROVE CountInv'
  <2>1. activeSnapshotCount' = activeSnapshotCount /\ Counted' = Counted
    BY <1>3 DEF SnapClone
  <2> QED
    BY <2>1
<1>4. ASSUME NEW t \in Owners, GuardLock(t) PROVE CountInv'
  <2>1. UNCHANGED <<activeSnapshotCount, phase>>
    BY <1>4 DEF GuardLock
  <2> QED
    BY <2>1
<1>5. ASSUME NEW t \in Owners, SaveVersion(t) PROVE CountInv'
  <2>1. UNCHANGED <<activeSnapshotCount, phase>>
    BY <1>5 DEF SaveVersion
  <2> QED
    BY <2>1
<1>6. ASSUME NEW t \in Owners, SaveStamp(t) PROVE CountInv'
  <2>1. UNCHANGED <<activeSnapshotCount, phase>>
    BY <1>6 DEF SaveStamp
  <2> QED
    BY <2>1
<1>7. ASSUME NEW t \in Owners, EnsureUnique(t) PROVE CountInv'
  <2>1. UNCHANGED <<activeSnapshotCount, phase>>
    BY <1>7 DEF EnsureUnique
  <2> QED
    BY <2>1
<1>8. ASSUME NEW t \in Owners, Write(t) PROVE CountInv'
  <2>1. UNCHANGED <<activeSnapshotCount, phase>>
    BY <1>8 DEF Write
  <2> QED
    BY <2>1
<1>9. ASSUME NEW t \in Owners, MutateThrow(t) PROVE CountInv'
  <2>1. UNCHANGED <<activeSnapshotCount, phase>>
    BY <1>9 DEF MutateThrow
  <2> QED
    BY <2>1
<1>10. ASSUME NEW t \in Owners, Bump(t) PROVE CountInv'
  <2>1. UNCHANGED <<activeSnapshotCount, phase>>
    BY <1>10 DEF Bump
  <2> QED
    BY <2>1
<1>11. ASSUME NEW t \in Owners, SnapEpoch(t) PROVE CountInv'
  <2>1. UNCHANGED <<activeSnapshotCount, phase>>
    BY <1>11 DEF SnapEpoch
  <2> QED
    BY <2>1
<1>12. ASSUME NEW t \in Owners, publishSnapshotEpoch(t) PROVE CountInv'
  <2>1. UNCHANGED <<activeSnapshotCount, phase>>
    BY <1>12 DEF publishSnapshotEpoch
  <2> QED
    BY <2>1
<1>13. ASSUME NEW t \in Owners, SnapTrack(t) PROVE CountInv'
  <2>1. UNCHANGED <<activeSnapshotCount, phase>>
    BY <1>13 DEF SnapTrack
  <2> QED
    BY <2>1
<1>14. ASSUME NEW t \in Owners, SnapCount(t) PROVE CountInv'
  <2>1. Counted' = Counted \union {snap[t]} /\ snap[t] \notin Counted
    BY <1>14 DEF SnapCount
  <2>2. activeSnapshotCount' = activeSnapshotCount + 1
    BY <1>14 DEF SnapCount
  <2>3. Cardinality(Counted \union {snap[t]}) = Cardinality(Counted) + 1
    BY <2>1, <1>0, FS_AddElement
  <2> QED
    BY <2>1, <2>2, <2>3
<1>15. ASSUME NEW r \in Readers, NEW q \in Snaps, NEW p \in Objs, ResolveBegin(r, q,
    p) PROVE CountInv'
  <2>1. UNCHANGED <<activeSnapshotCount, phase>>
    BY <1>15 DEF ResolveBegin
  <2> QED
    BY <2>1
<1>16. ASSUME NEW r \in Readers, ResolveMap(r) PROVE CountInv'
  <2>1. UNCHANGED <<activeSnapshotCount, phase>>
    BY <1>16 DEF ResolveMap
  <2> QED
    BY <2>1
<1>17. ASSUME NEW r \in Readers, ResolveEpoch(r) PROVE CountInv'
  <2>1. UNCHANGED <<activeSnapshotCount, phase>>
    BY <1>17 DEF ResolveEpoch
  <2> QED
    BY <2>1
<1>18. ASSUME NEW r \in Readers, ResolveChain(r) PROVE CountInv'
  <2>1. UNCHANGED <<activeSnapshotCount, phase>>
    BY <1>18 DEF ResolveChain
  <2> QED
    BY <2>1
<1>19. ASSUME NEW r \in Readers, ResolveLocked(r) PROVE CountInv'
  <2>1. UNCHANGED <<activeSnapshotCount, phase>>
    BY <1>19 DEF ResolveLocked
  <2> QED
    BY <2>1
<1>20. ASSUME NEW r \in Readers, ResolveAgain(r) PROVE CountInv'
  <2>1. UNCHANGED <<activeSnapshotCount, phase>>
    BY <1>20 DEF ResolveAgain
  <2> QED
    BY <2>1
<1>21. ASSUME NEW r \in Readers, ResolveInsert(r) PROVE CountInv'
  <2>1. UNCHANGED <<activeSnapshotCount, phase>>
    BY <1>21 DEF ResolveInsert
  <2> QED
    BY <2>1
<1>22. ASSUME NEW q \in Snaps, SnapUntrack(q) PROVE CountInv'
  <2>1. activeSnapshotCount' = activeSnapshotCount /\ Counted' = Counted
    BY <1>22 DEF SnapUntrack
  <2> QED
    BY <2>1
<1>23. ASSUME NEW q \in Snaps, SnapUncount(q) PROVE CountInv'
  <2>1. Counted' = Counted \ {q} /\ q \in Counted
    BY <1>23 DEF SnapUncount
  <2>2. activeSnapshotCount' = activeSnapshotCount - 1
    BY <1>23 DEF SnapUncount
  <2>3. Cardinality(Counted \ {q}) = Cardinality(Counted) - 1
    BY <2>1, <1>0, FS_RemoveElement, ZenonT(120)
  <2> QED
    BY <2>1, <2>2, <2>3
<1>24. ASSUME trimVersionChains PROVE CountInv'
  <2>1. UNCHANGED <<activeSnapshotCount, phase>>
    BY <1>24 DEF trimVersionChains
  <2> QED
    BY <2>1
<1>25. ASSUME UNCHANGED vars PROVE CountInv'
  <2>1. UNCHANGED <<activeSnapshotCount, phase>>
    BY <1>25 DEF vars
  <2> QED
    BY <2>1
<1> QED
  BY <1>1, <1>2, <1>3, <1>4, <1>5, <1>6, <1>7, <1>8, <1>9, <1>10, <1>11, <1>12, <1>13, <1>14,
      <1>15, <1>16, <1>17, <1>18, <1>19, <1>20, <1>21, <1>22, <1>23, <1>24, <1>25 DEF Next,
      OwnerStep, ReaderStep

(* The global counters stay natural numbers. *)
LEMMA GlobalsType ==
  ASSUME TypeInv, CountInv', [Next]_vars
  PROVE  GlobalsOK'
<1> USE DEF TypeInv, TypeOK, GlobalsOK, SnapsOK, ObjectsOK, ThreadsOK, PlaceInv, OwnerPlace,
    ReaderPlace, MutatePC, SnapPC, OwnerPC, ReaderPC, Threads, globalVars, objVars, snapVars,
    cloneVars, vars, Goto, At, Return, CloneCurrent, Release, FromChain
<1>1. ASSUME NEW t \in Owners, NEW p \in Objs, NewObject(t, p) PROVE GlobalsOK'
  BY <1>1 DEF NewObject
<1>2. ASSUME NEW t \in Owners, NEW p \in Objs, MutateBegin(t, p) PROVE GlobalsOK'
  BY <1>2 DEF MutateBegin
<1>3. ASSUME NEW t \in Owners, NEW q \in Snaps, NEW p \in Objs, SnapClone(t, q, p) PROVE GlobalsOK'
  BY <1>3 DEF SnapClone
<1>4. ASSUME NEW t \in Owners, GuardLock(t) PROVE GlobalsOK'
  BY <1>4 DEF GuardLock
<1>5. ASSUME NEW t \in Owners, SaveVersion(t) PROVE GlobalsOK'
  BY <1>5 DEF SaveVersion
<1>6. ASSUME NEW t \in Owners, SaveStamp(t) PROVE GlobalsOK'
  BY <1>6 DEF SaveStamp
<1>7. ASSUME NEW t \in Owners, EnsureUnique(t) PROVE GlobalsOK'
  BY <1>7 DEF EnsureUnique
<1>8. ASSUME NEW t \in Owners, Write(t) PROVE GlobalsOK'
  BY <1>8 DEF Write
<1>9. ASSUME NEW t \in Owners, MutateThrow(t) PROVE GlobalsOK'
  BY <1>9 DEF MutateThrow
<1>10. ASSUME NEW t \in Owners, Bump(t) PROVE GlobalsOK'
  BY <1>10 DEF Bump
<1>11. ASSUME NEW t \in Owners, SnapEpoch(t) PROVE GlobalsOK'
  BY <1>11 DEF SnapEpoch
<1>12. ASSUME NEW t \in Owners, publishSnapshotEpoch(t) PROVE GlobalsOK'
  BY <1>12 DEF publishSnapshotEpoch
<1>13. ASSUME NEW t \in Owners, SnapTrack(t) PROVE GlobalsOK'
  <2>1. pc[t] = "count" \/ pc[t] = "track"
    BY <1>13 DEF SnapTrack
  <2>2. epoch[snap[t]] \in Nat
    BY <2>1
  <2>3. tracker' = tracker \union {epoch[snap[t]]}
    BY <1>13 DEF SnapTrack
  <2>4. UNCHANGED <<globalWriteEpoch, activeSnapshotCount, latestSnapshotCreationEpoch>>
    BY <1>13 DEF SnapTrack
  <2>5. tracker \subseteq Nat
    OBVIOUS
  <2>6. tracker' \subseteq Nat
    BY ONLY <2>2, <2>3, <2>5
  <2> QED
    BY <2>4, <2>6
<1>14. ASSUME NEW t \in Owners, SnapCount(t) PROVE GlobalsOK'
  BY <1>14 DEF SnapCount
<1>15. ASSUME NEW r \in Readers, NEW q \in Snaps, NEW p \in Objs, ResolveBegin(r, q,
    p) PROVE GlobalsOK'
  BY <1>15 DEF ResolveBegin
<1>16. ASSUME NEW r \in Readers, ResolveMap(r) PROVE GlobalsOK'
  BY <1>16 DEF ResolveMap
<1>17. ASSUME NEW r \in Readers, ResolveEpoch(r) PROVE GlobalsOK'
  BY <1>17 DEF ResolveEpoch
<1>18. ASSUME NEW r \in Readers, ResolveChain(r) PROVE GlobalsOK'
  BY <1>18 DEF ResolveChain
<1>19. ASSUME NEW r \in Readers, ResolveLocked(r) PROVE GlobalsOK'
  BY <1>19 DEF ResolveLocked
<1>20. ASSUME NEW r \in Readers, ResolveAgain(r) PROVE GlobalsOK'
  BY <1>20 DEF ResolveAgain
<1>21. ASSUME NEW r \in Readers, ResolveInsert(r) PROVE GlobalsOK'
  BY <1>21 DEF ResolveInsert
<1>22. ASSUME NEW q \in Snaps, SnapUntrack(q) PROVE GlobalsOK'
  BY <1>22 DEF SnapUntrack
<1>23. ASSUME NEW q \in Snaps, SnapUncount(q) PROVE GlobalsOK'
  <2>1. IsFiniteSet(Counted')
    BY ConstantsOK, FS_Subset DEF Counted
  <2>2. activeSnapshotCount' \in Nat
    BY <2>1, FS_CardinalityType DEF CountInv
  <2> QED
    BY <1>23, <2>2 DEF SnapUncount
<1>24. ASSUME trimVersionChains PROVE GlobalsOK'
  BY <1>24 DEF trimVersionChains
<1>25. ASSUME UNCHANGED vars PROVE GlobalsOK'
  BY <1>25
<1> QED
  BY <1>1, <1>2, <1>3, <1>4, <1>5, <1>6, <1>7, <1>8, <1>9, <1>10, <1>11, <1>12, <1>13, <1>14,
      <1>15, <1>16, <1>17, <1>18, <1>19, <1>20, <1>21, <1>22, <1>23, <1>24, <1>25 DEF Next,
      OwnerStep, ReaderStep

(* Init establishes the types. *)
LEMMA InitType ==
  ASSUME Init PROVE TypeInv
<1>1. GlobalsOK /\ ObjectsOK
  BY DEF Init, GlobalsOK, ObjectsOK
<1>2. SnapsOK /\ ClonesOK
  BY DEF Init, SnapsOK, ClonesOK
<1>3. ThreadsOK
  BY DEF Init, ThreadsOK, OwnerPC
<1>4. OrderInv
  BY DEF Init, OrderInv, WellOrdered
<1>5. PlaceInv
  BY DEF Init, PlaceInv, OwnerPlace, ReaderPlace, OwnerPC, ReaderPC, MutatePC, SnapPC, Threads
<1>6. CountInv
  <2>1. Counted = {} /\ activeSnapshotCount = 0
    BY DEF Init, Counted
  <2> QED
    BY <2>1, FS_EmptySet DEF CountInv
<1> QED
  BY <1>1, <1>2, <1>3, <1>4, <1>5, <1>6 DEF TypeInv, TypeOK, WorldOK, Init

(* No step changes the world. *)
LEMMA WorldStep ==
  ASSUME TypeInv, [Next]_vars
  PROVE  world' = world
<1> USE DEF globalVars, objVars, snapVars, cloneVars, vars, Goto, At, Return, CloneCurrent,
    Release, FromChain
<1>1. ASSUME NEW t \in Owners, NEW p \in Objs, NewObject(t, p) PROVE world' = world
  BY <1>1 DEF NewObject
<1>2. ASSUME NEW t \in Owners, NEW p \in Objs, MutateBegin(t, p) PROVE world' = world
  BY <1>2 DEF MutateBegin
<1>3. ASSUME NEW t \in Owners, NEW q \in Snaps, NEW p \in Objs, SnapClone(t, q,
    p) PROVE world' = world
  BY <1>3 DEF SnapClone
<1>4. ASSUME NEW t \in Owners, GuardLock(t) PROVE world' = world
  BY <1>4 DEF GuardLock
<1>5. ASSUME NEW t \in Owners, SaveVersion(t) PROVE world' = world
  BY <1>5 DEF SaveVersion
<1>6. ASSUME NEW t \in Owners, SaveStamp(t) PROVE world' = world
  BY <1>6 DEF SaveStamp
<1>7. ASSUME NEW t \in Owners, EnsureUnique(t) PROVE world' = world
  BY <1>7 DEF EnsureUnique
<1>8. ASSUME NEW t \in Owners, Write(t) PROVE world' = world
  BY <1>8 DEF Write
<1>9. ASSUME NEW t \in Owners, MutateThrow(t) PROVE world' = world
  BY <1>9 DEF MutateThrow
<1>10. ASSUME NEW t \in Owners, Bump(t) PROVE world' = world
  BY <1>10 DEF Bump
<1>11. ASSUME NEW t \in Owners, SnapEpoch(t) PROVE world' = world
  BY <1>11 DEF SnapEpoch
<1>12. ASSUME NEW t \in Owners, publishSnapshotEpoch(t) PROVE world' = world
  BY <1>12 DEF publishSnapshotEpoch
<1>13. ASSUME NEW t \in Owners, SnapTrack(t) PROVE world' = world
  BY <1>13 DEF SnapTrack
<1>14. ASSUME NEW t \in Owners, SnapCount(t) PROVE world' = world
  BY <1>14 DEF SnapCount
<1>15. ASSUME NEW r \in Readers, NEW q \in Snaps, NEW p \in Objs, ResolveBegin(r, q,
    p) PROVE world' = world
  BY <1>15 DEF ResolveBegin
<1>16. ASSUME NEW r \in Readers, ResolveMap(r) PROVE world' = world
  BY <1>16 DEF ResolveMap
<1>17. ASSUME NEW r \in Readers, ResolveEpoch(r) PROVE world' = world
  BY <1>17 DEF ResolveEpoch
<1>18. ASSUME NEW r \in Readers, ResolveChain(r) PROVE world' = world
  BY <1>18 DEF ResolveChain
<1>19. ASSUME NEW r \in Readers, ResolveLocked(r) PROVE world' = world
  BY <1>19 DEF ResolveLocked
<1>20. ASSUME NEW r \in Readers, ResolveAgain(r) PROVE world' = world
  BY <1>20 DEF ResolveAgain
<1>21. ASSUME NEW r \in Readers, ResolveInsert(r) PROVE world' = world
  BY <1>21 DEF ResolveInsert
<1>22. ASSUME NEW q \in Snaps, SnapUntrack(q) PROVE world' = world
  BY <1>22 DEF SnapUntrack
<1>23. ASSUME NEW q \in Snaps, SnapUncount(q) PROVE world' = world
  BY <1>23 DEF SnapUncount
<1>24. ASSUME trimVersionChains PROVE world' = world
  BY <1>24 DEF trimVersionChains
<1>25. ASSUME UNCHANGED vars PROVE world' = world
  BY <1>25
<1> QED
  BY <1>1, <1>2, <1>3, <1>4, <1>5, <1>6, <1>7, <1>8, <1>9, <1>10, <1>11, <1>12, <1>13, <1>14,
      <1>15, <1>16, <1>17, <1>18, <1>19, <1>20, <1>21, <1>22, <1>23, <1>24, <1>25 DEF Next,
      OwnerStep, ReaderStep

(* Every step keeps the types. *)
LEMMA TypeStep ==
  ASSUME TypeInv, [Next]_vars PROVE TypeInv'
<1>1. ObjectsOK' /\ SnapsOK' /\ ClonesOK' /\ ThreadsOK'
  BY ObjectsType, SnapsType, ClonesType, ThreadsType
<1>2. CountInv'
  BY CountStep
<1>3. GlobalsOK'
  BY <1>2, GlobalsType
<1>4. WorldOK'
  BY WorldStep DEF TypeInv, WorldOK
<1>5. PlaceInv'
  BY OwnerPlaceStep, ReaderPlaceStep DEF PlaceInv
<1> QED
  BY <1>1, <1>2, <1>3, <1>4, <1>5, OrderStep DEF TypeInv, TypeOK

(* Every variable keeps its type.  That activeSnapshotCount never goes below
   zero is what needs an argument: it is the number of snapshots counted and
   not yet uncounted, so the death of a snapshot finds it positive. *)
THEOREM TypeCorrect == Spec => []TypeOK
<1>1. Init => TypeInv
  BY InitType
<1>2. TypeInv /\ [Next]_vars => TypeInv'
  BY TypeStep
<1>3. TypeInv => TypeOK
  BY DEF TypeInv
<1> QED
  BY <1>1, <1>2, <1>3, PTL DEF Spec

-----------------------------------------------------------------------------
(* Epochs *)

(* Epochs are handed out in increasing order. *)
LEMMA GlobalEpochsStep ==
  ASSUME TypeInv, EpochInv, [Next]_vars
  PROVE  GlobalEpochs'
<1> USE DEF TypeInv, TypeOK, GlobalsOK, ObjectsOK, SnapsOK, ThreadsOK, PlaceInv, OwnerPlace,
    ReaderPlace, MutatePC, SnapPC, OwnerPC, ReaderPC, Threads, globalVars, objVars, snapVars,
    cloneVars, vars, Goto, At, Return, CloneCurrent, Release, FromChain, EpochInv, GlobalEpochs,
    SnapEpochs, MakerEpochs
<1>1. ASSUME NEW t \in Owners, NEW p \in Objs, NewObject(t, p) PROVE GlobalEpochs'
  BY <1>1 DEF NewObject
<1>2. ASSUME NEW t \in Owners, NEW p \in Objs, MutateBegin(t, p) PROVE GlobalEpochs'
  BY <1>2 DEF MutateBegin
<1>3. ASSUME NEW t \in Owners, NEW q \in Snaps, NEW p \in Objs, SnapClone(t, q,
    p) PROVE GlobalEpochs'
  BY <1>3 DEF SnapClone
<1>4. ASSUME NEW t \in Owners, GuardLock(t) PROVE GlobalEpochs'
  BY <1>4 DEF GuardLock
<1>5. ASSUME NEW t \in Owners, SaveVersion(t) PROVE GlobalEpochs'
  BY <1>5 DEF SaveVersion
<1>6. ASSUME NEW t \in Owners, SaveStamp(t) PROVE GlobalEpochs'
  BY <1>6 DEF SaveStamp
<1>7. ASSUME NEW t \in Owners, EnsureUnique(t) PROVE GlobalEpochs'
  BY <1>7 DEF EnsureUnique
<1>8. ASSUME NEW t \in Owners, Write(t) PROVE GlobalEpochs'
  BY <1>8 DEF Write
<1>9. ASSUME NEW t \in Owners, MutateThrow(t) PROVE GlobalEpochs'
  BY <1>9 DEF MutateThrow
<1>10. ASSUME NEW t \in Owners, Bump(t) PROVE GlobalEpochs'
  BY <1>10 DEF Bump
<1>11. ASSUME NEW t \in Owners, SnapEpoch(t) PROVE GlobalEpochs'
  BY <1>11 DEF SnapEpoch
<1>12. ASSUME NEW t \in Owners, publishSnapshotEpoch(t) PROVE GlobalEpochs'
  BY <1>12 DEF publishSnapshotEpoch
<1>13. ASSUME NEW t \in Owners, SnapTrack(t) PROVE GlobalEpochs'
  BY <1>13 DEF SnapTrack
<1>14. ASSUME NEW t \in Owners, SnapCount(t) PROVE GlobalEpochs'
  BY <1>14 DEF SnapCount
<1>15. ASSUME NEW r \in Readers, NEW q \in Snaps, NEW p \in Objs, ResolveBegin(r, q,
    p) PROVE GlobalEpochs'
  BY <1>15 DEF ResolveBegin
<1>16. ASSUME NEW r \in Readers, ResolveMap(r) PROVE GlobalEpochs'
  BY <1>16 DEF ResolveMap
<1>17. ASSUME NEW r \in Readers, ResolveEpoch(r) PROVE GlobalEpochs'
  BY <1>17 DEF ResolveEpoch
<1>18. ASSUME NEW r \in Readers, ResolveChain(r) PROVE GlobalEpochs'
  BY <1>18 DEF ResolveChain
<1>19. ASSUME NEW r \in Readers, ResolveLocked(r) PROVE GlobalEpochs'
  BY <1>19 DEF ResolveLocked
<1>20. ASSUME NEW r \in Readers, ResolveAgain(r) PROVE GlobalEpochs'
  BY <1>20 DEF ResolveAgain
<1>21. ASSUME NEW r \in Readers, ResolveInsert(r) PROVE GlobalEpochs'
  BY <1>21 DEF ResolveInsert
<1>22. ASSUME NEW q \in Snaps, SnapUntrack(q) PROVE GlobalEpochs'
  BY <1>22 DEF SnapUntrack
<1>23. ASSUME NEW q \in Snaps, SnapUncount(q) PROVE GlobalEpochs'
  BY <1>23 DEF SnapUncount
<1>24. ASSUME trimVersionChains PROVE GlobalEpochs'
  BY <1>24 DEF trimVersionChains
<1>25. ASSUME UNCHANGED vars PROVE GlobalEpochs'
  BY <1>25
<1> QED
  BY <1>1, <1>2, <1>3, <1>4, <1>5, <1>6, <1>7, <1>8, <1>9, <1>10, <1>11, <1>12, <1>13, <1>14,
      <1>15, <1>16, <1>17, <1>18, <1>19, <1>20, <1>21, <1>22, <1>23, <1>24, <1>25 DEF Next,
      OwnerStep, ReaderStep

(* A live snapshot's epoch is published and tracked. *)
LEMMA SnapEpochsStep ==
  ASSUME TypeInv, EpochInv, NEW s \in Snaps, [Next]_vars
  PROVE  SnapEpochs(s)'
<1> USE DEF TypeInv, TypeOK, GlobalsOK, ObjectsOK, SnapsOK, ThreadsOK, PlaceInv, OwnerPlace,
    ReaderPlace, MutatePC, SnapPC, OwnerPC, ReaderPC, Threads, globalVars, objVars, snapVars,
    cloneVars, vars, Goto, At, Return, CloneCurrent, Release, FromChain, EpochInv, GlobalEpochs,
    SnapEpochs, MakerEpochs
<1>1. ASSUME NEW t \in Owners, NEW p \in Objs, NewObject(t, p) PROVE SnapEpochs(s)'
  BY <1>1 DEF NewObject
<1>2. ASSUME NEW t \in Owners, NEW p \in Objs, MutateBegin(t, p) PROVE SnapEpochs(s)'
  BY <1>2 DEF MutateBegin
<1>3. ASSUME NEW t \in Owners, NEW q \in Snaps, NEW p \in Objs, SnapClone(t, q,
    p) PROVE SnapEpochs(s)'
  BY <1>3 DEF SnapClone
<1>4. ASSUME NEW t \in Owners, GuardLock(t) PROVE SnapEpochs(s)'
  BY <1>4 DEF GuardLock
<1>5. ASSUME NEW t \in Owners, SaveVersion(t) PROVE SnapEpochs(s)'
  BY <1>5 DEF SaveVersion
<1>6. ASSUME NEW t \in Owners, SaveStamp(t) PROVE SnapEpochs(s)'
  BY <1>6 DEF SaveStamp
<1>7. ASSUME NEW t \in Owners, EnsureUnique(t) PROVE SnapEpochs(s)'
  BY <1>7 DEF EnsureUnique
<1>8. ASSUME NEW t \in Owners, Write(t) PROVE SnapEpochs(s)'
  BY <1>8 DEF Write
<1>9. ASSUME NEW t \in Owners, MutateThrow(t) PROVE SnapEpochs(s)'
  BY <1>9 DEF MutateThrow
<1>10. ASSUME NEW t \in Owners, Bump(t) PROVE SnapEpochs(s)'
  BY <1>10 DEF Bump
<1>11. ASSUME NEW t \in Owners, SnapEpoch(t) PROVE SnapEpochs(s)'
  BY <1>11 DEF SnapEpoch
<1>12. ASSUME NEW t \in Owners, publishSnapshotEpoch(t) PROVE SnapEpochs(s)'
  BY <1>12 DEF publishSnapshotEpoch
<1>13. ASSUME NEW t \in Owners, SnapTrack(t) PROVE SnapEpochs(s)'
  BY <1>13 DEF SnapTrack
<1>14. ASSUME NEW t \in Owners, SnapCount(t) PROVE SnapEpochs(s)'
  BY <1>14 DEF SnapCount
<1>15. ASSUME NEW r \in Readers, NEW q \in Snaps, NEW p \in Objs, ResolveBegin(r, q,
    p) PROVE SnapEpochs(s)'
  BY <1>15 DEF ResolveBegin
<1>16. ASSUME NEW r \in Readers, ResolveMap(r) PROVE SnapEpochs(s)'
  BY <1>16 DEF ResolveMap
<1>17. ASSUME NEW r \in Readers, ResolveEpoch(r) PROVE SnapEpochs(s)'
  BY <1>17 DEF ResolveEpoch
<1>18. ASSUME NEW r \in Readers, ResolveChain(r) PROVE SnapEpochs(s)'
  BY <1>18 DEF ResolveChain
<1>19. ASSUME NEW r \in Readers, ResolveLocked(r) PROVE SnapEpochs(s)'
  BY <1>19 DEF ResolveLocked
<1>20. ASSUME NEW r \in Readers, ResolveAgain(r) PROVE SnapEpochs(s)'
  BY <1>20 DEF ResolveAgain
<1>21. ASSUME NEW r \in Readers, ResolveInsert(r) PROVE SnapEpochs(s)'
  BY <1>21 DEF ResolveInsert
<1>22. ASSUME NEW q \in Snaps, SnapUntrack(q) PROVE SnapEpochs(s)'
  BY <1>22 DEF SnapUntrack
<1>23. ASSUME NEW q \in Snaps, SnapUncount(q) PROVE SnapEpochs(s)'
  BY <1>23 DEF SnapUncount
<1>24. ASSUME trimVersionChains PROVE SnapEpochs(s)'
  BY <1>24 DEF trimVersionChains
<1>25. ASSUME UNCHANGED vars PROVE SnapEpochs(s)'
  BY <1>25
<1> QED
  BY <1>1, <1>2, <1>3, <1>4, <1>5, <1>6, <1>7, <1>8, <1>9, <1>10, <1>11, <1>12, <1>13, <1>14,
      <1>15, <1>16, <1>17, <1>18, <1>19, <1>20, <1>21, <1>22, <1>23, <1>24, <1>25 DEF Next,
      OwnerStep, ReaderStep

(* In the order createFrozenSnapshot takes them. *)
LEMMA MakerEpochsStep ==
  ASSUME TypeInv, EpochInv, NEW u \in Owners, [Next]_vars
  PROVE  MakerEpochs(u)'
<1> USE DEF TypeInv, TypeOK, GlobalsOK, ObjectsOK, SnapsOK, ThreadsOK, PlaceInv, OwnerPlace,
    ReaderPlace, MutatePC, SnapPC, OwnerPC, ReaderPC, Threads, globalVars, objVars, snapVars,
    cloneVars, vars, Goto, At, Return, CloneCurrent, Release, FromChain, EpochInv, GlobalEpochs,
    SnapEpochs, MakerEpochs
<1>1. ASSUME NEW t \in Owners, NEW p \in Objs, NewObject(t, p) PROVE MakerEpochs(u)'
  BY <1>1, Apart DEF NewObject
<1>2. ASSUME NEW t \in Owners, NEW p \in Objs, MutateBegin(t, p) PROVE MakerEpochs(u)'
  BY <1>2, Apart DEF MutateBegin
<1>3. ASSUME NEW t \in Owners, NEW q \in Snaps, NEW p \in Objs, SnapClone(t, q,
    p) PROVE MakerEpochs(u)'
  BY <1>3, Apart DEF SnapClone
<1>4. ASSUME NEW t \in Owners, GuardLock(t) PROVE MakerEpochs(u)'
  BY <1>4, Apart DEF GuardLock
<1>5. ASSUME NEW t \in Owners, SaveVersion(t) PROVE MakerEpochs(u)'
  BY <1>5, Apart DEF SaveVersion
<1>6. ASSUME NEW t \in Owners, SaveStamp(t) PROVE MakerEpochs(u)'
  BY <1>6, Apart DEF SaveStamp
<1>7. ASSUME NEW t \in Owners, EnsureUnique(t) PROVE MakerEpochs(u)'
  BY <1>7, Apart DEF EnsureUnique
<1>8. ASSUME NEW t \in Owners, Write(t) PROVE MakerEpochs(u)'
  BY <1>8, Apart DEF Write
<1>9. ASSUME NEW t \in Owners, MutateThrow(t) PROVE MakerEpochs(u)'
  BY <1>9, Apart DEF MutateThrow
<1>10. ASSUME NEW t \in Owners, Bump(t) PROVE MakerEpochs(u)'
  BY <1>10, Apart DEF Bump
<1>11. ASSUME NEW t \in Owners, SnapEpoch(t) PROVE MakerEpochs(u)'
  BY <1>11, Apart DEF SnapEpoch
<1>12. ASSUME NEW t \in Owners, publishSnapshotEpoch(t) PROVE MakerEpochs(u)'
  BY <1>12, Apart DEF publishSnapshotEpoch
<1>13. ASSUME NEW t \in Owners, SnapTrack(t) PROVE MakerEpochs(u)'
  BY <1>13, Apart DEF SnapTrack
<1>14. ASSUME NEW t \in Owners, SnapCount(t) PROVE MakerEpochs(u)'
  BY <1>14, Apart DEF SnapCount
<1>15. ASSUME NEW r \in Readers, NEW q \in Snaps, NEW p \in Objs, ResolveBegin(r, q,
    p) PROVE MakerEpochs(u)'
  BY <1>15, Apart DEF ResolveBegin
<1>16. ASSUME NEW r \in Readers, ResolveMap(r) PROVE MakerEpochs(u)'
  BY <1>16, Apart DEF ResolveMap
<1>17. ASSUME NEW r \in Readers, ResolveEpoch(r) PROVE MakerEpochs(u)'
  BY <1>17, Apart DEF ResolveEpoch
<1>18. ASSUME NEW r \in Readers, ResolveChain(r) PROVE MakerEpochs(u)'
  BY <1>18, Apart DEF ResolveChain
<1>19. ASSUME NEW r \in Readers, ResolveLocked(r) PROVE MakerEpochs(u)'
  BY <1>19, Apart DEF ResolveLocked
<1>20. ASSUME NEW r \in Readers, ResolveAgain(r) PROVE MakerEpochs(u)'
  BY <1>20, Apart DEF ResolveAgain
<1>21. ASSUME NEW r \in Readers, ResolveInsert(r) PROVE MakerEpochs(u)'
  BY <1>21, Apart DEF ResolveInsert
<1>22. ASSUME NEW q \in Snaps, SnapUntrack(q) PROVE MakerEpochs(u)'
  BY <1>22, Apart DEF SnapUntrack
<1>23. ASSUME NEW q \in Snaps, SnapUncount(q) PROVE MakerEpochs(u)'
  BY <1>23, Apart DEF SnapUncount
<1>24. ASSUME trimVersionChains PROVE MakerEpochs(u)'
  BY <1>24, Apart DEF trimVersionChains
<1>25. ASSUME UNCHANGED vars PROVE MakerEpochs(u)'
  BY <1>25, Apart
<1> QED
  BY <1>1, <1>2, <1>3, <1>4, <1>5, <1>6, <1>7, <1>8, <1>9, <1>10, <1>11, <1>12, <1>13, <1>14,
      <1>15, <1>16, <1>17, <1>18, <1>19, <1>20, <1>21, <1>22, <1>23, <1>24, <1>25 DEF Next,
      OwnerStep, ReaderStep

(* A reader changes nothing the owners see: the objects, the promises, and
   where owners are. *)
LEMMA ReaderFrame ==
  ASSUME TypeInv, NEW r \in Readers, ReaderStep(r)
  PROVE  /\ UNCHANGED <<globalVars, objVars, phase, epoch, asOf>>
         /\ \A t \in Owners : /\ pc'[t] = pc[t] /\ obj'[t] = obj[t]
                               /\ snap'[t] = snap[t] /\ guard'[t] = guard[t]
<1> DEFINE Same == \A t \in Owners : /\ pc'[t] = pc[t] /\ obj'[t] = obj[t]
                                      /\ snap'[t] = snap[t] /\ guard'[t] = guard[t]
<1> USE DEF TypeInv, TypeOK, ThreadsOK, Threads, globalVars, objVars, snapVars, cloneVars, vars,
    Goto, At, Return, CloneCurrent
<1>1. ASSUME NEW q \in Snaps, NEW p \in Objs, ResolveBegin(r, q, p) PROVE Same
  BY <1>1, Apart DEF ResolveBegin
<1>2. ASSUME ResolveMap(r) PROVE Same
  <2>1. CASE cloneMap[snap[r]][obj[r]] # None
    <3>1. Return(r)
      BY <1>2, <2>1 DEF ResolveMap
    <3> QED
      BY <3>1, Apart
  <2>2. CASE cloneMap[snap[r]][obj[r]] = None
    BY <1>2, <2>2, Apart DEF ResolveMap
  <2> QED
    BY <2>1, <2>2
<1>3. ASSUME ResolveEpoch(r) PROVE Same
  BY <1>3, Apart DEF ResolveEpoch
<1>4. ASSUME ResolveChain(r) PROVE Same
  <2>1. \E l : pc' = [pc EXCEPT ![r] = l]
    BY <1>4 DEF ResolveChain, FromChain
  <2> QED
    BY <1>4, <2>1, Apart DEF ResolveChain
<1>5. ASSUME ResolveLocked(r) PROVE Same
  <2>1. \E l : pc' = [pc EXCEPT ![r] = l]
    BY <1>5 DEF ResolveLocked, FromChain
  <2> QED
    BY <1>5, <2>1, Apart DEF ResolveLocked
<1>6. ASSUME ResolveAgain(r) PROVE Same
  <2>1. \E l : pc' = [pc EXCEPT ![r] = l]
    BY <1>6 DEF ResolveAgain, FromChain
  <2> QED
    BY <1>6, <2>1, Apart DEF ResolveAgain
<1>7. ASSUME ResolveInsert(r) PROVE Same
  BY <1>7, Apart DEF ResolveInsert
<1>8. Same
  BY <1>1, <1>2, <1>3, <1>4, <1>5, <1>6, <1>7 DEF ReaderStep
<1>9. UNCHANGED <<globalVars, objVars, phase, epoch, asOf>>
  BY DEF ReaderStep, ResolveBegin, ResolveMap, ResolveEpoch, ResolveChain, ResolveLocked,
      ResolveAgain, ResolveInsert, snapVars
<1> QED
  BY <1>8, <1>9

(* An owner moves no other thread. *)
LEMMA OwnerFrame ==
  ASSUME TypeInv, NEW t \in Owners, OwnerStep(t)
  PROVE  \A u \in Threads \ {t} : /\ pc'[u] = pc[u] /\ obj'[u] = obj[u]
                                 /\ snap'[u] = snap[u] /\ guard'[u] = guard[u]
<1> DEFINE Same == \A u \in Threads \ {t} : /\ pc'[u] = pc[u] /\ obj'[u] = obj[u]
                                           /\ snap'[u] = snap[u] /\ guard'[u] = guard[u]
<1> USE DEF TypeInv, TypeOK, ThreadsOK, globalVars, objVars, snapVars, cloneVars, vars, Goto, At,
    Return
<1>1. ASSUME NEW p \in Objs, NewObject(t, p) PROVE Same
  BY <1>1 DEF NewObject
<1>2. ASSUME NEW p \in Objs, MutateBegin(t, p) PROVE Same
  BY <1>2 DEF MutateBegin
<1>3. ASSUME NEW q \in Snaps, NEW p \in Objs, SnapClone(t, q, p) PROVE Same
  BY <1>3 DEF SnapClone
<1>4. ASSUME GuardLock(t) PROVE Same
  BY <1>4 DEF GuardLock
<1>5. ASSUME SaveVersion(t) PROVE Same
  BY <1>5 DEF SaveVersion
<1>6. ASSUME SaveStamp(t) PROVE Same
  BY <1>6 DEF SaveStamp
<1>7. ASSUME EnsureUnique(t) PROVE Same
  BY <1>7 DEF EnsureUnique
<1>8. ASSUME Write(t) PROVE Same
  BY <1>8 DEF Write
<1>9. ASSUME MutateThrow(t) PROVE Same
  BY <1>9 DEF MutateThrow
<1>10. ASSUME Bump(t) PROVE Same
  BY <1>10 DEF Bump
<1>11. ASSUME SnapEpoch(t) PROVE Same
  BY <1>11 DEF SnapEpoch
<1>12. ASSUME publishSnapshotEpoch(t) PROVE Same
  BY <1>12 DEF publishSnapshotEpoch
<1>13. ASSUME SnapTrack(t) PROVE Same
  BY <1>13 DEF SnapTrack
<1>14. ASSUME SnapCount(t) PROVE Same
  BY <1>14 DEF SnapCount
<1> QED
  BY <1>1, <1>2, <1>3, <1>4, <1>5, <1>6, <1>7, <1>8, <1>9, <1>10, <1>11, <1>12, <1>13,
      <1>14 DEF OwnerStep

(* A mutator is guarded when a snapshot is counted. *)
LEMMA Begun ==
  ASSUME TypeInv, Guarded = Objs, NEW t \in Owners, NEW p \in Objs, MutateBegin(t, p)
  PROVE  /\ pc[t] = "idle" /\ world.owner[p] = t /\ data[p] >= 0 /\ obj'[t] = p
         /\ activeSnapshotCount = 0 => pc'[t] = "unique" /\ ~guard'[t]
         /\ activeSnapshotCount # 0 => pc'[t] = "lock" /\ guard'[t]
<1> USE DEF TypeInv, TypeOK, ThreadsOK, Threads, MutateBegin, At, Goto
<1>1. pc[t] = "idle" /\ world.owner[p] = t /\ data[p] >= 0 /\ obj'[t] = p
  BY ConstantsOK DEF WorldOK
<1>2. guard'[t] = (activeSnapshotCount > 0)
  OBVIOUS
<1>3. /\ activeSnapshotCount = 0 => pc'[t] = "unique"
      /\ activeSnapshotCount # 0 => pc'[t] = "lock"
  OBVIOUS
<1>4. activeSnapshotCount # 0 => activeSnapshotCount > 0
  BY DEF GlobalsOK
<1>5. activeSnapshotCount = 0 => ~(activeSnapshotCount > 0)
  OBVIOUS
<1> HIDE DEF TypeInv, TypeOK, ThreadsOK, Threads, MutateBegin, At, Goto
<1> QED
  BY <1>1, <1>2, <1>3, <1>4, <1>5, Zenon

(* While a snapshot is made its owner does nothing else. *)
LEMMA MadeStep ==
  ASSUME TypeInv, MadeInv, NEW s \in Snaps, NEW o \in Objs, [Next]_vars
  PROVE  Made(s, o)'
<1> USE DEF TypeInv, TypeOK, GlobalsOK, ObjectsOK, SnapsOK, ThreadsOK, PlaceInv, OwnerPlace,
    ReaderPlace, MutatePC, SnapPC, OwnerPC, ReaderPC, Threads, globalVars, objVars, snapVars,
    cloneVars, vars, Goto, At, Return, CloneCurrent, Release, FromChain, MadeInv, Made, WorldOK
<1>0. world.owner[o] \in Owners
  BY ConstantsOK
<1>1. ASSUME NEW t \in Owners, NEW p \in Objs, NewObject(t, p) PROVE Made(s, o)'
  BY <1>1, Apart, <1>0 DEF NewObject
<1>2. ASSUME NEW t \in Owners, NEW p \in Objs, MutateBegin(t, p) PROVE Made(s, o)'
  BY <1>2, Apart, <1>0 DEF MutateBegin
<1>3. ASSUME NEW t \in Owners, NEW q \in Snaps, NEW p \in Objs, SnapClone(t, q, p) PROVE Made(s, o)'
  BY <1>3, Apart, <1>0 DEF SnapClone
<1>4. ASSUME NEW t \in Owners, GuardLock(t) PROVE Made(s, o)'
  BY <1>4, Apart, <1>0 DEF GuardLock
<1>5. ASSUME NEW t \in Owners, SaveVersion(t) PROVE Made(s, o)'
  <2>1. pc[t] = "save" /\ UNCHANGED <<data, phase, asOf, snap, world>>
    BY <1>5 DEF SaveVersion
  <2>2. \A u \in Owners \ {t} : pc'[u] = pc[u]
    BY <1>5, OwnerFrame, SMTT(60) DEF OwnerStep
  <2>3. phase[s] = "made" /\ asOf[s][o] >= 0 => world.owner[o] # t
    BY <2>1, ZenonT(120)
  <2> QED
    BY <2>1, <2>2, <2>3, <1>0
<1>6. ASSUME NEW t \in Owners, SaveStamp(t) PROVE Made(s, o)'
  BY <1>6, Apart, <1>0 DEF SaveStamp
<1>7. ASSUME NEW t \in Owners, EnsureUnique(t) PROVE Made(s, o)'
  BY <1>7, Apart, <1>0 DEF EnsureUnique
<1>8. ASSUME NEW t \in Owners, Write(t) PROVE Made(s, o)'
  BY <1>8, Apart, <1>0 DEF Write
<1>9. ASSUME NEW t \in Owners, MutateThrow(t) PROVE Made(s, o)'
  <2>1. pc[t] = "write" /\ UNCHANGED <<data, phase, asOf, world>>
    BY <1>9 DEF MutateThrow
  <2>2. \A u \in Owners \ {t} : pc'[u] = pc[u] /\ snap'[u] = snap[u]
    BY <1>9, OwnerFrame DEF OwnerStep
  <2>3. phase[s] = "made" /\ asOf[s][o] >= 0 => world.owner[o] # t
    BY <2>1, ZenonT(120)
  <2> QED
    BY <2>1, <2>2, <2>3, <1>0
<1>10. ASSUME NEW t \in Owners, Bump(t) PROVE Made(s, o)'
  BY <1>10, Apart, <1>0 DEF Bump
<1>11. ASSUME NEW t \in Owners, SnapEpoch(t) PROVE Made(s, o)'
  BY <1>11, Apart, <1>0 DEF SnapEpoch
<1>12. ASSUME NEW t \in Owners, publishSnapshotEpoch(t) PROVE Made(s, o)'
  BY <1>12, Apart, <1>0 DEF publishSnapshotEpoch
<1>13. ASSUME NEW t \in Owners, SnapTrack(t) PROVE Made(s, o)'
  BY <1>13, Apart, <1>0 DEF SnapTrack
<1>14. ASSUME NEW t \in Owners, SnapCount(t) PROVE Made(s, o)'
  BY <1>14, Apart, <1>0 DEF SnapCount
<1>15. ASSUME NEW q \in Snaps, SnapUntrack(q) PROVE Made(s, o)'
  BY <1>15, Apart, <1>0 DEF SnapUntrack
<1>16. ASSUME NEW q \in Snaps, SnapUncount(q) PROVE Made(s, o)'
  BY <1>16, Apart, <1>0 DEF SnapUncount
<1>17. ASSUME trimVersionChains PROVE Made(s, o)'
  BY <1>17, Apart, <1>0 DEF trimVersionChains
<1>18. ASSUME NEW r \in Readers, ReaderStep(r) PROVE Made(s, o)'
  BY <1>18, ReaderFrame, <1>0
<1>19. ASSUME UNCHANGED vars PROVE Made(s, o)'
  BY <1>19, Apart, <1>0
<1> QED
  BY <1>1, <1>2, <1>3, <1>4, <1>5, <1>6, <1>7, <1>8, <1>9, <1>10, <1>11, <1>12, <1>13, <1>14,
      <1>15, <1>16, <1>17, <1>18, <1>19 DEF Next, OwnerStep

(* The spinlock is held by the mutation that took it. *)
LEMMA GuardStep ==
  ASSUME TypeInv, Guarded = Objs, GuardInv, NEW u \in Owners, [Next]_vars
  PROVE  Guards(u)'
<1> USE DEF TypeInv, TypeOK, GlobalsOK, ObjectsOK, SnapsOK, ThreadsOK, PlaceInv, OwnerPlace,
    ReaderPlace, MutatePC, SnapPC, OwnerPC, ReaderPC, Threads, globalVars, objVars, snapVars,
    cloneVars, vars, Goto, At, Return, CloneCurrent, Release, FromChain, GuardInv, Guards
<1>1. ASSUME NEW t \in Owners, NEW p \in Objs, NewObject(t, p) PROVE Guards(u)'
  BY <1>1, Apart DEF NewObject
<1>2. ASSUME NEW t \in Owners, NEW p \in Objs, MutateBegin(t, p) PROVE Guards(u)'
  <2>1. CASE u = t
    BY <1>2, <2>1, Begun
  <2>2. CASE u # t
    <3>1. pc'[u] = pc[u] /\ obj'[u] = obj[u] /\ guard'[u] = guard[u] /\ cowLock' = cowLock
      BY <1>2, <2>2, OwnerFrame DEF OwnerStep, MutateBegin
    <3> QED
      BY <3>1
  <2> QED
    BY <2>1, <2>2
<1>3. ASSUME NEW t \in Owners, NEW q \in Snaps, NEW p \in Objs, SnapClone(t, q, p) PROVE Guards(u)'
  BY <1>3, Apart DEF SnapClone
<1>4. ASSUME NEW t \in Owners, GuardLock(t) PROVE Guards(u)'
  <2>1. CASE u = t
    BY <1>4, <2>1, OwnerOn DEF GuardLock
  <2>2. CASE u # t
    <3>1. pc'[u] = pc[u] /\ obj'[u] = obj[u] /\ guard'[u] = guard[u]
      BY <1>4, <2>2, OwnerFrame DEF OwnerStep
    <3>2. cowLock[obj[t]] = None /\ cowLock' = [cowLock EXCEPT ![obj[t]] = t] /\ u # None
      BY <1>4, ConstantsOK DEF GuardLock
    <3>3. CASE pc[u] \in MutatePC \ {"lock"} /\ guard[u]
      BY <2>2, <3>1, <3>2, <3>3, OwnerOn
    <3> QED
      BY <3>1, <3>3
  <2> QED
    BY <2>1, <2>2
<1>5. ASSUME NEW t \in Owners, SaveVersion(t) PROVE Guards(u)'
  BY <1>5, Apart DEF SaveVersion
<1>6. ASSUME NEW t \in Owners, SaveStamp(t) PROVE Guards(u)'
  BY <1>6, Apart DEF SaveStamp
<1>7. ASSUME NEW t \in Owners, EnsureUnique(t) PROVE Guards(u)'
  BY <1>7, Apart DEF EnsureUnique
<1>8. ASSUME NEW t \in Owners, Write(t) PROVE Guards(u)'
  BY <1>8, Apart DEF Write
<1>9. ASSUME NEW t \in Owners, MutateThrow(t) PROVE Guards(u)'
  BY <1>9, Apart DEF MutateThrow
<1>10. ASSUME NEW t \in Owners, Bump(t) PROVE Guards(u)'
  BY <1>10, Apart DEF Bump
<1>11. ASSUME NEW t \in Owners, SnapEpoch(t) PROVE Guards(u)'
  BY <1>11, Apart DEF SnapEpoch
<1>12. ASSUME NEW t \in Owners, publishSnapshotEpoch(t) PROVE Guards(u)'
  BY <1>12, Apart DEF publishSnapshotEpoch
<1>13. ASSUME NEW t \in Owners, SnapTrack(t) PROVE Guards(u)'
  BY <1>13, Apart DEF SnapTrack
<1>14. ASSUME NEW t \in Owners, SnapCount(t) PROVE Guards(u)'
  BY <1>14, Apart DEF SnapCount
<1>15. ASSUME NEW q \in Snaps, SnapUntrack(q) PROVE Guards(u)'
  BY <1>15, Apart DEF SnapUntrack
<1>16. ASSUME NEW q \in Snaps, SnapUncount(q) PROVE Guards(u)'
  BY <1>16, Apart DEF SnapUncount
<1>17. ASSUME trimVersionChains PROVE Guards(u)'
  BY <1>17, Apart DEF trimVersionChains
<1>18. ASSUME NEW r \in Readers, ReaderStep(r) PROVE Guards(u)'
  BY <1>18, ReaderFrame, SMTT(60)
<1>19. ASSUME UNCHANGED vars PROVE Guards(u)'
  BY <1>19, Apart
<1> QED
  BY <1>1, <1>2, <1>3, <1>4, <1>5, <1>6, <1>7, <1>8, <1>9, <1>10, <1>11, <1>12, <1>13, <1>14,
      <1>15, <1>16, <1>17, <1>18, <1>19 DEF Next, OwnerStep

-----------------------------------------------------------------------------
(* Isolation, where the code protects it: every object is of a type whose
   mutators use a CowGuard, and no world has both mutators that throw and
   snapshots that die. *)
Protected == Guarded = Objs /\ \A w \in Worlds : ~(w.throws /\ w.drops)

(* A stamp at the current epoch has the current state behind it. *)
LEMMA SaveStep ==
  ASSUME TypeInv, Protected, EpochInv, GuardInv, LastingInv, SaveInv, NEW o \in Objs, [Next]_vars
  PROVE  Save(o)'
<1> USE DEF TypeInv, TypeOK, GlobalsOK, ObjectsOK, SnapsOK, ThreadsOK, PlaceInv, OwnerPlace,
    ReaderPlace, MutatePC, SnapPC, OwnerPC, ReaderPC, Threads, globalVars, objVars, snapVars,
    cloneVars, vars, Goto, At, Return, CloneCurrent, Release, FromChain, EpochInv, GlobalEpochs,
    GuardInv, Guards, SaveInv, Save, In, HeadMatch, LastingInv, WorldOK
<1>0. world.owner[o] \in Owners /\ ~(world.throws /\ world.drops) /\ Guarded = Objs
  BY ConstantsOK DEF Protected
<1>1. ASSUME NEW t \in Owners, NEW p \in Objs, NewObject(t, p) PROVE Save(o)'
  BY <1>1, <1>0, SMTT(60) DEF NewObject
<1>2. ASSUME NEW t \in Owners, NEW p \in Objs, MutateBegin(t, p) PROVE Save(o)'
  <2>1. UNCHANGED <<world, globalWriteEpoch, data, writeEpoch, lastSaveEpoch, versionChain,
      activeSnapshotCount>>
    BY <1>2 DEF MutateBegin
  <2>2. \A u \in Owners \ {t} : pc'[u] = pc[u] /\ obj'[u] = obj[u] /\ guard'[u] = guard[u]
    <3>1. OwnerStep(t)
      BY <1>2 DEF OwnerStep
    <3> QED
      BY <3>1, OwnerFrame, SMTT(60)
  <2>3. CASE world.owner[o] # t
    BY <2>1, <2>2, <2>3, <1>0, SMTT(60)
  <2>4. CASE world.owner[o] = t
    <3>1. pc[t] = "idle" /\ obj'[t] = p /\ pc'[t] \in {"unique",
        "lock"} /\ (~guard'[t] => activeSnapshotCount = 0)
      BY <1>2, <1>0, Begun, SMTT(60)
    <3>2. \/ lastSaveEpoch[o] < globalWriteEpoch
          \/ world.throws /\ HeadMatch(o) /\ ~world.drops
      BY <2>4, <3>1, <1>0
    <3>3. activeSnapshotCount = 0 => lastSaveEpoch[o] < globalWriteEpoch
      BY <3>2
    <3> QED
      BY <2>1, <2>4, <3>1, <3>2, <3>3, <1>0
  <2> QED
    BY <2>3, <2>4
<1>3. ASSUME NEW t \in Owners, NEW q \in Snaps, NEW p \in Objs, SnapClone(t, q, p) PROVE Save(o)'
  BY <1>3, <1>0, ZenonT(120) DEF SnapClone
<1>4. ASSUME NEW t \in Owners, GuardLock(t) PROVE Save(o)'
  BY <1>4, <1>0, SMTT(60) DEF GuardLock
<1>5. ASSUME NEW t \in Owners, SaveVersion(t) PROVE Save(o)'
  <2>1. /\ pc[t] = "save" /\ guard[t] /\ obj[t] \in Objs /\ world.owner[obj[t]] = t
        /\ UNCHANGED <<world, globalWriteEpoch, data, writeEpoch, lastSaveEpoch, obj, guard>>
    BY <1>5 DEF SaveVersion
  <2>2. \A u \in Owners \ {t} : pc'[u] = pc[u]
    BY <1>5, OwnerFrame DEF OwnerStep
  <2>3. CASE obj[t] # o
    <3>1. versionChain'[o] = versionChain[o]
      BY <1>5, <2>3 DEF SaveVersion
    <3>2. HeadMatch(o)' = HeadMatch(o)
      BY <2>1, <3>1
    <3>3. CASE world.owner[o] = t
      BY <2>1, <2>3, <3>2, <3>3
    <3>4. CASE world.owner[o] # t
      BY <2>1, <2>2, <3>2, <3>4, <1>0
    <3> QED
      BY <3>3, <3>4
  <2>4. CASE obj[t] = o /\ lastSaveEpoch[o] >= latestSnapshotCreationEpoch
    BY <1>5, <2>1, <2>4, <1>0 DEF SaveVersion
  <2>5. CASE obj[t] = o /\ ~(lastSaveEpoch[o] >= latestSnapshotCreationEpoch)
    <3> DEFINE v == [epoch |-> writeEpoch[o], state |-> data[o]]
    <3>1. v \in Version /\ versionChain[o] \in Seq(Version)
      BY <2>1, <2>5, OwnerOn DEF Version
    <3>2. versionChain'[o] = <<v>> \o versionChain[o] /\ pc'[t] = "stamp"
      BY <1>5, <2>5 DEF SaveVersion
    <3>3. versionChain'[o] # <<>> /\ versionChain'[o][1] = v
      BY <3>1, <3>2, Saved
    <3>4. HeadMatch(o)'
      BY <2>1, <3>3
    <3>5. lastSaveEpoch[o] < globalWriteEpoch \/ (world.throws /\ HeadMatch(o))
      BY <2>1, <2>5
    <3> QED
      BY <2>1, <2>5, <3>2, <3>4, <3>5, <1>0
  <2> QED
    BY <2>3, <2>4, <2>5
<1>6. ASSUME NEW t \in Owners, SaveStamp(t) PROVE Save(o)'
  BY <1>6, <1>0 DEF SaveStamp
<1>7. ASSUME NEW t \in Owners, EnsureUnique(t) PROVE Save(o)'
  BY <1>7, <1>0 DEF EnsureUnique
<1>8. ASSUME NEW t \in Owners, Write(t) PROVE Save(o)'
  BY <1>8, <1>0 DEF Write
<1>9. ASSUME NEW t \in Owners, MutateThrow(t) PROVE Save(o)'
  BY <1>9, <1>0 DEF MutateThrow
<1>10. ASSUME NEW t \in Owners, Bump(t) PROVE Save(o)'
  BY <1>10, <1>0 DEF Bump
<1>11. ASSUME NEW t \in Owners, SnapEpoch(t) PROVE Save(o)'
  BY <1>11, <1>0 DEF SnapEpoch
<1>12. ASSUME NEW t \in Owners, publishSnapshotEpoch(t) PROVE Save(o)'
  BY <1>12, <1>0 DEF publishSnapshotEpoch
<1>13. ASSUME NEW t \in Owners, SnapTrack(t) PROVE Save(o)'
  BY <1>13, <1>0 DEF SnapTrack
<1>14. ASSUME NEW t \in Owners, SnapCount(t) PROVE Save(o)'
  BY <1>14, <1>0 DEF SnapCount
<1>15. ASSUME NEW q \in Snaps, SnapUntrack(q) PROVE Save(o)'
  BY <1>15, <1>0 DEF SnapUntrack
<1>16. ASSUME NEW q \in Snaps, SnapUncount(q) PROVE Save(o)'
  BY <1>16, <1>0 DEF SnapUncount
<1>17. ASSUME trimVersionChains PROVE Save(o)'
  BY <1>17, <1>0 DEF trimVersionChains
<1>18. ASSUME NEW r \in Readers, ReaderStep(r) PROVE Save(o)'
  BY <1>18, ReaderFrame, <1>0, SMTT(60)
<1>19. ASSUME UNCHANGED vars PROVE Save(o)'
  BY <1>19, <1>0
<1> QED
  BY <1>1, <1>2, <1>3, <1>4, <1>5, <1>6, <1>7, <1>8, <1>9, <1>10, <1>11, <1>12, <1>13, <1>14,
      <1>15, <1>16, <1>17, <1>18, <1>19, Zenon DEF Next, OwnerStep

(* Where snapshots never die the count never goes back to zero. *)
LEMMA LastingStep ==
  ASSUME TypeInv, Protected, EpochInv, GuardInv, SaveInv, LastingInv, [Next]_vars
  PROVE  LastingInv'
<1> USE DEF TypeInv, TypeOK, GlobalsOK, ObjectsOK, SnapsOK, ThreadsOK, PlaceInv, OwnerPlace,
    ReaderPlace, MutatePC, SnapPC, OwnerPC, ReaderPC, Threads, globalVars, objVars, snapVars,
    cloneVars, vars, Goto, At, Return, CloneCurrent, Release, FromChain, EpochInv, GlobalEpochs,
    GuardInv, Guards, SaveInv, Save, In, HeadMatch, LastingInv, WorldOK
<1>1. ASSUME NEW t \in Owners, NEW p \in Objs, NewObject(t, p) PROVE LastingInv'
  BY <1>1 DEF NewObject
<1>2. ASSUME NEW t \in Owners, NEW p \in Objs, MutateBegin(t, p) PROVE LastingInv'
  BY <1>2 DEF MutateBegin
<1>3. ASSUME NEW t \in Owners, NEW q \in Snaps, NEW p \in Objs, SnapClone(t, q, p) PROVE LastingInv'
  BY <1>3 DEF SnapClone
<1>4. ASSUME NEW t \in Owners, GuardLock(t) PROVE LastingInv'
  BY <1>4 DEF GuardLock
<1>5. ASSUME NEW t \in Owners, SaveVersion(t) PROVE LastingInv'
  BY <1>5 DEF SaveVersion
<1>6. ASSUME NEW t \in Owners, SaveStamp(t) PROVE LastingInv'
  BY <1>6 DEF SaveStamp
<1>7. ASSUME NEW t \in Owners, EnsureUnique(t) PROVE LastingInv'
  BY <1>7 DEF EnsureUnique
<1>8. ASSUME NEW t \in Owners, Write(t) PROVE LastingInv'
  BY <1>8 DEF Write
<1>9. ASSUME NEW t \in Owners, MutateThrow(t) PROVE LastingInv'
  BY <1>9 DEF MutateThrow
<1>10. ASSUME NEW t \in Owners, Bump(t) PROVE LastingInv'
  BY <1>10 DEF Bump
<1>11. ASSUME NEW t \in Owners, SnapEpoch(t) PROVE LastingInv'
  BY <1>11 DEF SnapEpoch
<1>12. ASSUME NEW t \in Owners, publishSnapshotEpoch(t) PROVE LastingInv'
  BY <1>12 DEF publishSnapshotEpoch
<1>13. ASSUME NEW t \in Owners, SnapTrack(t) PROVE LastingInv'
  BY <1>13 DEF SnapTrack
<1>14. ASSUME NEW t \in Owners, SnapCount(t) PROVE LastingInv'
  BY <1>14 DEF SnapCount
<1>15. ASSUME NEW q \in Snaps, SnapUntrack(q) PROVE LastingInv'
  BY <1>15 DEF SnapUntrack
<1>16. ASSUME NEW q \in Snaps, SnapUncount(q) PROVE LastingInv'
  BY <1>16 DEF SnapUncount
<1>17. ASSUME trimVersionChains PROVE LastingInv'
  BY <1>17 DEF trimVersionChains
<1>18. ASSUME NEW r \in Readers, ReaderStep(r) PROVE LastingInv'
  BY <1>18, ReaderFrame
<1>19. ASSUME UNCHANGED vars PROVE LastingInv'
  BY <1>19
<1> QED
  BY <1>1, <1>2, <1>3, <1>4, <1>5, <1>6, <1>7, <1>8, <1>9, <1>10, <1>11, <1>12, <1>13, <1>14,
      <1>15, <1>16, <1>17, <1>18, <1>19 DEF Next, OwnerStep

(* A live snapshot is counted. *)
LEMMA LiveCounted ==
  ASSUME TypeInv, NEW s \in Snaps, phase[s] = "live"
  PROVE  activeSnapshotCount # 0
<1>1. s \in Counted /\ IsFiniteSet(Counted)
  BY ConstantsOK, FS_Subset DEF Counted
<1>2. Cardinality(Counted) # 0
  BY <1>1, FS_EmptySet
<1> QED
  BY <1>2 DEF TypeInv, CountInv

(* A promise on an object whose owner is not making a snapshot is a live one's. *)
LEMMA NotMade ==
  ASSUME MadeInv, NEW s \in Snaps, NEW o \in Objs, asOf[s][o] >= 0,
         pc[world.owner[o]] \notin SnapPC
  PROVE  phase[s] # "made"
BY DEF MadeInv, Made

(* What the chain holds for a snapshot depends on the chain and the promise. *)
LEMMA ChainKept ==
  ASSUME NEW s, NEW o, versionChain'[o] = versionChain[o], epoch'[s] = epoch[s],
         asOf'[s][o] = asOf[s][o], ChainHas(s, o)
  PROVE  ChainHas(s, o)'
BY DEF ChainHas

(* A version saved in front of a chain leaves what the chain holds for the
   snapshots taken before it, and holds the current state for the others. *)
LEMMA ChainSaved ==
  ASSUME NEW s \in Snaps, NEW o \in Objs, NEW v \in Version,
         versionChain[o] \in Seq(Version), epoch[s] \in Nat,
         versionChain'[o] = <<v>> \o versionChain[o], epoch'[s] = epoch[s],
         asOf'[s][o] = asOf[s][o],
         IF v.epoch < epoch[s] THEN v.state = asOf[s][o] ELSE ChainHas(s, o)
  PROVE  ChainHas(s, o)'
<1>1. versionChain[o] \in Seq(Version) /\ epoch[s] \in Nat /\ v.epoch \in Nat
  BY DEF Version
<1>2. /\ DOMAIN versionChain'[o] = 1..(Len(versionChain[o]) + 1) /\ versionChain'[o][1] = v
      /\ \A i \in 1..Len(versionChain[o]) : versionChain'[o][i + 1] = versionChain[o][i]
      /\ Len(versionChain[o]) \in Nat
  BY <1>1, Saved
<1>3. CASE v.epoch < epoch[s]
  <2>1. 1 \in DOMAIN versionChain'[o] /\ \A j \in DOMAIN versionChain'[o] : ~(j < 1)
    BY <1>2
  <2> QED
    BY <1>2, <1>3, <2>1 DEF ChainHas
<1>4. CASE ~(v.epoch < epoch[s])
  <2>1. PICK i \in DOMAIN versionChain[o] :
          /\ versionChain[o][i].epoch < epoch[s] /\ versionChain[o][i].state = asOf[s][o]
          /\ \A j \in DOMAIN versionChain[o] : j < i => versionChain[o][j].epoch >= epoch[s]
    BY <1>4 DEF ChainHas
  <2>2. DOMAIN versionChain[o] = 1..Len(versionChain[o])
    BY <1>1
  <2>3. i + 1 \in DOMAIN versionChain'[o] /\ versionChain'[o][i + 1] = versionChain[o][i]
    BY <1>2, <2>2
  <2>4. ASSUME NEW j \in DOMAIN versionChain'[o], j < i + 1
        PROVE  versionChain'[o][j].epoch >= epoch[s]
    <3>1. CASE j = 1
      BY <1>1, <1>2, <1>4, <3>1
    <3>2. CASE j # 1
      <4>0. j \in Nat /\ i \in Nat /\ 1 <= j /\ j < i + 1 /\ i <= Len(versionChain[o])
        BY <1>2, <2>1, <2>2, <2>4
      <4>1. j - 1 \in 1..Len(versionChain[o]) /\ j - 1 < i /\ (j - 1) + 1 = j
        BY ONLY <4>0, <3>2, <1>2
      <4>2. versionChain'[o][j] = versionChain[o][j - 1]
        BY <1>2, <4>1
      <4> QED
        BY <2>1, <2>2, <4>1, <4>2
    <3> QED
      BY <3>1, <3>2
  <2> QED
    BY <2>1, <2>3, <2>4 DEF ChainHas
<1> QED
  BY <1>3, <1>4

(* Trimming keeps what the chain holds for a tracked snapshot. *)
LEMMA ChainTrimmed ==
  ASSUME TypeInv, NEW s \in Snaps, NEW o \in Objs, tracker # {}, epoch[s] \in tracker,
         versionChain'[o] = Trimmed(o), epoch'[s] = epoch[s], asOf'[s][o] = asOf[s][o],
         ChainHas(s, o)
  PROVE  ChainHas(s, o)'
<1>1. OrderInv /\ versionChain[o] \in Seq(Version) /\ tracker \subseteq Nat /\ epoch[s] \in Nat
  BY DEF TypeInv, TypeOK, GlobalsOK, ObjectsOK, SnapsOK
<1>2. minEpoch \in Nat /\ minEpoch <= epoch[s]
  BY <1>1, MinEpochFirst
<1>3. CASE VersionsFor(o, minEpoch) = {}
  BY <1>3, ChainKept DEF Trimmed
<1>4. CASE VersionsFor(o, minEpoch) # {}
  <2> DEFINE k == VersionFor(o, minEpoch)
  <2>1. k \in DOMAIN versionChain[o] /\ versionChain[o][k].epoch < minEpoch
    BY <1>1, <1>4, VersionForFirst DEF VersionsFor
  <2>2. k \in 1..Len(versionChain[o]) /\ versionChain[o][k].epoch \in Nat
    BY <1>1, <2>1, InChain
  <2>3. versionChain'[o] = SubSeq(versionChain[o], 1, k)
    BY <1>4 DEF Trimmed
  <2> HIDE DEF k
  <2>4. /\ DOMAIN versionChain'[o] = 1..k
        /\ \A i \in 1..k : versionChain'[o][i] = versionChain[o][i]
    BY <1>1, <2>2, <2>3, Kept
  <2>5. PICK i \in DOMAIN versionChain[o] :
          /\ versionChain[o][i].epoch < epoch[s] /\ versionChain[o][i].state = asOf[s][o]
          /\ \A j \in DOMAIN versionChain[o] : j < i => versionChain[o][j].epoch >= epoch[s]
    BY DEF ChainHas
  <2>6. DOMAIN versionChain[o] = 1..Len(versionChain[o]) /\ Len(versionChain[o]) \in Nat
    BY <1>1
  <2>7. ~(k < i)
    BY <1>1, <1>2, <2>1, <2>2, <2>5
  <2>8. i \in 1..k
    BY <2>2, <2>6, <2>7
  <2>9. ASSUME NEW j \in DOMAIN versionChain'[o], j < i
        PROVE  versionChain'[o][j].epoch >= epoch[s]
    <3>1. j \in 1..k /\ j \in DOMAIN versionChain[o]
      BY <2>2, <2>4, <2>6
    <3> QED
      BY <2>4, <2>5, <2>9, <3>1
  <2>10. /\ i \in DOMAIN versionChain'[o] /\ versionChain'[o][i].epoch < epoch[s]
         /\ versionChain'[o][i].state = asOf[s][o]
    BY <2>4, <2>5, <2>8, SMTT(60)
  <2> QED
    BY <2>9, <2>10 DEF ChainHas
<1> QED
  BY <1>3, <1>4

(* The promised state is the current one until it is overwritten. *)
LEMMA CurrentStep ==
  ASSUME TypeInv, Protected, EpochInv, MadeInv, GuardInv, SaveInv, VersionsInv, NEW s \in Snaps,
      NEW o \in Objs, [Next]_vars
  PROVE  CurrentOK(s, o)'
<1> USE DEF TypeInv, TypeOK, GlobalsOK, ObjectsOK, SnapsOK, ThreadsOK, PlaceInv, OwnerPlace,
    ReaderPlace, MutatePC, SnapPC, OwnerPC, ReaderPC, Threads, globalVars, objVars, snapVars,
    cloneVars, vars, Goto, At, Return, CloneCurrent, Release, FromChain, EpochInv, GlobalEpochs,
    SnapEpochs, MakerEpochs, MadeInv, Made, GuardInv, Guards, SaveInv, Save, In, VersionsInv,
    Covered, CurrentOK, WorldOK
<1>0. world.owner[o] \in Owners /\ ~(world.throws /\ world.drops) /\ Guarded = Objs
  BY ConstantsOK DEF Protected
<1>1. ASSUME NEW t \in Owners, NEW p \in Objs, NewObject(t, p) PROVE CurrentOK(s, o)'
  BY <1>1, <1>0 DEF NewObject
<1>2. ASSUME NEW t \in Owners, NEW p \in Objs, MutateBegin(t, p) PROVE CurrentOK(s, o)'
  <2>1. UNCHANGED <<world, data, writeEpoch, lastSaveEpoch, versionChain, epoch, phase, asOf>>
    BY <1>2 DEF MutateBegin
  <2>2. \A u \in Owners \ {t} : pc'[u] = pc[u] /\ obj'[u] = obj[u] /\ guard'[u] = guard[u]
    <3>1. OwnerStep(t)
      BY <1>2 DEF OwnerStep
    <3> QED
      BY <3>1, OwnerFrame, SMTT(60)
  <2>3. CASE world.owner[o] # t
    BY <2>1, <2>2, <2>3, <1>0
  <2>4. CASE world.owner[o] = t /\ Covered(s, o)
    <3>1. pc[t] = "idle"
      BY <1>2 DEF MutateBegin
    <3>2. phase[s] = "live"
      BY <2>4, <3>1, ZenonT(120)
    <3>3. pc'[t] = "lock" /\ guard'[t]
      BY <1>2, <1>0, <3>2, Begun, LiveCounted
    <3> QED
      BY <2>1, <2>4, <3>1, <3>3
  <2> QED
    BY <2>1, <2>3, <2>4
<1>3. ASSUME NEW t \in Owners, NEW q \in Snaps, NEW p \in Objs, SnapClone(t, q,
    p) PROVE CurrentOK(s, o)'
  BY <1>3, <1>0 DEF SnapClone
<1>4. ASSUME NEW t \in Owners, GuardLock(t) PROVE CurrentOK(s, o)'
  BY <1>4, <1>0 DEF GuardLock
<1>5. ASSUME NEW t \in Owners, SaveVersion(t) PROVE CurrentOK(s, o)'
  BY <1>5, <1>0, SMTT(60) DEF SaveVersion
<1>6. ASSUME NEW t \in Owners, SaveStamp(t) PROVE CurrentOK(s, o)'
  BY <1>6, <1>0 DEF SaveStamp
<1>7. ASSUME NEW t \in Owners, EnsureUnique(t) PROVE CurrentOK(s, o)'
  BY <1>7, <1>0 DEF EnsureUnique
<1>8. ASSUME NEW t \in Owners, Write(t) PROVE CurrentOK(s, o)'
  <2>1. /\ pc[t] = "write" /\ data' = [data EXCEPT ![obj[t]] = data[obj[t]] + 1]
        /\ UNCHANGED <<world, writeEpoch, epoch, phase, asOf, obj, guard>>
    BY <1>8 DEF Write
  <2>2. data[obj[t]] \in Nat /\ obj[t] \in Objs /\ world.owner[obj[t]] = t /\ pc'[t] = "bump"
    BY <1>8, <2>1, OwnerOn DEF Write
  <2>3. \A u \in Owners \ {t} : pc'[u] = pc[u]
    BY <1>8 DEF Write
  <2>4. CASE o = obj[t]
    BY <2>1, <2>2, <2>4
  <2>5. CASE o # obj[t]
    <3>1. data'[o] = data[o]
      BY <2>1, <2>5
    <3>2. CASE world.owner[o] = t
      BY <2>1, <2>2, <2>5, <3>1, <3>2
    <3>3. CASE world.owner[o] # t
      BY <2>1, <2>3, <3>1, <3>3, <1>0
    <3> QED
      BY <3>2, <3>3
  <2> QED
    BY <2>4, <2>5
<1>9. ASSUME NEW t \in Owners, MutateThrow(t) PROVE CurrentOK(s, o)'
  BY <1>9, <1>0 DEF MutateThrow
<1>10. ASSUME NEW t \in Owners, Bump(t) PROVE CurrentOK(s, o)'
  BY <1>10, <1>0 DEF Bump
<1>11. ASSUME NEW t \in Owners, SnapEpoch(t) PROVE CurrentOK(s, o)'
  BY <1>11, <1>0 DEF SnapEpoch
<1>12. ASSUME NEW t \in Owners, publishSnapshotEpoch(t) PROVE CurrentOK(s, o)'
  BY <1>12, <1>0 DEF publishSnapshotEpoch
<1>13. ASSUME NEW t \in Owners, SnapTrack(t) PROVE CurrentOK(s, o)'
  BY <1>13, <1>0 DEF SnapTrack
<1>14. ASSUME NEW t \in Owners, SnapCount(t) PROVE CurrentOK(s, o)'
  BY <1>14, <1>0 DEF SnapCount
<1>15. ASSUME NEW q \in Snaps, SnapUntrack(q) PROVE CurrentOK(s, o)'
  BY <1>15, <1>0 DEF SnapUntrack
<1>16. ASSUME NEW q \in Snaps, SnapUncount(q) PROVE CurrentOK(s, o)'
  BY <1>16, <1>0 DEF SnapUncount
<1>17. ASSUME trimVersionChains PROVE CurrentOK(s, o)'
  BY <1>17, <1>0 DEF trimVersionChains
<1>18. ASSUME NEW r \in Readers, ReaderStep(r) PROVE CurrentOK(s, o)'
  BY <1>18, ReaderFrame, <1>0, SMTT(60)
<1>19. ASSUME UNCHANGED vars PROVE CurrentOK(s, o)'
  BY <1>19, <1>0
<1> QED
  BY <1>1, <1>2, <1>3, <1>4, <1>5, <1>6, <1>7, <1>8, <1>9, <1>10, <1>11, <1>12, <1>13, <1>14,
      <1>15, <1>16, <1>17, <1>18, <1>19 DEF Next, OwnerStep

(* A mutation passes its save with the promised state on the chain. *)
LEMMA ChainStep ==
  ASSUME TypeInv, Protected, EpochInv, MadeInv, GuardInv, SaveInv, VersionsInv, NEW s \in Snaps,
      NEW o \in Objs, [Next]_vars
  PROVE  ChainOK(s, o)'
<1> USE DEF TypeInv, TypeOK, GlobalsOK, ObjectsOK, SnapsOK, ThreadsOK, PlaceInv, OwnerPlace,
    ReaderPlace, MutatePC, SnapPC, OwnerPC, ReaderPC, Threads, globalVars, objVars, snapVars,
    cloneVars, vars, Goto, At, Return, CloneCurrent, Release, FromChain, EpochInv, GlobalEpochs,
    SnapEpochs, MakerEpochs, MadeInv, Made, GuardInv, Guards, SaveInv, Save, In, VersionsInv,
    Covered, CurrentOK, WorldOK, ChainOK
<1>0. world.owner[o] \in Owners /\ ~(world.throws /\ world.drops) /\ Guarded = Objs
  BY ConstantsOK DEF Protected
<1>1. ASSUME NEW t \in Owners, NEW p \in Objs, NewObject(t, p) PROVE ChainOK(s, o)'
  BY <1>1, <1>0, ChainKept DEF NewObject
<1>2. ASSUME NEW t \in Owners, NEW p \in Objs, MutateBegin(t, p) PROVE ChainOK(s, o)'
  <2>1. UNCHANGED <<world, data, writeEpoch, lastSaveEpoch, versionChain, epoch, phase, asOf>>
    BY <1>2 DEF MutateBegin
  <2>2. \A u \in Owners \ {t} : pc'[u] = pc[u] /\ obj'[u] = obj[u] /\ guard'[u] = guard[u]
    <3>1. OwnerStep(t)
      BY <1>2 DEF OwnerStep
    <3> QED
      BY <3>1, OwnerFrame, SMTT(60)
  <2>3. CASE world.owner[o] # t
    BY <2>1, <2>2, <2>3, <1>0, ChainKept
  <2>4. CASE world.owner[o] = t /\ Covered(s, o)
    <3>1. pc[t] = "idle"
      BY <1>2 DEF MutateBegin
    <3>2. phase[s] = "live"
      BY <2>4, <3>1, ZenonT(120)
    <3>3. pc'[t] = "lock" /\ guard'[t]
      BY <1>2, <1>0, <3>2, Begun, LiveCounted
    <3> QED
      BY <2>1, <2>4, <3>1, <3>3, ChainKept
  <2> QED
    BY <2>1, <2>3, <2>4
<1>3. ASSUME NEW t \in Owners, NEW q \in Snaps, NEW p \in Objs, SnapClone(t, q, p) PROVE ChainOK(s,
    o)'
  <2>1. /\ UNCHANGED <<world, writeEpoch, lastSaveEpoch, versionChain, epoch, obj>>
        /\ phase[q] = "unused" /\ pc' = [pc EXCEPT ![t] = "epoch"]
        /\ phase' = [phase EXCEPT ![q] = "made"]
        /\ (s # q => asOf'[s] = asOf[s])
    BY <1>3 DEF SnapClone
  <2>2. CASE s = q
    BY <2>1, <2>2
  <2>3. CASE s # q
    <3>1. phase'[s] = phase[s] /\ asOf'[s][o] = asOf[s][o] /\ epoch'[s] = epoch[s]
      BY <2>1, <2>3
    <3>2. In(o, {"stamp", "unique", "write", "bump"})' => In(o, {"stamp", "unique", "write",
        "bump"})
      BY <2>1, <1>0
    <3>3. ChainHas(s, o) => ChainHas(s, o)'
      BY <2>1, <3>1, ChainKept
    <3>4. ChainOK(s, o)
      OBVIOUS
    <3> QED
      BY ONLY <2>1, <3>1, <3>2, <3>3, <3>4
  <2> QED
    BY <2>2, <2>3
<1>4. ASSUME NEW t \in Owners, GuardLock(t) PROVE ChainOK(s, o)'
  BY <1>4, <1>0, ChainKept DEF GuardLock
<1>5. ASSUME NEW t \in Owners, SaveVersion(t) PROVE ChainOK(s, o)'
  <2>1. /\ pc[t] = "save" /\ obj[t] \in Objs /\ world.owner[obj[t]] = t /\ data[obj[t]] \in Nat
        /\ UNCHANGED <<world, writeEpoch, lastSaveEpoch, epoch, phase, asOf, obj>>
    BY <1>5, OwnerOn DEF SaveVersion
  <2>2. \A u \in Owners \ {t} : pc'[u] = pc[u]
    <3>1. OwnerStep(t)
      BY <1>5 DEF OwnerStep
    <3> QED
      BY <3>1, OwnerFrame, SMTT(60)
  <2>3. CASE obj[t] # o
    <3>1. versionChain'[o] = versionChain[o]
      BY <1>5, <2>3 DEF SaveVersion
    <3>2. In(o, {"stamp", "unique", "write", "bump"})' => In(o, {"stamp", "unique", "write",
        "bump"})
      <4>1. CASE world.owner[o] = t
        BY <2>1, <2>3, <4>1
      <4>2. CASE world.owner[o] # t
        BY <2>1, <2>2, <4>2, <1>0
      <4> QED
        BY <4>1, <4>2
    <3>3. ChainHas(s, o) => ChainHas(s, o)'
      BY <2>1, <3>1, ChainKept
    <3>4. ChainOK(s, o)
      OBVIOUS
    <3> QED
      BY ONLY <2>1, <3>1, <3>2, <3>3, <3>4
  <2>4. CASE obj[t] = o /\ Covered(s, o)
    <3>1. phase[s] = "live" /\ epoch[s] <= latestSnapshotCreationEpoch
      <4>1. phase[s] # "made"
        BY <2>1, <2>4, NotMade
      <4> QED
        BY <2>4, <4>1
    <3>2. CASE lastSaveEpoch[o] >= latestSnapshotCreationEpoch
      <4>1. versionChain' = versionChain /\ lastSaveEpoch[o] >= epoch[s]
        BY <1>5, <2>4, <3>1, <3>2 DEF SaveVersion
      <4> QED
        BY <2>1, <2>4, <4>1, ChainKept
    <3>3. CASE ~(lastSaveEpoch[o] >= latestSnapshotCreationEpoch)
      <4> DEFINE v == [epoch |-> writeEpoch[o], state |-> data[o]]
      <4>1. v \in Version /\ v.epoch = writeEpoch[o] /\ v.state = data[o]
        BY <2>1, <2>4 DEF Version
      <4>2. versionChain'[o] = <<v>> \o versionChain[o]
        BY <1>5, <2>4, <3>3 DEF SaveVersion
      <4>3. IF v.epoch < epoch[s] THEN v.state = asOf[s][o] ELSE ChainHas(s, o)
        BY <2>1, <2>4, <4>1
      <4> HIDE DEF v
      <4>4. /\ epoch'[s] = epoch[s] /\ asOf'[s][o] = asOf[s][o]
            /\ versionChain[o] \in Seq(Version) /\ epoch[s] \in Nat
        BY <2>1
      <4>5. ChainHas(s, o)'
        BY ONLY s \in Snaps, o \in Objs, <4>1, <4>2, <4>3, <4>4, ChainSaved
      <4> QED
        BY <4>5
    <3> QED
      BY <3>2, <3>3
  <2> QED
    BY <2>1, <2>3, <2>4
<1>6. ASSUME NEW t \in Owners, SaveStamp(t) PROVE ChainOK(s, o)'
  BY <1>6, <1>0, ChainKept DEF SaveStamp
<1>7. ASSUME NEW t \in Owners, EnsureUnique(t) PROVE ChainOK(s, o)'
  BY <1>7, <1>0, ChainKept, SMTT(60) DEF EnsureUnique
<1>8. ASSUME NEW t \in Owners, Write(t) PROVE ChainOK(s, o)'
  BY <1>8, <1>0, ChainKept, SMTT(60) DEF Write
<1>9. ASSUME NEW t \in Owners, MutateThrow(t) PROVE ChainOK(s, o)'
  BY <1>9, <1>0, ChainKept DEF MutateThrow
<1>10. ASSUME NEW t \in Owners, Bump(t) PROVE ChainOK(s, o)'
  <2>1. /\ pc[t] = "bump" /\ obj[t] \in Objs /\ world.owner[obj[t]] = t
        /\ UNCHANGED <<world, lastSaveEpoch, versionChain, epoch, phase, asOf>>
    BY <1>10, OwnerOn DEF Bump
  <2>2. \A u \in Owners \ {t} : pc'[u] = pc[u] /\ obj'[u] = obj[u]
    <3>1. OwnerStep(t)
      BY <1>10 DEF OwnerStep
    <3> QED
      BY <3>1, OwnerFrame
  <2>3. CASE o = obj[t]
    BY <2>1, <2>3, ChainKept
  <2>4. CASE o # obj[t]
    <3>1. writeEpoch'[o] = writeEpoch[o] /\ pc'[t] = "idle"
      BY <1>10, <2>4, SMTT(60) DEF Bump
    <3>2. In(o, {"stamp", "unique", "write", "bump"})' => In(o, {"stamp", "unique", "write",
        "bump"})
      BY <2>1, <2>2, <3>1, <1>0
    <3>3. ChainHas(s, o) => ChainHas(s, o)'
      BY <2>1, <3>1, ChainKept
    <3>4. ChainOK(s, o)
      OBVIOUS
    <3> QED
      BY ONLY <2>1, <3>1, <3>2, <3>3, <3>4
  <2> QED
    BY <2>3, <2>4, SMTT(60)
<1>11. ASSUME NEW t \in Owners, SnapEpoch(t) PROVE ChainOK(s, o)'
  <2>1. /\ pc[t] = "epoch" /\ snap[t] \in Snaps
        /\ epoch' = [epoch EXCEPT ![snap[t]] = globalWriteEpoch]
        /\ pc' = [pc EXCEPT ![t] = "publish"]
        /\ UNCHANGED <<world, data, writeEpoch, lastSaveEpoch, versionChain, phase, asOf, obj,
            snap>>
    BY <1>11 DEF SnapEpoch
  <2>2. CASE s # snap[t]
    <3>1. epoch'[s] = epoch[s]
      BY <2>1, <2>2
    <3>2. In(o, {"stamp", "unique", "write", "bump"})' => In(o, {"stamp", "unique", "write",
        "bump"})
      BY <2>1, <1>0
    <3>3. ChainHas(s, o) => ChainHas(s, o)'
      BY <2>1, <3>1, ChainKept
    <3>4. ChainOK(s, o)
      BY SMTT(60)
    <3> QED
      BY ONLY <2>1, <3>1, <3>2, <3>3, <3>4
  <2>3. CASE s = snap[t] /\ asOf[s][o] >= 0
    <3>1. phase[s] = "made" /\ epoch'[s] = globalWriteEpoch
      BY <2>1, <2>3
    <3>2. data[o] = asOf[s][o] /\ world.owner[o] = t
      BY <2>1, <2>3, <3>1, <1>0
    <3>3. writeEpoch[o] < globalWriteEpoch /\ ~In(o, {"stamp", "unique", "write", "bump"})'
      BY <2>1, <3>2
    <3>4. lastSaveEpoch[o] >= globalWriteEpoch => HeadMatch(o)
      <4>1. ~In(o, {"bump"}) /\ ~In(o, {"unique", "write"})
        BY <2>1, <3>2
      <4>2. Save(o) /\ lastSaveEpoch[o] \in Nat /\ globalWriteEpoch \in Nat
        OBVIOUS
      <4> HIDE DEF In
      <4> QED
        BY <4>1, <4>2
    <3>5. ASSUME HeadMatch(o) PROVE ChainHas(s, o)'
      <4>1. 1 \in DOMAIN versionChain[o] /\ \A j \in DOMAIN versionChain[o] : ~(j < 1)
        <5>1. versionChain[o] \in Seq(Version) /\ versionChain[o] # <<>>
          BY <3>5 DEF HeadMatch
        <5> QED
          BY <5>1
      <4>2. /\ versionChain'[o][1].epoch < epoch'[s] /\ versionChain'[o][1].state = asOf'[s][o]
            /\ versionChain'[o] = versionChain[o]
        BY <2>1, <3>1, <3>2, <3>3, <3>5, SMTT(60) DEF HeadMatch
      <4> QED
        BY <4>1, <4>2 DEF ChainHas
    <3> QED
      BY <2>1, <3>1, <3>3, <3>4, <3>5
  <2> QED
    BY <2>1, <2>2, <2>3
<1>12. ASSUME NEW t \in Owners, publishSnapshotEpoch(t) PROVE ChainOK(s, o)'
  BY <1>12, <1>0, ChainKept, SMTT(60) DEF publishSnapshotEpoch
<1>13. ASSUME NEW t \in Owners, SnapTrack(t) PROVE ChainOK(s, o)'
  BY <1>13, <1>0, ChainKept, SMTT(60) DEF SnapTrack
<1>14. ASSUME NEW t \in Owners, SnapCount(t) PROVE ChainOK(s, o)'
  BY <1>14, <1>0, ChainKept DEF SnapCount
<1>15. ASSUME NEW q \in Snaps, SnapUntrack(q) PROVE ChainOK(s, o)'
  BY <1>15, <1>0, ChainKept DEF SnapUntrack
<1>16. ASSUME NEW q \in Snaps, SnapUncount(q) PROVE ChainOK(s, o)'
  BY <1>16, <1>0, ChainKept DEF SnapUncount
<1>17. ASSUME trimVersionChains PROVE ChainOK(s, o)'
  <2>1. UNCHANGED <<world, writeEpoch, epoch, phase, asOf, tracker, pc, obj>>
    BY <1>17 DEF trimVersionChains
  <2>2. \A t \in Owners : pc[t] = "idle"
    BY <1>17 DEF trimVersionChains
  <2>3. CASE Covered(s, o)
    <3>1. phase[s] = "live" /\ epoch[s] \in tracker
      <4>1. phase[s] # "made"
        <5>1. asOf[s][o] >= 0 /\ world.owner[o] \in Owners
          BY <2>3, <1>0
        <5>2. pc[world.owner[o]] \notin SnapPC
          BY <2>2, <5>1
        <5> QED
          BY <5>1, <5>2, NotMade
      <4> QED
        BY <2>3, <4>1
    <3>2. versionChain'[o] = Trimmed(o) /\ lastSaveEpoch'[o] = lastSaveEpoch[o]
      BY <1>17, <3>1 DEF trimVersionChains
    <3> QED
      BY <2>1, <3>1, <3>2, ChainTrimmed
  <2> QED
    BY <2>1, <2>3
<1>18. ASSUME NEW r \in Readers, ReaderStep(r) PROVE ChainOK(s, o)'
  <2>1. UNCHANGED <<world, writeEpoch, lastSaveEpoch, versionChain, epoch, phase, asOf>>
    BY <1>18, ReaderFrame
  <2>2. \A t \in Owners : pc'[t] = pc[t] /\ obj'[t] = obj[t]
    BY <1>18, ReaderFrame
  <2> QED
    BY <2>1, <2>2, <1>0, ChainKept
<1>19. ASSUME UNCHANGED vars PROVE ChainOK(s, o)'
  BY <1>19, <1>0, ChainKept
<1> QED
  BY <1>1, <1>2, <1>3, <1>4, <1>5, <1>6, <1>7, <1>8, <1>9, <1>10, <1>11, <1>12, <1>13, <1>14,
      <1>15, <1>16, <1>17, <1>18, <1>19 DEF Next, OwnerStep

-----------------------------------------------------------------------------
(* Readers and clones *)

(* A read is of a state its snapshot promises. *)
LEMMA ReaderCovered ==
  ASSUME TypeInv, EpochInv, NEW r \in Readers, pc[r] # "idle"
  PROVE  snap[r] \in Snaps /\ obj[r] \in Objs /\ Covered(snap[r], obj[r])
<1>1. snap[r] \in Snaps /\ obj[r] \in Objs /\ phase[snap[r]] = "live" /\ asOf[snap[r]][obj[r]] >= 0
  BY ReaderOn
<1> QED
  BY <1>1 DEF Covered, EpochInv, SnapEpochs

(* With the spinlock free and no newer write stamped, the object's state is the
   promised one, and its owner is not about to write it. *)
LEMMA LockFree ==
  ASSUME TypeInv, Protected, EpochInv, GuardInv, VersionsInv, NEW r \in Readers, pc[r] = "lock",
         cowLock[obj[r]] = None, writeEpoch[obj[r]] < epoch[snap[r]]
  PROVE  /\ data[obj[r]] = asOf[snap[r]][obj[r]] /\ data[obj[r]] >= 0
         /\ \A t \in Owners : pc[t] = "write" => obj[t] # obj[r]
<1> DEFINE s == snap[r]
           o == obj[r]
<1>1. s \in Snaps /\ o \in Objs /\ Covered(s, o)
  BY ReaderCovered
<1>2. world.owner[o] \in Owners /\ None \notin Owners
  BY <1>1, ConstantsOK DEF TypeInv, WorldOK
<1>3. CurrentOK(s, o)
  BY <1>1 DEF VersionsInv
<1>4. ~In(o, MutatePC \ {"lock"})
  <2> SUFFICES ASSUME In(o, MutatePC \ {"lock"}) PROVE FALSE
    OBVIOUS
  <2>1. guard[world.owner[o]]
    BY <1>1, <1>3 DEF CurrentOK, In, MutatePC
  <2> QED
    BY <1>2, <2>1 DEF GuardInv, Guards, In
<1>5. ~In(o, {"bump"})
  BY <1>4 DEF In, MutatePC
<1>6. data[o] = asOf[s][o] /\ data[o] >= 0
  BY <1>1, <1>3, <1>5 DEF CurrentOK
<1>7. ASSUME NEW t \in Owners, pc[t] = "write" PROVE obj[t] # o
  <2>1. world.owner[obj[t]] = t
    BY <1>7, OwnerOn DEF MutatePC
  <2> QED
    BY <1>4, <1>7, <2>1 DEF In, MutatePC
<1> QED
  BY <1>6, <1>7

(* findVersionForEpoch finds the promised state when the chain has it. *)
LEMMA ChainFound ==
  ASSUME TypeInv, NEW s \in Snaps, NEW o \in Objs, ChainHas(s, o)
  PROVE  /\ VersionsFor(o, epoch[s]) # {}
         /\ versionChain[o][VersionFor(o, epoch[s])].state = asOf[s][o]
<1>1. OrderInv /\ versionChain[o] \in Seq(Version) /\ epoch[s] \in Nat
  BY DEF TypeInv, TypeOK, ObjectsOK, SnapsOK
<1>2. PICK i \in DOMAIN versionChain[o] :
        /\ versionChain[o][i].epoch < epoch[s] /\ versionChain[o][i].state = asOf[s][o]
        /\ \A j \in DOMAIN versionChain[o] : j < i => versionChain[o][j].epoch >= epoch[s]
  BY DEF ChainHas
<1>3. i \in VersionsFor(o, epoch[s])
  BY <1>2 DEF VersionsFor
<1> DEFINE k == VersionFor(o, epoch[s])
<1>4. k \in VersionsFor(o, epoch[s]) /\ k <= i
  BY <1>1, <1>3, VersionForFirst
<1>5. k \in DOMAIN versionChain[o] /\ versionChain[o][k].epoch < epoch[s]
  BY <1>4 DEF VersionsFor
<1>6. i \in Nat /\ k \in Nat /\ versionChain[o][k].epoch \in Nat
  BY <1>1, <1>2, <1>5, InChain
<1>7. ~(k < i)
  <2>1. k < i => versionChain[o][k].epoch >= epoch[s]
    BY <1>2, <1>5
  <2> QED
    BY <1>1, <1>5, <1>6, <2>1
<1>8. k = i
  BY <1>4, <1>6, <1>7
<1> QED
  BY <1>2, <1>3, <1>8

(* What a reader about to look at the chain finds there. *)
LEMMA ReaderFinds ==
  ASSUME TypeInv, EpochInv, VersionsInv, ReaderInv, NEW r \in Readers, pc[r] \in {"chain", "again"}
  PROVE  /\ VersionsFor(obj[r], epoch[snap[r]]) # {}
         /\ versionChain[obj[r]][VersionFor(obj[r], epoch[snap[r]])].state = asOf[snap[r]][obj[r]]
         /\ asOf[snap[r]][obj[r]] >= 0
<1>1. snap[r] \in Snaps /\ obj[r] \in Objs /\ Covered(snap[r], obj[r])
  BY ReaderCovered
<1>2. writeEpoch[obj[r]] >= epoch[snap[r]]
  BY DEF ReaderInv, Reading
<1>3. ChainHas(snap[r], obj[r])
  BY <1>1, <1>2 DEF VersionsInv, ChainOK
<1> QED
  BY <1>1, <1>3, ChainFound DEF Covered

(* No clone shares the storage a write is about to change: a lazy clone is made under the
   spinlock the write holds, a root clone by the thread that writes. *)
LEMMA UniqueStep ==
  ASSUME TypeInv, Protected, EpochInv, GuardInv, VersionsInv, UniqueInv, ReaderInv, CloneInv,
      NEW u \in Owners, [Next]_vars
  PROVE  Unique(u)'
<1> USE DEF TypeInv, TypeOK, GlobalsOK, ObjectsOK, SnapsOK, ThreadsOK, PlaceInv, OwnerPlace,
    ReaderPlace, MutatePC, SnapPC, OwnerPC, ReaderPC, Threads, globalVars, objVars, snapVars,
    cloneVars, vars, Goto, At, Return, CloneCurrent, Release, FromChain, Unique, UniqueInv, WorldOK
<1>1. ASSUME NEW t \in Owners, NEW p \in Objs, NewObject(t, p) PROVE Unique(u)'
  BY <1>1 DEF NewObject
<1>2. ASSUME NEW t \in Owners, NEW p \in Objs, MutateBegin(t, p) PROVE Unique(u)'
  BY <1>2 DEF MutateBegin
<1>3. ASSUME NEW t \in Owners, NEW q \in Snaps, NEW p \in Objs, SnapClone(t, q, p) PROVE Unique(u)'
  <2>1. /\ shared' = shared \union {<<t, q, p>>} /\ world.owner[p] = t /\ obj' = obj
        /\ pc' = [pc EXCEPT ![t] = "epoch"] /\ pc[t] = "idle"
    BY <1>3 DEF SnapClone
  <2>2. pc[u] = "write" => world.owner[obj[u]] = u
    BY OwnerOn DEF MutatePC
  <2>3. pc'[u] = "write" => pc[u] = "write" /\ u # t
    BY <2>1
  <2> QED
    BY <2>1, <2>2, <2>3
<1>4. ASSUME NEW t \in Owners, GuardLock(t) PROVE Unique(u)'
  BY <1>4 DEF GuardLock
<1>5. ASSUME NEW t \in Owners, SaveVersion(t) PROVE Unique(u)'
  <2>1. pc'[u] = "write" => pc[u] = "write"
    BY <1>5 DEF SaveVersion
  <2>2. UNCHANGED <<shared, obj>>
    BY <1>5 DEF SaveVersion
  <2>3. Unique(u)
    BY DEF UniqueInv
  <2> QED
    BY ONLY <2>1, <2>2, <2>3 DEF Unique
<1>6. ASSUME NEW t \in Owners, SaveStamp(t) PROVE Unique(u)'
  BY <1>6 DEF SaveStamp
<1>7. ASSUME NEW t \in Owners, EnsureUnique(t) PROVE Unique(u)'
  BY <1>7 DEF EnsureUnique
<1>8. ASSUME NEW t \in Owners, Write(t) PROVE Unique(u)'
  BY <1>8 DEF Write
<1>9. ASSUME NEW t \in Owners, MutateThrow(t) PROVE Unique(u)'
  BY <1>9 DEF MutateThrow
<1>10. ASSUME NEW t \in Owners, Bump(t) PROVE Unique(u)'
  BY <1>10 DEF Bump
<1>11. ASSUME NEW t \in Owners, SnapEpoch(t) PROVE Unique(u)'
  BY <1>11 DEF SnapEpoch
<1>12. ASSUME NEW t \in Owners, publishSnapshotEpoch(t) PROVE Unique(u)'
  BY <1>12 DEF publishSnapshotEpoch
<1>13. ASSUME NEW t \in Owners, SnapTrack(t) PROVE Unique(u)'
  BY <1>13 DEF SnapTrack
<1>14. ASSUME NEW t \in Owners, SnapCount(t) PROVE Unique(u)'
  BY <1>14 DEF SnapCount
<1>15. ASSUME NEW q \in Snaps, SnapUntrack(q) PROVE Unique(u)'
  BY <1>15 DEF SnapUntrack
<1>16. ASSUME NEW q \in Snaps, SnapUncount(q) PROVE Unique(u)'
  BY <1>16 DEF SnapUncount
<1>17. ASSUME trimVersionChains PROVE Unique(u)'
  BY <1>17 DEF trimVersionChains
<1>18. ASSUME NEW r \in Readers, ReaderStep(r) PROVE Unique(u)'
  <2>0. /\ pc'[u] = pc[u] /\ obj'[u] = obj[u]
    BY <1>18, ReaderFrame
  <2>3. Unique(u)
    BY DEF UniqueInv
  <2>1. CASE shared' = shared
    BY ONLY <2>0, <2>1, <2>3 DEF Unique
  <2>2. CASE shared' # shared
    <3>1. /\ ResolveLocked(r) /\ writeEpoch[obj[r]] < epoch[snap[r]]
          /\ shared' = shared \union {<<r, snap[r], obj[r]>>}
      BY <1>18, <2>2 DEF ReaderStep, ResolveBegin, ResolveMap, ResolveEpoch, ResolveChain,
          ResolveLocked, ResolveAgain, ResolveInsert
    <3>2. pc[u] = "write" => obj[u] # obj[r]
      <4>1. pc[r] = "lock" /\ cowLock[obj[r]] = None
        BY <3>1 DEF ResolveLocked
      <4> QED
        BY <3>1, <4>1, LockFree
    <3> QED
      BY ONLY <2>0, <2>3, <3>1, <3>2 DEF Unique
  <2> QED
    BY <2>1, <2>2
<1>19. ASSUME UNCHANGED vars PROVE Unique(u)'
  BY <1>19
<1> QED
  BY <1>1, <1>2, <1>3, <1>4, <1>5, <1>6, <1>7, <1>8, <1>9, <1>10, <1>11, <1>12, <1>13, <1>14,
      <1>15, <1>16, <1>17, <1>18, <1>19 DEF Next, OwnerStep

(* A snapshot counted is never back to being made, and one that is live was live. *)
LEMMA PhaseStep ==
  ASSUME TypeInv, NEW s \in Snaps, phase[s] \in {"live", "dying", "gone"}, [Next]_vars
  PROVE  phase'[s] \in {"live", "dying", "gone"} /\ (phase'[s] = "live" => phase[s] = "live")
<1> USE DEF TypeInv, TypeOK, GlobalsOK, ObjectsOK, SnapsOK, ThreadsOK, PlaceInv, OwnerPlace,
    ReaderPlace, MutatePC, SnapPC, OwnerPC, ReaderPC, Threads, globalVars, objVars, snapVars,
    cloneVars, vars, Goto, At, Return, CloneCurrent, Release, FromChain
<1>1. ASSUME NEW t \in Owners, NEW p \in Objs, NewObject(t, p) PROVE phase'[s] \in {"live",
    "dying", "gone"} /\ (phase'[s] = "live" => phase[s] = "live")
  BY <1>1 DEF NewObject
<1>2. ASSUME NEW t \in Owners, NEW p \in Objs, MutateBegin(t, p) PROVE phase'[s] \in {"live",
    "dying", "gone"} /\ (phase'[s] = "live" => phase[s] = "live")
  BY <1>2 DEF MutateBegin
<1>3. ASSUME NEW t \in Owners, NEW q \in Snaps, NEW p \in Objs, SnapClone(t, q,
    p) PROVE phase'[s] \in {"live", "dying", "gone"} /\ (phase'[s] = "live" => phase[s] = "live")
  BY <1>3 DEF SnapClone
<1>4. ASSUME NEW t \in Owners, GuardLock(t) PROVE phase'[s] \in {"live", "dying",
    "gone"} /\ (phase'[s] = "live" => phase[s] = "live")
  BY <1>4 DEF GuardLock
<1>5. ASSUME NEW t \in Owners, SaveVersion(t) PROVE phase'[s] \in {"live", "dying",
    "gone"} /\ (phase'[s] = "live" => phase[s] = "live")
  BY <1>5 DEF SaveVersion
<1>6. ASSUME NEW t \in Owners, SaveStamp(t) PROVE phase'[s] \in {"live", "dying",
    "gone"} /\ (phase'[s] = "live" => phase[s] = "live")
  BY <1>6 DEF SaveStamp
<1>7. ASSUME NEW t \in Owners, EnsureUnique(t) PROVE phase'[s] \in {"live", "dying",
    "gone"} /\ (phase'[s] = "live" => phase[s] = "live")
  BY <1>7 DEF EnsureUnique
<1>8. ASSUME NEW t \in Owners, Write(t) PROVE phase'[s] \in {"live", "dying",
    "gone"} /\ (phase'[s] = "live" => phase[s] = "live")
  BY <1>8 DEF Write
<1>9. ASSUME NEW t \in Owners, MutateThrow(t) PROVE phase'[s] \in {"live", "dying",
    "gone"} /\ (phase'[s] = "live" => phase[s] = "live")
  BY <1>9 DEF MutateThrow
<1>10. ASSUME NEW t \in Owners, Bump(t) PROVE phase'[s] \in {"live", "dying",
    "gone"} /\ (phase'[s] = "live" => phase[s] = "live")
  BY <1>10 DEF Bump
<1>11. ASSUME NEW t \in Owners, SnapEpoch(t) PROVE phase'[s] \in {"live", "dying",
    "gone"} /\ (phase'[s] = "live" => phase[s] = "live")
  BY <1>11 DEF SnapEpoch
<1>12. ASSUME NEW t \in Owners, publishSnapshotEpoch(t) PROVE phase'[s] \in {"live", "dying",
    "gone"} /\ (phase'[s] = "live" => phase[s] = "live")
  BY <1>12 DEF publishSnapshotEpoch
<1>13. ASSUME NEW t \in Owners, SnapTrack(t) PROVE phase'[s] \in {"live", "dying",
    "gone"} /\ (phase'[s] = "live" => phase[s] = "live")
  BY <1>13 DEF SnapTrack
<1>14. ASSUME NEW t \in Owners, SnapCount(t) PROVE phase'[s] \in {"live", "dying",
    "gone"} /\ (phase'[s] = "live" => phase[s] = "live")
  BY <1>14 DEF SnapCount
<1>15. ASSUME NEW q \in Snaps, SnapUntrack(q) PROVE phase'[s] \in {"live", "dying",
    "gone"} /\ (phase'[s] = "live" => phase[s] = "live")
  BY <1>15 DEF SnapUntrack
<1>16. ASSUME NEW q \in Snaps, SnapUncount(q) PROVE phase'[s] \in {"live", "dying",
    "gone"} /\ (phase'[s] = "live" => phase[s] = "live")
  BY <1>16 DEF SnapUncount
<1>17. ASSUME trimVersionChains PROVE phase'[s] \in {"live", "dying",
    "gone"} /\ (phase'[s] = "live" => phase[s] = "live")
  BY <1>17 DEF trimVersionChains
<1>18. ASSUME NEW r \in Readers, ReaderStep(r) PROVE phase'[s] \in {"live", "dying",
    "gone"} /\ (phase'[s] = "live" => phase[s] = "live")
  BY <1>18, ReaderFrame
<1>19. ASSUME UNCHANGED vars PROVE phase'[s] \in {"live", "dying",
    "gone"} /\ (phase'[s] = "live" => phase[s] = "live")
  BY <1>19
<1> QED
  BY <1>1, <1>2, <1>3, <1>4, <1>5, <1>6, <1>7, <1>8, <1>9, <1>10, <1>11, <1>12, <1>13, <1>14,
      <1>15, <1>16, <1>17, <1>18, <1>19 DEF Next, OwnerStep

(* The only clone a reader's step touches is its own, and it comes to show what
   the snapshot promises. *)
LEMMA FreshClone ==
  ASSUME TypeInv, Protected, EpochInv, GuardInv, VersionsInv, ReaderInv,
         NEW r \in Readers, ReaderStep(r), frozen' # frozen
  PROVE  /\ pc[r] # "idle" /\ pc' = [pc EXCEPT ![r] = "insert"] /\ obj' = obj /\ snap' = snap
         /\ frozen' = [frozen EXCEPT ![<<r, snap[r], obj[r]>>] = asOf[snap[r]][obj[r]]]
         /\ asOf[snap[r]][obj[r]] \in Nat
<1>1. CASE ResolveLocked(r)
  <2>1. /\ pc[r] = "lock" /\ cowLock[obj[r]] = None /\ writeEpoch[obj[r]] < epoch[snap[r]]
        /\ frozen' = [frozen EXCEPT ![<<r, snap[r], obj[r]>>] = data[obj[r]]]
        /\ pc' = [pc EXCEPT ![r] = "insert"] /\ obj' = obj /\ snap' = snap
    BY <1>1 DEF ResolveLocked, At, Goto, CloneCurrent
  <2>2. data[obj[r]] = asOf[snap[r]][obj[r]] /\ data[obj[r]] >= 0
    BY <2>1, LockFree
  <2>3. data[obj[r]] \in Nat \union {-1}
    BY <2>1, ReaderOn
  <2> QED
    BY <2>1, <2>2, <2>3
<1>2. CASE ResolveChain(r) \/ ResolveAgain(r)
  <2>1. pc[r] \in {"chain", "again"} /\ obj' = obj /\ snap' = snap
    BY <1>2 DEF ResolveChain, ResolveAgain, At
  <2>2. /\ frozen' = [frozen EXCEPT ![<<r, snap[r], obj[r]>>] =
                        versionChain[obj[r]][VersionFor(obj[r], epoch[snap[r]])].state]
        /\ pc' = [pc EXCEPT ![r] = "insert"]
    BY <1>2 DEF ResolveChain, ResolveAgain, FromChain, Goto
  <2>3. /\ versionChain[obj[r]][VersionFor(obj[r], epoch[snap[r]])].state = asOf[snap[r]][obj[r]]
        /\ asOf[snap[r]][obj[r]] >= 0
    BY <2>1, ReaderFinds
  <2>4. snap[r] \in Snaps /\ obj[r] \in Objs
    BY <2>1, ReaderOn
  <2>5. asOf[snap[r]][obj[r]] \in Nat
    BY <2>3, <2>4 DEF TypeInv, TypeOK, SnapsOK
  <2> QED
    BY <2>1, <2>2, <2>3, <2>5
<1> QED
  BY <1>1, <1>2 DEF ReaderStep, ResolveBegin, ResolveMap, ResolveEpoch, ResolveInsert, cloneVars

(* A clone of a live snapshot, once made, stays. *)
LEMMA FrozenKept ==
  ASSUME TypeInv, Protected, EpochInv, GuardInv, VersionsInv, ReaderInv, NEW w \in Threads,
      NEW s \in Snaps, NEW o \in Objs, phase[s] = "live", frozen[<<w, s, o>>] >= 0, [Next]_vars
  PROVE  frozen'[<<w, s, o>>] >= 0
<1> USE DEF TypeInv, TypeOK, GlobalsOK, ObjectsOK, SnapsOK, ClonesOK, ThreadsOK, PlaceInv,
    OwnerPlace, ReaderPlace, MutatePC, SnapPC, OwnerPC, ReaderPC, Threads, globalVars, objVars,
    snapVars, cloneVars, vars, Goto, At, Return, CloneCurrent, Release, FromChain
<1>0. <<w, s, o>> \in Clones /\ frozen \in [Clones -> Nat \union {-1}]
  BY DEF Clones
<1>1. ASSUME NEW t \in Owners, NEW p \in Objs, NewObject(t, p) PROVE frozen'[<<w, s, o>>] >= 0
  BY <1>1 DEF NewObject
<1>2. ASSUME NEW t \in Owners, NEW p \in Objs, MutateBegin(t, p) PROVE frozen'[<<w, s, o>>] >= 0
  BY <1>2 DEF MutateBegin
<1>3. ASSUME NEW t \in Owners, NEW q \in Snaps, NEW p \in Objs, SnapClone(t, q,
    p) PROVE frozen'[<<w, s, o>>] >= 0
  <2>1. frozen' = [frozen EXCEPT ![<<t, q, p>>] = data[p]] /\ data[p] >= 0
    BY <1>3 DEF SnapClone
  <2> QED
    BY ONLY <2>1, <1>0, frozen[<<w, s, o>>] >= 0
<1>4. ASSUME NEW t \in Owners, GuardLock(t) PROVE frozen'[<<w, s, o>>] >= 0
  BY <1>4 DEF GuardLock
<1>5. ASSUME NEW t \in Owners, SaveVersion(t) PROVE frozen'[<<w, s, o>>] >= 0
  BY <1>5 DEF SaveVersion
<1>6. ASSUME NEW t \in Owners, SaveStamp(t) PROVE frozen'[<<w, s, o>>] >= 0
  BY <1>6 DEF SaveStamp
<1>7. ASSUME NEW t \in Owners, EnsureUnique(t) PROVE frozen'[<<w, s, o>>] >= 0
  BY <1>7 DEF EnsureUnique
<1>8. ASSUME NEW t \in Owners, Write(t) PROVE frozen'[<<w, s, o>>] >= 0
  <2>1. /\ frozen' = [c \in Clones |-> IF c \in shared /\ c[3] = obj[t] THEN data[obj[t]] + 1 ELSE frozen[c]]
        /\ pc[t] = "write"
    BY <1>8 DEF Write
  <2>2. data[obj[t]] \in Nat
    BY <2>1, OwnerOn DEF MutatePC
  <2>3. <<w, s, o>> \in Clones
    BY DEF Clones
  <2> QED
    BY ONLY <2>1, <2>2, <2>3, frozen[<<w, s, o>>] >= 0
<1>9. ASSUME NEW t \in Owners, MutateThrow(t) PROVE frozen'[<<w, s, o>>] >= 0
  BY <1>9 DEF MutateThrow
<1>10. ASSUME NEW t \in Owners, Bump(t) PROVE frozen'[<<w, s, o>>] >= 0
  BY <1>10 DEF Bump
<1>11. ASSUME NEW t \in Owners, SnapEpoch(t) PROVE frozen'[<<w, s, o>>] >= 0
  BY <1>11 DEF SnapEpoch
<1>12. ASSUME NEW t \in Owners, publishSnapshotEpoch(t) PROVE frozen'[<<w, s, o>>] >= 0
  BY <1>12 DEF publishSnapshotEpoch
<1>13. ASSUME NEW t \in Owners, SnapTrack(t) PROVE frozen'[<<w, s, o>>] >= 0
  BY <1>13 DEF SnapTrack
<1>14. ASSUME NEW t \in Owners, SnapCount(t) PROVE frozen'[<<w, s, o>>] >= 0
  BY <1>14 DEF SnapCount
<1>15. ASSUME NEW q \in Snaps, SnapUntrack(q) PROVE frozen'[<<w, s, o>>] >= 0
  BY <1>15 DEF SnapUntrack
<1>16. ASSUME NEW q \in Snaps, SnapUncount(q) PROVE frozen'[<<w, s, o>>] >= 0
  <2>1. frozen' = [c \in Clones |-> IF c[2] = q THEN -1 ELSE frozen[c]] /\ phase[q] = "dying"
    BY <1>16 DEF SnapUncount
  <2> QED
    BY ONLY <2>1, <1>0, frozen[<<w, s, o>>] >= 0, phase[s] = "live"
<1>17. ASSUME trimVersionChains PROVE frozen'[<<w, s, o>>] >= 0
  BY <1>17 DEF trimVersionChains
<1>18. ASSUME NEW r \in Readers, ReaderStep(r) PROVE frozen'[<<w, s, o>>] >= 0
  <2>1. CASE frozen' = frozen
    BY <2>1
  <2>2. CASE frozen' # frozen
    <3>1. /\ frozen' = [frozen EXCEPT ![<<r, snap[r], obj[r]>>] = asOf[snap[r]][obj[r]]]
          /\ asOf[snap[r]][obj[r]] \in Nat
      BY <1>18, <2>2, FreshClone
    <3> QED
      BY <1>0, <3>1
  <2> QED
    BY <2>1, <2>2
<1>19. ASSUME UNCHANGED vars PROVE frozen'[<<w, s, o>>] >= 0
  BY <1>19
<1> QED
  BY <1>1, <1>2, <1>3, <1>4, <1>5, <1>6, <1>7, <1>8, <1>9, <1>10, <1>11, <1>12, <1>13, <1>14,
      <1>15, <1>16, <1>17, <1>18, <1>19 DEF Next, OwnerStep

(* An object written after a live snapshot stays so. *)
LEMMA EpochsKept ==
  ASSUME TypeInv, EpochInv, NEW s \in Snaps, NEW o \in Objs, phase[s] = "live", [Next]_vars
  PROVE  writeEpoch[o] >= epoch[s] => writeEpoch'[o] >= epoch'[s]
<1> USE DEF TypeInv, TypeOK, GlobalsOK, ObjectsOK, SnapsOK, ThreadsOK, PlaceInv, OwnerPlace,
    ReaderPlace, MutatePC, SnapPC, OwnerPC, ReaderPC, Threads, globalVars, objVars, snapVars,
    cloneVars, vars, Goto, At, Return, CloneCurrent, Release, FromChain, EpochInv, GlobalEpochs,
    SnapEpochs
<1>1. ASSUME NEW t \in Owners, NEW p \in Objs, NewObject(t,
    p) PROVE writeEpoch[o] >= epoch[s] => writeEpoch'[o] >= epoch'[s]
  BY <1>1 DEF NewObject
<1>2. ASSUME NEW t \in Owners, NEW p \in Objs, MutateBegin(t,
    p) PROVE writeEpoch[o] >= epoch[s] => writeEpoch'[o] >= epoch'[s]
  BY <1>2 DEF MutateBegin
<1>3. ASSUME NEW t \in Owners, NEW q \in Snaps, NEW p \in Objs, SnapClone(t, q,
    p) PROVE writeEpoch[o] >= epoch[s] => writeEpoch'[o] >= epoch'[s]
  BY <1>3 DEF SnapClone
<1>4. ASSUME NEW t \in Owners,
    GuardLock(t) PROVE writeEpoch[o] >= epoch[s] => writeEpoch'[o] >= epoch'[s]
  BY <1>4 DEF GuardLock
<1>5. ASSUME NEW t \in Owners,
    SaveVersion(t) PROVE writeEpoch[o] >= epoch[s] => writeEpoch'[o] >= epoch'[s]
  BY <1>5 DEF SaveVersion
<1>6. ASSUME NEW t \in Owners,
    SaveStamp(t) PROVE writeEpoch[o] >= epoch[s] => writeEpoch'[o] >= epoch'[s]
  BY <1>6 DEF SaveStamp
<1>7. ASSUME NEW t \in Owners,
    EnsureUnique(t) PROVE writeEpoch[o] >= epoch[s] => writeEpoch'[o] >= epoch'[s]
  BY <1>7 DEF EnsureUnique
<1>8. ASSUME NEW t \in Owners,
    Write(t) PROVE writeEpoch[o] >= epoch[s] => writeEpoch'[o] >= epoch'[s]
  BY <1>8 DEF Write
<1>9. ASSUME NEW t \in Owners,
    MutateThrow(t) PROVE writeEpoch[o] >= epoch[s] => writeEpoch'[o] >= epoch'[s]
  BY <1>9 DEF MutateThrow
<1>10. ASSUME NEW t \in Owners,
    Bump(t) PROVE writeEpoch[o] >= epoch[s] => writeEpoch'[o] >= epoch'[s]
  <2>1. epoch' = epoch /\ epoch[s] < globalWriteEpoch
    BY <1>10 DEF Bump
  <2>2. writeEpoch'[o] \in {writeEpoch[o], globalWriteEpoch}
    BY <1>10 DEF Bump
  <2>3. epoch[s] \in Nat /\ writeEpoch[o] \in Nat /\ globalWriteEpoch \in Nat
    OBVIOUS
  <2> QED
    BY ONLY <2>1, <2>2, <2>3
<1>11. ASSUME NEW t \in Owners,
    SnapEpoch(t) PROVE writeEpoch[o] >= epoch[s] => writeEpoch'[o] >= epoch'[s]
  BY <1>11 DEF SnapEpoch
<1>12. ASSUME NEW t \in Owners,
    publishSnapshotEpoch(t) PROVE writeEpoch[o] >= epoch[s] => writeEpoch'[o] >= epoch'[s]
  BY <1>12 DEF publishSnapshotEpoch
<1>13. ASSUME NEW t \in Owners,
    SnapTrack(t) PROVE writeEpoch[o] >= epoch[s] => writeEpoch'[o] >= epoch'[s]
  BY <1>13 DEF SnapTrack
<1>14. ASSUME NEW t \in Owners,
    SnapCount(t) PROVE writeEpoch[o] >= epoch[s] => writeEpoch'[o] >= epoch'[s]
  BY <1>14 DEF SnapCount
<1>15. ASSUME NEW q \in Snaps,
    SnapUntrack(q) PROVE writeEpoch[o] >= epoch[s] => writeEpoch'[o] >= epoch'[s]
  BY <1>15 DEF SnapUntrack
<1>16. ASSUME NEW q \in Snaps,
    SnapUncount(q) PROVE writeEpoch[o] >= epoch[s] => writeEpoch'[o] >= epoch'[s]
  BY <1>16 DEF SnapUncount
<1>17. ASSUME trimVersionChains PROVE writeEpoch[o] >= epoch[s] => writeEpoch'[o] >= epoch'[s]
  BY <1>17 DEF trimVersionChains
<1>18. ASSUME NEW r \in Readers,
    ReaderStep(r) PROVE writeEpoch[o] >= epoch[s] => writeEpoch'[o] >= epoch'[s]
  BY <1>18, ReaderFrame
<1>19. ASSUME UNCHANGED vars PROVE writeEpoch[o] >= epoch[s] => writeEpoch'[o] >= epoch'[s]
  BY <1>19
<1> QED
  BY <1>1, <1>2, <1>3, <1>4, <1>5, <1>6, <1>7, <1>8, <1>9, <1>10, <1>11, <1>12, <1>13, <1>14,
      <1>15, <1>16, <1>17, <1>18, <1>19 DEF Next, OwnerStep

(* What a reader knows outlives the steps of others: its snapshot is live, and
   write epochs only grow. *)
LEMMA ReadingKept ==
  ASSUME TypeInv, Protected, EpochInv, GuardInv, VersionsInv, ReaderInv, [Next]_vars,
         NEW u \in Readers, pc'[u] = pc[u], obj'[u] = obj[u], snap'[u] = snap[u]
  PROVE  Reading(u)'
<1>1. Reading(u)
  BY DEF ReaderInv
<1>2. CASE pc[u] = "idle"
  BY ONLY <1>2, pc'[u] = pc[u] DEF Reading
<1>3. CASE pc[u] # "idle"
  <2>1. snap[u] \in Snaps /\ obj[u] \in Objs /\ phase[snap[u]] = "live"
    BY <1>3, ReaderOn
  <2>2. writeEpoch[obj[u]] >= epoch[snap[u]] => writeEpoch'[obj[u]] >= epoch'[snap[u]]
    BY <2>1, EpochsKept
  <2>3. u \in Threads
    BY DEF Threads
  <2>4. frozen[<<u, snap[u], obj[u]>>] >= 0 => frozen'[<<u, snap[u], obj[u]>>] >= 0
    BY <2>1, <2>3, FrozenKept
  <2> QED
    BY ONLY <1>1, <2>2, <2>4, pc'[u] = pc[u], obj'[u] = obj[u], snap'[u] = snap[u] DEF Reading
<1> QED
  BY <1>2, <1>3

(* A reader's step moves no other reader. *)
LEMMA OtherReader ==
  ASSUME TypeInv, NEW r \in Readers, ReaderStep(r), NEW u \in Readers, r # u
  PROVE  pc'[u] = pc[u] /\ obj'[u] = obj[u] /\ snap'[u] = snap[u]
<1>1. /\ pc \in [Threads -> OwnerPC \union ReaderPC] /\ obj \in [Threads -> Objs \union {None}]
      /\ snap \in [Threads -> Snaps \union {None}] /\ u \in Threads
  BY DEF TypeInv, TypeOK, ThreadsOK, Threads
<1> USE DEF Goto, Return
<1>2. ASSUME NEW s \in Snaps, NEW o \in Objs, ResolveBegin(r, s, o)
      PROVE  pc'[u] = pc[u] /\ obj'[u] = obj[u] /\ snap'[u] = snap[u]
  BY <1>1, <1>2 DEF ResolveBegin
<1>3. CASE ResolveMap(r)
  BY <1>1, <1>3 DEF ResolveMap
<1>4. CASE ResolveEpoch(r) \/ ResolveLocked(r)
  BY <1>1, <1>4 DEF ResolveEpoch, ResolveLocked
<1>5. CASE ResolveChain(r) \/ ResolveAgain(r)
  BY <1>1, <1>5 DEF ResolveChain, ResolveAgain, FromChain
<1>6. CASE ResolveInsert(r)
  BY <1>1, <1>6 DEF ResolveInsert
<1> QED
  BY <1>2, <1>3, <1>4, <1>5, <1>6 DEF ReaderStep

(* A reader finds its version: the chain has it whenever the object was written
   after the snapshot, so the read never throws. *)
LEMMA ReadingStep ==
  ASSUME TypeInv, Protected, EpochInv, GuardInv, VersionsInv, ReaderInv, NEW u \in Readers,
         [Next]_vars
  PROVE  Reading(u)'
<1>1. ASSUME NEW t \in Owners, OwnerStep(t) PROVE Reading(u)'
  <2>1. u \in Threads \ {t}
    BY Apart DEF Threads
  <2> QED
    BY <1>1, <2>1, OwnerFrame, ReadingKept
<1>2. ASSUME NEW r \in Readers, ReaderStep(r), r # u PROVE Reading(u)'
  BY <1>2, OtherReader, ReadingKept
<1>3. ASSUME ReaderStep(u), frozen' # frozen PROVE Reading(u)'
  <2>1. /\ pc' = [pc EXCEPT ![u] = "insert"] /\ obj' = obj /\ snap' = snap
        /\ frozen' = [frozen EXCEPT ![<<u, snap[u], obj[u]>>] = asOf[snap[u]][obj[u]]]
        /\ asOf[snap[u]][obj[u]] \in Nat /\ pc[u] # "idle"
    BY <1>3, FreshClone
  <2>2. <<u, snap[u], obj[u]>> \in Clones /\ u \in Threads
    BY <2>1, ReaderOn DEF Threads
  <2>3. frozen \in [Clones -> Nat \union {-1}] /\ pc \in [Threads -> OwnerPC \union ReaderPC]
    BY DEF TypeInv, TypeOK, ClonesOK, ThreadsOK
  <2> QED
    BY ONLY <2>1, <2>2, <2>3 DEF Reading
<1>4. ASSUME ReaderStep(u), frozen' = frozen PROVE Reading(u)'
  <2>1. Reading(u) /\ u \in Threads /\ pc \in [Threads -> OwnerPC \union ReaderPC]
    BY DEF ReaderInv, TypeInv, TypeOK, ThreadsOK, Threads
  <2>2. UNCHANGED <<writeEpoch, epoch>>
    BY <1>4, ReaderFrame DEF objVars
  <2>3. ASSUME pc'[u] \in {"chain", "again"} PROVE writeEpoch'[obj'[u]] >= epoch'[snap'[u]]
    <3>1. CASE ResolveEpoch(u)
      <4>1. /\ ~(writeEpoch[obj[u]] < epoch[snap[u]])
            /\ obj' = obj /\ snap' = snap /\ pc[u] # "idle"
        BY <2>1, <2>3, <3>1 DEF ResolveEpoch, Goto, At
      <4>2. writeEpoch[obj[u]] \in Nat /\ epoch[snap[u]] \in Nat
        BY <4>1, ReaderOn DEF TypeInv, TypeOK, ObjectsOK, SnapsOK
      <4> QED
        BY <2>2, <4>1, <4>2
    <3>2. CASE ResolveLocked(u)
      <4>1. /\ ~(writeEpoch[obj[u]] < epoch[snap[u]])
            /\ obj' = obj /\ snap' = snap /\ pc[u] # "idle"
        BY <2>1, <2>3, <3>2 DEF ResolveLocked, Goto, At
      <4>2. writeEpoch[obj[u]] \in Nat /\ epoch[snap[u]] \in Nat
        BY <4>1, ReaderOn DEF TypeInv, TypeOK, ObjectsOK, SnapsOK
      <4> QED
        BY <2>2, <4>1, <4>2
    <3> QED
      BY <1>4, <2>1, <2>3, <3>1, <3>2
         DEF ReaderStep, ResolveBegin, ResolveMap, ResolveChain, ResolveAgain, ResolveInsert,
             FromChain, Return, Goto
  <2>4. ASSUME pc'[u] = "insert" PROVE frozen'[<<u, snap'[u], obj'[u]>>] >= 0
    <3>1. CASE ResolveLocked(u)
      <4>1. /\ pc[u] = "lock" /\ cowLock[obj[u]] = None /\ writeEpoch[obj[u]] < epoch[snap[u]]
            /\ frozen' = [frozen EXCEPT ![<<u, snap[u], obj[u]>>] = data[obj[u]]]
            /\ obj' = obj /\ snap' = snap
        BY <2>1, <2>4, <3>1 DEF ResolveLocked, CloneCurrent, Goto, At
      <4>2. data[obj[u]] >= 0
        BY <4>1, LockFree
      <4>3. <<u, snap[u], obj[u]>> \in Clones /\ frozen \in [Clones -> Nat \union {-1}]
        BY <4>1, ReaderOn DEF TypeInv, TypeOK, ClonesOK
      <4> QED
        BY ONLY <4>1, <4>2, <4>3
    <3>2. CASE ResolveChain(u) \/ ResolveAgain(u)
      <4>1. /\ pc[u] \in {"chain", "again"} /\ obj' = obj /\ snap' = snap
            /\ frozen' = [frozen EXCEPT ![<<u, snap[u], obj[u]>>] =
                            versionChain[obj[u]][VersionFor(obj[u], epoch[snap[u]])].state]
        BY <2>1, <2>4, <3>2 DEF ResolveChain, ResolveAgain, FromChain, Goto, At
      <4>2. /\ versionChain[obj[u]][VersionFor(obj[u], epoch[snap[u]])].state
                 = asOf[snap[u]][obj[u]]
            /\ asOf[snap[u]][obj[u]] >= 0
        BY <4>1, ReaderFinds
      <4>3. <<u, snap[u], obj[u]>> \in Clones /\ frozen \in [Clones -> Nat \union {-1}]
        BY <4>1, ReaderOn DEF TypeInv, TypeOK, ClonesOK
      <4> QED
        BY ONLY <4>1, <4>2, <4>3
    <3> QED
      BY <1>4, <2>1, <2>4, <3>1, <3>2
         DEF ReaderStep, ResolveBegin, ResolveMap, ResolveEpoch, ResolveInsert, Return, Goto
  <2>5. pc'[u] # "failed"
    <3>1. CASE ResolveAgain(u)
      <4>1. pc[u] \in {"chain", "again"}
        BY <3>1 DEF ResolveAgain, At
      <4>2. VersionsFor(obj[u], epoch[snap[u]]) # {}
        BY <4>1, ReaderFinds
      <4> QED
        BY <2>1, <3>1, <4>2 DEF ResolveAgain, FromChain, Goto
    <3> QED
      BY <1>4, <2>1, <3>1
         DEF ReaderStep, ResolveBegin, ResolveMap, ResolveEpoch, ResolveChain, ResolveLocked,
             ResolveInsert, FromChain, Return, Goto
  <2> QED
    BY ONLY <2>3, <2>4, <2>5 DEF Reading
<1>5. ASSUME NEW q \in Snaps, SnapUntrack(q) \/ SnapUncount(q) PROVE Reading(u)'
  BY <1>5, ReadingKept DEF SnapUntrack, SnapUncount
<1>6. ASSUME trimVersionChains PROVE Reading(u)'
  BY <1>6, ReadingKept DEF trimVersionChains
<1>7. ASSUME UNCHANGED vars PROVE Reading(u)'
  BY <1>7, ReadingKept DEF vars
<1> QED
  BY <1>1, <1>2, <1>3, <1>4, <1>5, <1>6, <1>7 DEF Next

(* A clone of a snapshot shows what the snapshot promises: it is made so, and no write
   reaches its storage. *)
LEMMA CloneShowsStep ==
  ASSUME TypeInv, Protected, EpochInv, GuardInv, VersionsInv, UniqueInv, ReaderInv, CloneInv,
      NEW w \in Threads, NEW s \in Snaps, NEW o \in Objs, [Next]_vars
  PROVE  CloneShows(w, s, o)'
<1> USE DEF TypeInv, TypeOK, GlobalsOK, ObjectsOK, SnapsOK, ClonesOK, ThreadsOK, PlaceInv,
    OwnerPlace, ReaderPlace, MutatePC, SnapPC, OwnerPC, ReaderPC, Threads, globalVars, objVars,
    snapVars, cloneVars, vars, Goto, At, Return, CloneCurrent, Release, FromChain, CloneShows
<1>0. <<w, s, o>> \in Clones /\ frozen \in [Clones -> Nat \union {-1}]
  BY DEF Clones
<1>a. CloneShows(w, s, o)
  BY DEF CloneInv
<1>1. ASSUME NEW t \in Owners, NEW p \in Objs, NewObject(t, p) PROVE CloneShows(w, s, o)'
  BY <1>1, <1>0, <1>a DEF NewObject
<1>2. ASSUME NEW t \in Owners, NEW p \in Objs, MutateBegin(t, p) PROVE CloneShows(w, s, o)'
  BY <1>2, <1>0, <1>a DEF MutateBegin
<1>3. ASSUME NEW t \in Owners, NEW q \in Snaps, NEW p \in Objs, SnapClone(t, q,
    p) PROVE CloneShows(w, s, o)'
  <2>1. /\ frozen' = [frozen EXCEPT ![<<t, q, p>>] = data[p]] /\ phase[q] = "unused"
        /\ phase' = [phase EXCEPT ![q] = "made"] /\ world.owner[p] = t
        /\ asOf' = [asOf EXCEPT ![q] = [x \in Objs |-> IF world.owner[x] = t THEN data[x] ELSE -1]]
    BY <1>3 DEF SnapClone
  <2>2. phase \in [Snaps -> {"unused", "made", "live", "dying",
      "gone"}] /\ asOf \in [Snaps -> [Objs -> Nat \union {-1}]]
    OBVIOUS
  <2>3. CASE s = q
    <3>1. frozen[<<w, s, o>>] = -1 /\ phase'[s] = "made"
      BY ONLY <2>1, <2>2, <2>3, <1>a DEF CloneShows
    <3>2. frozen'[<<w, s, o>>] = IF <<w, s, o>> = <<t, q, p>> THEN data[p] ELSE -1
      BY ONLY <2>1, <3>1, <1>0
    <3>3. <<w, s, o>> = <<t, q, p>> => asOf'[s][o] = data[p]
      BY ONLY <2>1, <2>2, <2>3, o \in Objs, q \in Snaps
    <3> QED
      BY ONLY <3>1, <3>2, <3>3 DEF CloneShows
  <2>4. CASE s # q
    <3>1. phase'[s] = phase[s] /\ asOf'[s] = asOf[s] /\ frozen'[<<w, s, o>>] = frozen[<<w, s, o>>]
      BY ONLY <2>1, <2>2, <2>4, <1>0
    <3> QED
      BY ONLY <3>1, <1>a DEF CloneShows
  <2> QED
    BY <2>3, <2>4
<1>4. ASSUME NEW t \in Owners, GuardLock(t) PROVE CloneShows(w, s, o)'
  BY <1>4, <1>0, <1>a DEF GuardLock
<1>5. ASSUME NEW t \in Owners, SaveVersion(t) PROVE CloneShows(w, s, o)'
  BY <1>5, <1>0, <1>a DEF SaveVersion
<1>6. ASSUME NEW t \in Owners, SaveStamp(t) PROVE CloneShows(w, s, o)'
  BY <1>6, <1>0, <1>a DEF SaveStamp
<1>7. ASSUME NEW t \in Owners, EnsureUnique(t) PROVE CloneShows(w, s, o)'
  BY <1>7, <1>0, <1>a DEF EnsureUnique
<1>8. ASSUME NEW t \in Owners, Write(t) PROVE CloneShows(w, s, o)'
  <2>1. /\ frozen' = [c \in Clones |-> IF c \in shared /\ c[3] = obj[t] THEN data[obj[t]] + 1 ELSE frozen[c]]
        /\ pc[t] = "write" /\ UNCHANGED <<phase, asOf>>
    BY <1>8 DEF Write
  <2>2. \A c \in shared : c[3] # obj[t]
    BY <2>1 DEF UniqueInv, Unique
  <2>3. frozen'[<<w, s, o>>] = frozen[<<w, s, o>>]
    BY ONLY <2>1, <2>2, <1>0
  <2> QED
    BY ONLY <2>1, <2>3, <1>a DEF CloneShows
<1>9. ASSUME NEW t \in Owners, MutateThrow(t) PROVE CloneShows(w, s, o)'
  BY <1>9, <1>0, <1>a DEF MutateThrow
<1>10. ASSUME NEW t \in Owners, Bump(t) PROVE CloneShows(w, s, o)'
  BY <1>10, <1>0, <1>a DEF Bump
<1>11. ASSUME NEW t \in Owners, SnapEpoch(t) PROVE CloneShows(w, s, o)'
  BY <1>11, <1>0, <1>a DEF SnapEpoch
<1>12. ASSUME NEW t \in Owners, publishSnapshotEpoch(t) PROVE CloneShows(w, s, o)'
  BY <1>12, <1>0, <1>a DEF publishSnapshotEpoch
<1>13. ASSUME NEW t \in Owners, SnapTrack(t) PROVE CloneShows(w, s, o)'
  BY <1>13, <1>0, <1>a DEF SnapTrack
<1>14. ASSUME NEW t \in Owners, SnapCount(t) PROVE CloneShows(w, s, o)'
  BY <1>14, <1>0, <1>a DEF SnapCount
<1>15. ASSUME NEW q \in Snaps, SnapUntrack(q) PROVE CloneShows(w, s, o)'
  BY <1>15, <1>0, <1>a DEF SnapUntrack
<1>16. ASSUME NEW q \in Snaps, SnapUncount(q) PROVE CloneShows(w, s, o)'
  <2>1. /\ frozen' = [c \in Clones |-> IF c[2] = q THEN -1 ELSE frozen[c]] /\ phase[q] = "dying"
        /\ phase' = [phase EXCEPT ![q] = "gone"] /\ asOf' = asOf
    BY <1>16 DEF SnapUncount
  <2>2. phase \in [Snaps -> {"unused", "made", "live", "dying", "gone"}]
    OBVIOUS
  <2>3. CASE s = q
    BY ONLY <2>1, <2>2, <2>3 DEF CloneShows
  <2>4. CASE s # q
    <3>1. phase'[s] = phase[s] /\ frozen'[<<w, s, o>>] = frozen[<<w, s, o>>]
      BY ONLY <2>1, <2>2, <2>4, <1>0
    <3> QED
      BY ONLY <2>1, <3>1, <1>a DEF CloneShows
  <2> QED
    BY <2>3, <2>4
<1>17. ASSUME trimVersionChains PROVE CloneShows(w, s, o)'
  BY <1>17, <1>0, <1>a DEF trimVersionChains
<1>18. ASSUME NEW r \in Readers, ReaderStep(r) PROVE CloneShows(w, s, o)'
  <2>1. UNCHANGED <<phase, asOf>>
    BY <1>18, ReaderFrame
  <2>2. CASE frozen' = frozen
    BY ONLY <2>1, <2>2, <1>a DEF CloneShows
  <2>3. CASE frozen' # frozen
    <3>1. /\ frozen' = [frozen EXCEPT ![<<r, snap[r], obj[r]>>] = asOf[snap[r]][obj[r]]]
          /\ pc[r] # "idle"
      BY <1>18, <2>3, FreshClone
    <3>2. phase[snap[r]] = "live"
      BY <3>1, ReaderOn
    <3> QED
      BY ONLY <2>1, <3>1, <3>2, <1>0, <1>a DEF CloneShows
  <2> QED
    BY <2>2, <2>3
<1>19. ASSUME UNCHANGED vars PROVE CloneShows(w, s, o)'
  BY <1>19, <1>0, <1>a
<1> QED
  BY <1>1, <1>2, <1>3, <1>4, <1>5, <1>6, <1>7, <1>8, <1>9, <1>10, <1>11, <1>12, <1>13, <1>14,
      <1>15, <1>16, <1>17, <1>18, <1>19 DEF Next, OwnerStep

(* A clone given out stays what a reader may hold. *)
LEMMA GivenKept ==
  ASSUME TypeInv, Protected, EpochInv, GuardInv, VersionsInv, ReaderInv, [Next]_vars,
         NEW w \in Threads, NEW s \in Snaps, NEW o \in Objs, Given(w, s, o)
  PROVE  Given(w, s, o)'
<1>1. phase[s] \in {"live", "dying", "gone"} /\ (phase[s] = "live" => frozen[<<w, s, o>>] >= 0)
  BY DEF Given
<1>2. phase'[s] \in {"live", "dying", "gone"} /\ (phase'[s] = "live" => phase[s] = "live")
  BY <1>1, PhaseStep
<1>3. phase[s] = "live" => frozen'[<<w, s, o>>] >= 0
  BY <1>1, FrozenKept
<1> QED
  BY ONLY <1>2, <1>3 DEF Given

(* A reader is given clones that are made. *)
LEMMA GotStep ==
  ASSUME TypeInv, Protected, EpochInv, GuardInv, VersionsInv, UniqueInv, ReaderInv, CloneInv,
      NEW v \in Readers, NEW w \in Threads, NEW s \in Snaps, NEW o \in Objs, [Next]_vars
  PROVE  <<w, s, o>> \in got'[v] => <<w, s, o>> \in got[v] \/ Given(w, s, o)
<1> USE DEF globalVars, objVars, snapVars, cloneVars, vars, Goto, At, Return
<1>0. got \in [Readers -> SUBSET Clones]
  BY DEF TypeInv, TypeOK, ClonesOK
<1>1. ASSUME NEW t \in Owners, NEW p \in Objs, NewObject(t, p) PROVE <<w, s,
    o>> \in got'[v] => <<w, s, o>> \in got[v] \/ Given(w, s, o)
  BY <1>1 DEF NewObject
<1>2. ASSUME NEW t \in Owners, NEW p \in Objs, MutateBegin(t, p) PROVE <<w, s,
    o>> \in got'[v] => <<w, s, o>> \in got[v] \/ Given(w, s, o)
  BY <1>2 DEF MutateBegin
<1>3. ASSUME NEW t \in Owners, NEW q \in Snaps, NEW p \in Objs, SnapClone(t, q, p) PROVE <<w, s,
    o>> \in got'[v] => <<w, s, o>> \in got[v] \/ Given(w, s, o)
  BY <1>3 DEF SnapClone
<1>4. ASSUME NEW t \in Owners, GuardLock(t) PROVE <<w, s, o>> \in got'[v] => <<w, s,
    o>> \in got[v] \/ Given(w, s, o)
  BY <1>4 DEF GuardLock
<1>5. ASSUME NEW t \in Owners, SaveVersion(t) PROVE <<w, s, o>> \in got'[v] => <<w, s,
    o>> \in got[v] \/ Given(w, s, o)
  BY <1>5 DEF SaveVersion
<1>6. ASSUME NEW t \in Owners, SaveStamp(t) PROVE <<w, s, o>> \in got'[v] => <<w, s,
    o>> \in got[v] \/ Given(w, s, o)
  BY <1>6 DEF SaveStamp
<1>7. ASSUME NEW t \in Owners, EnsureUnique(t) PROVE <<w, s, o>> \in got'[v] => <<w, s,
    o>> \in got[v] \/ Given(w, s, o)
  BY <1>7 DEF EnsureUnique
<1>8. ASSUME NEW t \in Owners, Write(t) PROVE <<w, s, o>> \in got'[v] => <<w, s,
    o>> \in got[v] \/ Given(w, s, o)
  BY <1>8 DEF Write
<1>9. ASSUME NEW t \in Owners, MutateThrow(t) PROVE <<w, s, o>> \in got'[v] => <<w, s,
    o>> \in got[v] \/ Given(w, s, o)
  BY <1>9 DEF MutateThrow
<1>10. ASSUME NEW t \in Owners, Bump(t) PROVE <<w, s, o>> \in got'[v] => <<w, s,
    o>> \in got[v] \/ Given(w, s, o)
  BY <1>10 DEF Bump
<1>11. ASSUME NEW t \in Owners, SnapEpoch(t) PROVE <<w, s, o>> \in got'[v] => <<w, s,
    o>> \in got[v] \/ Given(w, s, o)
  BY <1>11 DEF SnapEpoch
<1>12. ASSUME NEW t \in Owners, publishSnapshotEpoch(t) PROVE <<w, s, o>> \in got'[v] => <<w, s,
    o>> \in got[v] \/ Given(w, s, o)
  BY <1>12 DEF publishSnapshotEpoch
<1>13. ASSUME NEW t \in Owners, SnapTrack(t) PROVE <<w, s, o>> \in got'[v] => <<w, s,
    o>> \in got[v] \/ Given(w, s, o)
  BY <1>13 DEF SnapTrack
<1>14. ASSUME NEW t \in Owners, SnapCount(t) PROVE <<w, s, o>> \in got'[v] => <<w, s,
    o>> \in got[v] \/ Given(w, s, o)
  BY <1>14 DEF SnapCount
<1>15. ASSUME NEW q \in Snaps, SnapUntrack(q) PROVE <<w, s, o>> \in got'[v] => <<w, s,
    o>> \in got[v] \/ Given(w, s, o)
  BY <1>15 DEF SnapUntrack
<1>16. ASSUME NEW q \in Snaps, SnapUncount(q) PROVE <<w, s, o>> \in got'[v] => <<w, s,
    o>> \in got[v] \/ Given(w, s, o)
  BY <1>16 DEF SnapUncount
<1>17. ASSUME trimVersionChains PROVE <<w, s, o>> \in got'[v] => <<w, s, o>> \in got[v] \/ Given(w,
    s, o)
  BY <1>17 DEF trimVersionChains
<1>18. ASSUME NEW r \in Readers, ReaderStep(r) PROVE <<w, s, o>> \in got'[v] => <<w, s,
    o>> \in got[v] \/ Given(w, s, o)
  <2>1. CASE ResolveMap(r)
    <3>1. /\ \/ got' = got
             \/ /\ got' = [got EXCEPT
                     ![r] = got[r] \union {<<cloneMap[snap[r]][obj[r]], snap[r], obj[r]>>}]
                /\ cloneMap[snap[r]][obj[r]] # None
          /\ pc[r] # "idle"
      BY <2>1 DEF ResolveMap
    <3>2. snap[r] \in Snaps /\ obj[r] \in Objs
      BY <3>1, ReaderOn
    <3>3. cloneMap[snap[r]][obj[r]] # None => Given(cloneMap[snap[r]][obj[r]], snap[r], obj[r])
      BY <3>2 DEF CloneInv
    <3> QED
      BY ONLY <1>0, <3>1, <3>3, v \in Readers, r \in Readers
  <2>2. CASE ResolveInsert(r)
    <3>1. got' = [got EXCEPT ![r] = got[r] \union {<<r, snap[r], obj[r]>>}] /\ pc[r] = "insert"
      BY <2>2 DEF ResolveInsert
    <3>2. phase[snap[r]] = "live"
      BY <3>1, ReaderOn
    <3>3. Given(r, snap[r], obj[r])
      BY <3>1, <3>2 DEF Given, ReaderInv, Reading
    <3> QED
      BY ONLY <1>0, <3>1, <3>3, v \in Readers, r \in Readers
  <2>3. CASE ~ResolveMap(r) /\ ~ResolveInsert(r)
    <3>1. got' = got
      BY <1>18, <2>3 DEF ReaderStep, ResolveBegin, ResolveEpoch, ResolveChain, ResolveLocked,
          ResolveAgain
    <3> QED
      BY <3>1
  <2> QED
    BY <2>1, <2>2, <2>3
<1>19. ASSUME UNCHANGED vars PROVE <<w, s, o>> \in got'[v] => <<w, s, o>> \in got[v] \/ Given(w, s,
    o)
  BY <1>19
<1> QED
  BY <1>1, <1>2, <1>3, <1>4, <1>5, <1>6, <1>7, <1>8, <1>9, <1>10, <1>11, <1>12, <1>13, <1>14,
      <1>15, <1>16, <1>17, <1>18, <1>19 DEF Next, OwnerStep

(* The clones entered in a snapshot's map are made. *)
LEMMA MapStep ==
  ASSUME TypeInv, Protected, EpochInv, GuardInv, VersionsInv, UniqueInv, ReaderInv, CloneInv,
      NEW s \in Snaps, NEW o \in Objs, [Next]_vars
  PROVE  cloneMap'[s][o] = cloneMap[s][o] \/ Given(cloneMap'[s][o], s, o)
<1> USE DEF globalVars, objVars, snapVars, cloneVars, vars, Goto, At, Return
<1>0. cloneMap \in [Snaps -> [Objs -> Readers \union {None}]]
  BY DEF TypeInv, TypeOK, SnapsOK
<1>1. ASSUME NEW t \in Owners, NEW p \in Objs, NewObject(t,
    p) PROVE cloneMap'[s][o] = cloneMap[s][o] \/ Given(cloneMap'[s][o], s, o)
  BY <1>1 DEF NewObject
<1>2. ASSUME NEW t \in Owners, NEW p \in Objs, MutateBegin(t,
    p) PROVE cloneMap'[s][o] = cloneMap[s][o] \/ Given(cloneMap'[s][o], s, o)
  BY <1>2 DEF MutateBegin
<1>3. ASSUME NEW t \in Owners, NEW q \in Snaps, NEW p \in Objs, SnapClone(t, q,
    p) PROVE cloneMap'[s][o] = cloneMap[s][o] \/ Given(cloneMap'[s][o], s, o)
  BY <1>3 DEF SnapClone
<1>4. ASSUME NEW t \in Owners,
    GuardLock(t) PROVE cloneMap'[s][o] = cloneMap[s][o] \/ Given(cloneMap'[s][o], s, o)
  BY <1>4 DEF GuardLock
<1>5. ASSUME NEW t \in Owners,
    SaveVersion(t) PROVE cloneMap'[s][o] = cloneMap[s][o] \/ Given(cloneMap'[s][o], s, o)
  BY <1>5 DEF SaveVersion
<1>6. ASSUME NEW t \in Owners,
    SaveStamp(t) PROVE cloneMap'[s][o] = cloneMap[s][o] \/ Given(cloneMap'[s][o], s, o)
  BY <1>6 DEF SaveStamp
<1>7. ASSUME NEW t \in Owners,
    EnsureUnique(t) PROVE cloneMap'[s][o] = cloneMap[s][o] \/ Given(cloneMap'[s][o], s, o)
  BY <1>7 DEF EnsureUnique
<1>8. ASSUME NEW t \in Owners,
    Write(t) PROVE cloneMap'[s][o] = cloneMap[s][o] \/ Given(cloneMap'[s][o], s, o)
  BY <1>8 DEF Write
<1>9. ASSUME NEW t \in Owners,
    MutateThrow(t) PROVE cloneMap'[s][o] = cloneMap[s][o] \/ Given(cloneMap'[s][o], s, o)
  BY <1>9 DEF MutateThrow
<1>10. ASSUME NEW t \in Owners,
    Bump(t) PROVE cloneMap'[s][o] = cloneMap[s][o] \/ Given(cloneMap'[s][o], s, o)
  BY <1>10 DEF Bump
<1>11. ASSUME NEW t \in Owners,
    SnapEpoch(t) PROVE cloneMap'[s][o] = cloneMap[s][o] \/ Given(cloneMap'[s][o], s, o)
  BY <1>11 DEF SnapEpoch
<1>12. ASSUME NEW t \in Owners,
    publishSnapshotEpoch(t) PROVE cloneMap'[s][o] = cloneMap[s][o] \/ Given(cloneMap'[s][o], s, o)
  BY <1>12 DEF publishSnapshotEpoch
<1>13. ASSUME NEW t \in Owners,
    SnapTrack(t) PROVE cloneMap'[s][o] = cloneMap[s][o] \/ Given(cloneMap'[s][o], s, o)
  BY <1>13 DEF SnapTrack
<1>14. ASSUME NEW t \in Owners,
    SnapCount(t) PROVE cloneMap'[s][o] = cloneMap[s][o] \/ Given(cloneMap'[s][o], s, o)
  BY <1>14 DEF SnapCount
<1>15. ASSUME NEW q \in Snaps,
    SnapUntrack(q) PROVE cloneMap'[s][o] = cloneMap[s][o] \/ Given(cloneMap'[s][o], s, o)
  BY <1>15 DEF SnapUntrack
<1>16. ASSUME NEW q \in Snaps,
    SnapUncount(q) PROVE cloneMap'[s][o] = cloneMap[s][o] \/ Given(cloneMap'[s][o], s, o)
  BY <1>16 DEF SnapUncount
<1>17. ASSUME trimVersionChains PROVE cloneMap'[s][o] = cloneMap[s][o] \/ Given(cloneMap'[s][o], s,
    o)
  BY <1>17 DEF trimVersionChains
<1>18. ASSUME NEW r \in Readers,
    ReaderStep(r) PROVE cloneMap'[s][o] = cloneMap[s][o] \/ Given(cloneMap'[s][o], s, o)
  <2>1. CASE ResolveInsert(r)
    <3>1. cloneMap' = [cloneMap EXCEPT ![snap[r]][obj[r]] = r] /\ pc[r] = "insert"
      BY <2>1 DEF ResolveInsert
    <3>2. phase[snap[r]] = "live" /\ snap[r] \in Snaps /\ obj[r] \in Objs
      BY <3>1, ReaderOn
    <3>3. Given(r, snap[r], obj[r])
      BY <3>1, <3>2 DEF Given, ReaderInv, Reading
    <3>4. CASE s = snap[r] /\ o = obj[r]
      BY ONLY <1>0, <3>1, <3>2, <3>3, <3>4
    <3>5. CASE ~(s = snap[r] /\ o = obj[r])
      BY ONLY <1>0, <3>1, <3>2, <3>5, s \in Snaps, o \in Objs
    <3> QED
      BY <3>4, <3>5
  <2>2. CASE ~ResolveInsert(r)
    <3>1. cloneMap' = cloneMap
      BY <1>18, <2>2 DEF ReaderStep, ResolveBegin, ResolveMap, ResolveEpoch, ResolveChain,
          ResolveLocked, ResolveAgain
    <3> QED
      BY <3>1
  <2> QED
    BY <2>1, <2>2
<1>19. ASSUME UNCHANGED vars PROVE cloneMap'[s][o] = cloneMap[s][o] \/ Given(cloneMap'[s][o], s, o)
  BY <1>19
<1> QED
  BY <1>1, <1>2, <1>3, <1>4, <1>5, <1>6, <1>7, <1>8, <1>9, <1>10, <1>11, <1>12, <1>13, <1>14,
      <1>15, <1>16, <1>17, <1>18, <1>19 DEF Next, OwnerStep

(* The clones part is kept. *)
LEMMA CloneStep ==
  ASSUME TypeInv, Protected, EpochInv, GuardInv, VersionsInv, UniqueInv, ReaderInv, CloneInv,
         TypeInv', [Next]_vars
  PROVE  CloneInv'
<1>1. ASSUME NEW t \in Threads, NEW s \in Snaps, NEW o \in Objs PROVE CloneShows(t, s, o)'
  BY CloneShowsStep
<1>2. ASSUME NEW t \in Threads, NEW s \in Snaps, NEW o \in Objs, NEW r \in Readers,
             <<t, s, o>> \in got'[r]
      PROVE  Given(t, s, o)'
  <2>1. <<t, s, o>> \in got[r] \/ Given(t, s, o)
    BY <1>2, GotStep
  <2>2. Given(t, s, o)
    BY <2>1 DEF CloneInv
  <2> QED
    BY <2>2, GivenKept
<1>3. ASSUME NEW s \in Snaps, NEW o \in Objs, cloneMap'[s][o] # None
      PROVE  Given(cloneMap[s][o], s, o)'
  <2>1. cloneMap'[s][o] \in Threads
    BY <1>3 DEF TypeInv, TypeOK, SnapsOK, Threads
  <2>2. Given(cloneMap'[s][o], s, o)
    BY <1>3, MapStep DEF CloneInv
  <2>3. PICK w \in Threads : w = cloneMap'[s][o]
    BY <2>1
  <2>4. Given(w, s, o)'
    BY <2>2, <2>3, GivenKept
  <2> QED
    BY ONLY <2>3, <2>4 DEF Given
<1> QED
  BY ONLY <1>1, <1>2, <1>3 DEF CloneInv

-----------------------------------------------------------------------------
(* The invariant and the theorems *)

Inv ==
  /\ TypeInv /\ EpochInv /\ MadeInv /\ GuardInv /\ SaveInv /\ LastingInv
  /\ VersionsInv /\ UniqueInv /\ ReaderInv /\ CloneInv

(* Before anything happens there is no object, no snapshot and no clone. *)
LEMMA InitInv ==
  ASSUME Init, Protected PROVE Inv
<1>1. TypeInv
  BY InitType
<1>2. /\ \A t \in Threads : pc[t] = "idle" /\ obj[t] = None /\ snap[t] = None
      /\ \A s \in Snaps : phase[s] = "unused" /\ epoch[s] = 0
      /\ \A o \in Objs : data[o] = -1 /\ writeEpoch[o] = 0 /\ lastSaveEpoch[o] = 0
      /\ \A s \in Snaps, o \in Objs : cloneMap[s][o] = None
      /\ globalWriteEpoch = 1 /\ latestSnapshotCreationEpoch = 0 /\ activeSnapshotCount = 0
      /\ \A r \in Readers : got[r] = {}
      /\ \A c \in Clones : frozen[c] = -1
  BY DEF Init
<1>3. Owners \subseteq Threads /\ Readers \subseteq Threads /\ \A o \in Objs : world.owner[o] \in Owners
  BY <1>1, ConstantsOK DEF TypeInv, WorldOK, Threads
<1>4. EpochInv
  BY <1>2, <1>3 DEF EpochInv, GlobalEpochs, SnapEpochs, MakerEpochs
<1>5. MadeInv /\ GuardInv /\ UniqueInv
  BY <1>2, <1>3 DEF MadeInv, Made, GuardInv, Guards, UniqueInv, Unique, MutatePC
<1>6. SaveInv /\ LastingInv
  BY <1>2, <1>3 DEF SaveInv, Save, In, MutatePC, LastingInv
<1>7. VersionsInv
  BY <1>2 DEF VersionsInv, CurrentOK, ChainOK, Covered
<1>8. ReaderInv
  BY <1>2, <1>3 DEF ReaderInv, Reading
<1>9. CloneInv
  BY <1>2 DEF CloneInv, CloneShows, Given, Clones
<1> QED
  BY <1>1, <1>4, <1>5, <1>6, <1>7, <1>8, <1>9 DEF Inv

(* Every step keeps the invariant. *)
LEMMA InvStep ==
  ASSUME Protected, Inv, [Next]_vars PROVE Inv'
<1> USE DEF Inv
<1>1. TypeInv'
  BY TypeStep
<1>2. EpochInv'
  BY GlobalEpochsStep, SnapEpochsStep, MakerEpochsStep DEF EpochInv
<1>3. MadeInv'
  BY MadeStep DEF MadeInv
<1>4. GuardInv'
  BY GuardStep DEF GuardInv, Protected
<1>5. SaveInv' /\ LastingInv'
  BY SaveStep, LastingStep DEF SaveInv
<1>6. VersionsInv'
  BY CurrentStep, ChainStep DEF VersionsInv
<1>7. UniqueInv'
  BY UniqueStep DEF UniqueInv
<1>8. ReaderInv'
  BY ReadingStep DEF ReaderInv
<1>9. CloneInv'
  BY <1>1, CloneStep
<1> QED
  BY <1>1, <1>2, <1>3, <1>4, <1>5, <1>6, <1>7, <1>8, <1>9

(* The invariant gives isolation: a clone handed out or a root clone is a made
   clone of its snapshot. *)
LEMMA InvIsolation ==
  ASSUME Inv PROVE SnapshotIsolation
<1> DEFINE Handed == UNION {got[r] : r \in Readers}
           Roots  == {c \in RootClones : frozen[c] >= 0}
<1> SUFFICES \A c \in Handed \union Roots :
               phase[c[2]] = "live" => frozen[c] = asOf[c[2]][c[3]]
  BY Zenon DEF SnapshotIsolation
<1> HIDE DEF Handed, Roots
<1> SUFFICES ASSUME NEW c \in Handed \union Roots, phase[c[2]] = "live"
             PROVE  frozen[c] = asOf[c[2]][c[3]]
  OBVIOUS
<1>1. TypeInv /\ CloneInv
  BY DEF Inv
<1>2. CASE c \in Handed
  <2>1. PICK r \in Readers : c \in got[r]
    BY <1>2 DEF Handed
  <2>2. PICK t \in Threads, s \in Snaps, o \in Objs : c = <<t, s, o>>
    BY <1>1, <2>1 DEF TypeInv, TypeOK, ClonesOK, Clones
  <2>3. Given(t, s, o) /\ CloneShows(t, s, o)
    BY <1>1, <2>1, <2>2 DEF CloneInv
  <2> QED
    BY <2>2, <2>3 DEF Given, CloneShows
<1>3. CASE c \in Roots
  <2>1. PICK s \in Snaps, o \in Objs : c = <<world.owner[o], s, o>> /\ frozen[c] >= 0
    BY <1>3 DEF Roots, RootClones
  <2>2. world.owner[o] \in Threads
    BY <1>1, ConstantsOK DEF TypeInv, WorldOK, Threads
  <2>3. CloneShows(world.owner[o], s, o)
    BY <1>1, <2>2 DEF CloneInv
  <2> QED
    BY <2>1, <2>3 DEF CloneShows
<1> QED
  BY <1>2, <1>3

(* Snapshot isolation, for any threads, objects, snapshots, numbers of writes
   and lengths of chains: whatever createFrozenSnapshot and resolveConstChild
   gave shows the state of the moment the snapshot was made, for as long as it
   lives. *)
THEOREM IsolationHolds ==
  ASSUME Protected PROVE Spec => []SnapshotIsolation
<1>1. Init => Inv
  BY InitInv
<1>2. Inv /\ [Next]_vars => Inv'
  BY InvStep
<1>3. Inv => SnapshotIsolation
  BY InvIsolation
<1> QED
  BY <1>1, <1>2, <1>3, PTL DEF Spec

(* The version a live snapshot needs is always on the chain: no const read
   throws for want of it, whatever saves, trims and bumps ran before. *)
THEOREM VersionFoundHolds ==
  ASSUME Protected PROVE Spec => []VersionFound
<1>1. Init => Inv
  BY InitInv
<1>2. Inv /\ [Next]_vars => Inv'
  BY InvStep
<1>3. Inv => VersionFound
  BY DEF Inv, ReaderInv, Reading, VersionFound
<1> QED
  BY <1>1, <1>2, <1>3, PTL DEF Spec

=============================================================================
