------------------------ MODULE ObjectLifecycleSteps ------------------------
(***************************************************************************)
(* What the proofs about ObjectLifecycle rest on: the parts of its         *)
(* inductive invariant; how the lists of steps in progress change, where   *)
(* every step of an operation comes from and when it goes; and what an     *)
(* action may do to one piece of the state (types, counts, claims, phases, *)
(* what a thread holds, what an object refers to), one lemma for each.     *)
(***************************************************************************)
EXTENDS ObjectLifecycle, FiniteSetTheorems, SequenceTheorems, TLAPS

-----------------------------------------------------------------------------
(* Who owns a reference to an object: the Values of threads, the slots of  *)
(* objects, and the steps in progress that will release one.  The steps of *)
(* an operation are numbered from the last one, 1, to the one to be taken  *)
(* next: a number then stays with its step.                                *)
Cnt(td, a) == Len(td[a])
Stp(td, a, n) == td[a][Len(td[a]) + 1 - n]
Count(a) == Cnt(todo, a)
Step(a, n) == Stp(todo, a, n)
Has(a, n, name, o) ==
  n \in 1 .. Count(a) /\ Step(a, n).op = name /\ Step(a, n).obj = o
Owning == {"dec", "recheck"}

HeldBy(o) == {t \in Threads : o \in held[t]}
RefIn(r, o) == {x \in Objs \X Slots : r[x[1]][x[2]] = o}
RefBy(o) == RefIn(ref, o)
Owes(td, a, n, o) ==
  n \in 1 .. Cnt(td, a) /\ Stp(td, a, n).op \in Owning /\ Stp(td, a, n).obj = o
Due(td, o) == {x \in Actor \X Nat : Owes(td, x[1], x[2], o)}
Owns(s, o) == IF s.op \in Owning /\ s.obj = o THEN 1 ELSE 0
WeakBy(o) == {t \in Threads : o \in weakHeld[t]}

Live(o) == phase[o] = "built" /\ ~collecting[o]
Dead(o) == phase[o] = "built" /\ collecting[o]
Queued(o) == o \in ToSet(queue)
Swept(o) == o \in ToSet(swept)
InBatch(o) == o \in ToSet(batch)
ToVisit(o) == o \in ToSet(rest)
Retiring(o) == \E a \in Actor : \E n \in 1 .. Count(a) : Has(a, n, "retire", o)
Claiming(o) == \E a \in Actor : \E n \in 1 .. Count(a) : Has(a, n, "claim", o)

(* A dead object that the reclaimer has not finished with. *)
Waiting(o) ==
  /\ collecting[o]
  /\ \/ InBatch(o) /\ (phase[o] = "built" \/ rec = "destroy")
     \/ (Queued(o) \/ Swept(o)) /\ phase[o] = "built"

(* A string that only the thread making it knows. *)
Fresh(o) == o \in Strings /\ Live(o) /\ strong[o] = 0 /\ ~Claiming(o)
Making(t, o) == Has(t, 1, "publish", o) \/ Has(t, 1, "own", o)

-----------------------------------------------------------------------------
(* The parts of the inductive invariant. *)

Steps ==
  [op : OpNames, obj : Objs \cup {None}]
    \cup [op : {"put"}, obj : Objs, into : Objs, slot : {"edge", "hidden"}]

TypeInv ==
  /\ phase \in [Objs -> {"none", "built", "destroyed", "freed"}]
  /\ strong \in [Objs -> Int] /\ weak \in [Objs -> Int]
  /\ linked \in [Objs -> BOOLEAN] /\ collecting \in [Objs -> BOOLEAN]
  /\ dropClaimed \in [Objs -> BOOLEAN]
  /\ ref \in [Objs -> [Slots -> Objs \cup {None}]]
  /\ held \in [Threads -> SUBSET Objs] /\ weakHeld \in [Threads -> SUBSET Objs]
  /\ todo \in [Actor -> Seq(Steps)]
  /\ queue \in Seq(Objs) /\ swept \in Seq(Objs) /\ batch \in Seq(Objs) /\ rest \in Seq(Objs)
  /\ gc \in {"idle", "trim", "sweep", "publish"}
  /\ rec \in {"idle", "drop", "destroy"}
  /\ marked \subseteq Objs /\ finalize \subseteq Actors /\ interned \subseteq Objs
  /\ table \in Strings \cup {None}
  /\ world \in Worlds

NameOK(a, n) ==
  /\ Step(a, n).op \notin {"lookup", "alloc"} => Step(a, n).obj \in Objs
  /\ Step(a, n).op \in {"lookup", "alloc"} => Step(a, n).obj = None
  /\ Step(a, n).op = "put" => Step(a, n).into \in Objs /\ Step(a, n).slot \in {"edge", "hidden"}
NameInv == \A a \in Actor : \A n \in 1 .. Count(a) : NameOK(a, n)

(* The strong count is the number of owners. *)
StrongOK(o) ==
  /\ IsFiniteSet(HeldBy(o)) /\ IsFiniteSet(RefBy(o)) /\ IsFiniteSet(Due(todo, o))
  /\ strong[o] = Cardinality(HeldBy(o)) + Cardinality(RefBy(o)) + Cardinality(Due(todo, o))
StrongInv == \A o \in Objs : StrongOK(o)

Unweaking(o) == Has(Rec, 1, "unweak", o)
Shared(o) == IF phase[o] = "built" \/ Unweaking(o) THEN 1 ELSE 0
Kept(o) == IF rec = "destroy" /\ InBatch(o) THEN 1 ELSE 0

(* The weak count is that of the weak Values, the reference that the strong *)
(* ones share and the hold of the batch; it is zero when the block is freed. *)
WeakOK(o) ==
  /\ IsFiniteSet(WeakBy(o))
  /\ weak[o] = Cardinality(WeakBy(o)) + Shared(o) + Kept(o)
  /\ phase[o] \in {"none", "freed"} <=> weak[o] = 0
WeakInv == \A o \in Objs : WeakOK(o)

(* Claims: who is claimed was built; who is not can be promoted. *)
LinkOK(o) ==
  /\ phase[o] # "none" => o \in world.objs
  /\ collecting[o] => phase[o] # "none"
  /\ phase[o] \in {"destroyed", "freed"} => collecting[o]
  /\ Live(o) => linked[o]
  /\ linked[o] /\ collecting[o] => strong[o] = 0
  /\ phase[o] = "none" => ~linked[o]
  /\ dropClaimed[o] => collecting[o] /\ ref[o]["edge"] = None /\ ref[o]["version"] = None
  /\ ref[o]["hidden"] # None => o \in Natives
LinkInv == \A o \in Objs : LinkOK(o)

(* The places of a dead object. *)
PlaceOK(o) ==
  /\ Dead(o) => Retiring(o) \/ Queued(o) \/ Swept(o) \/ InBatch(o) \/ o \in finalize
  /\ Retiring(o) => ~Queued(o) /\ ~Swept(o) /\ ~InBatch(o) /\ o \notin finalize
  /\ Queued(o) => Dead(o) /\ ~Swept(o) /\ ~InBatch(o) /\ o \notin finalize
  /\ Swept(o) => Dead(o) /\ ~InBatch(o) /\ o \notin finalize
BatchOK(o) ==
  /\ InBatch(o) => collecting[o] /\ phase[o] # "freed"
  /\ InBatch(o) /\ rec = "drop" => Dead(o) /\ o \notin finalize
  /\ InBatch(o) /\ rec = "drop" /\ ~ToVisit(o) => dropClaimed[o] \/ Has(Rec, 1, "dropOnce", o)
  /\ InBatch(o) /\ rec = "destroy" => dropClaimed[o]
  /\ ToVisit(o) => InBatch(o) /\ Dead(o) /\ o \notin finalize
  /\ InBatch(o) /\ rec = "destroy" /\ ~ToVisit(o) /\ phase[o] = "built" => o \in finalize
  /\ o \in finalize => dropClaimed[o] /\ Dead(o) /\ (InBatch(o) \/ strong[o] = 0)
PlaceInv == \A o \in Objs : PlaceOK(o)
BatchInv ==
  /\ \A o \in Objs : BatchOK(o)
  /\ \A i, j \in DOMAIN rest : rest[i] = rest[j] => i = j
  /\ \A i, j \in DOMAIN queue : queue[i] = queue[j] => i = j
  /\ \A i, j \in DOMAIN swept : swept[i] = swept[j] => i = j
  /\ \A i, j \in DOMAIN batch : batch[i] = batch[j] => i = j

(* A reference from q to p: the live refer to the live, and a dead object  *)
(* is taken by the reclaimer no later than what it refers to.              *)
Behind(q, p) ==
  /\ InBatch(p) => InBatch(q)
  /\ Queued(p) => InBatch(q) \/ Queued(q)
  /\ Swept(p) => InBatch(q) \/ Queued(q) \/ Swept(q)

RefOK(q, p) ==
  /\ phase[q] = "built"
  /\ Live(p) \/ (Dead(q) /\ Waiting(p) /\ Behind(q, p))
RefInv == \A q \in Objs, k \in Slots : ref[q][k] # None => RefOK(q, ref[q][k])

HeldInv == \A t \in Threads : \A o \in held[t] : Live(o)

(* The steps in progress. *)
DecOK(a, n) ==
  /\ Step(a, n).op = "dec" => Live(Step(a, n).obj) \/ (a = Rec /\ Waiting(Step(a, n).obj))
  /\ Step(a, n).op = "recheck" =>
       a \in Threads /\ n = 1 /\ Live(Step(a, n).obj) /\ Step(a, n).obj \notin held[a]
DecInv == \A a \in Actor : \A n \in 1 .. Count(a) : DecOK(a, n)

ClaimOK(a, n) == Step(a, n).op = "claim" =>
  /\ n = Count(a)
  /\ strong[Step(a, n).obj] = 0
  /\ Live(Step(a, n).obj) \/ (a = Rec /\ Waiting(Step(a, n).obj))
  /\ \A b \in Actor : \A m \in 1 .. Count(b) : Has(b, m, "claim", Step(a, n).obj) => b = a
ClaimsInv == \A a \in Actor : \A n \in 1 .. Count(a) : ClaimOK(a, n)

RetireOK(a, n) ==
  /\ Step(a, n).op = "retire" =>
       /\ Dead(Step(a, n).obj) /\ strong[Step(a, n).obj] = 0
       /\ \A b \in Actor : \A m \in 1 .. Count(b) :
            Has(b, m, "retire", Step(a, n).obj) => b = a /\ m = n
  /\ Step(a, n).op = "null" => Has(a, n - 1, "retire", Step(a, n).obj)
  /\ Step(a, n).op = "dropOnce" =>
       \/ Has(a, n - 1, "null", Step(a, n).obj)
       \/ /\ a = Rec /\ n = 1 /\ rec = "drop"
          /\ InBatch(Step(a, n).obj) /\ ~ToVisit(Step(a, n).obj)
RetireInv == \A a \in Actor : \A n \in 1 .. Count(a) : RetireOK(a, n)

ThreadOK(a, n) ==
  /\ Step(a, n).op = "put" =>
       /\ a = Writer /\ n = 1
       /\ Step(a, n).obj \in held[a] /\ Step(a, n).into \in held[a]
       /\ ref[Step(a, n).into][Step(a, n).slot] = None
       /\ Step(a, n).slot = "hidden" => Step(a, n).into \in Natives
  /\ Step(a, n).op = "try" =>
       /\ a \in Threads /\ n = 1
       /\ Step(a, n).obj \in weakHeld[a] /\ Step(a, n).obj \notin held[a]
       /\ Live(Step(a, n).obj) \/ strong[Step(a, n).obj] = 0
ThreadInv == \A a \in Actor : \A n \in 1 .. Count(a) : ThreadOK(a, n)

StringOK(a, n) ==
  /\ Step(a, n).op \in {"lookup", "alloc", "publish", "own"} =>
       a \in Threads /\ held[a] \cap Strings = {}
  /\ Step(a, n).op \in {"lookup", "alloc", "publish"} => n = 1
  /\ Step(a, n).op \in {"publish", "own"} => Step(a, n).obj \in Strings
  /\ Step(a, n).op = "publish" => Fresh(Step(a, n).obj) /\ table # Step(a, n).obj
  /\ Step(a, n).op = "own" =>
       (n = 2 /\ Has(a, 1, "dec", Step(a, n).obj)) \/ (n = 1 /\ Fresh(Step(a, n).obj))
StringInv ==
  /\ \A a \in Actor : \A n \in 1 .. Count(a) : StringOK(a, n)
  /\ \A t, u \in Threads, o \in Objs : Making(t, o) /\ Making(u, o) => t = u

UnweakOK(a, n) == Step(a, n).op = "unweak" =>
  a = Rec /\ n = 1 /\ rec = "destroy" /\ phase[Step(a, n).obj] = "destroyed" /\ InBatch(Step(a, n).obj)
UnweakInv == \A a \in Actor : \A n \in 1 .. Count(a) : UnweakOK(a, n)

(* The collector and the reclaimer. *)
MarkInv ==
  InProgress => /\ rec = "idle" /\ (\A t \in Threads : Idle(t))
                /\ Roots \subseteq marked /\ Closed(marked)
PhaseInv ==
  /\ gc # "trim" => Idle(Gc)
  /\ gc # "publish" => swept = <<>>
  /\ rec = "idle" => Idle(Rec) /\ batch = <<>> /\ rest = <<>>

(* The intern table. *)
TableInv ==
  table # None => phase[table] = "built" /\ (collecting[table] => strong[table] = 0)

-----------------------------------------------------------------------------
(* Lists of steps. *)

Popped(td, a) == [td EXCEPT ![a] = Tail(@)]
Pushed(td, a, s) == [td EXCEPT ![a] = <<s>> \o @]

(* Going from td to te, the lists of others are kept and a keeps its last c. *)
Keeps(te, td, a, c) ==
  /\ c \in Nat
  /\ \A b \in Actor : b # a =>
       Cnt(te, b) = Cnt(td, b) /\ \A n \in 1 .. Cnt(td, b) : Stp(te, b, n) = Stp(td, b, n)
  /\ \A n \in 1 .. c : Stp(te, a, n) = Stp(td, a, n)

(* The step of a is done; or it is replaced by others, the first of them   *)
(* named first.                                                            *)
After0(a) ==
  /\ Keeps(todo', todo, a, Cnt(todo, a) - 1) /\ Cnt(todo', a) = Cnt(todo, a) - 1
After1(a, x) ==
  /\ Keeps(todo', todo, a, Cnt(todo, a) - 1) /\ Cnt(todo', a) = Cnt(todo, a)
  /\ Stp(todo', a, Cnt(todo, a)) = x
After2(a, x, y) ==
  /\ Keeps(todo', todo, a, Cnt(todo, a) - 1) /\ Cnt(todo', a) = Cnt(todo, a) + 1
  /\ Stp(todo', a, Cnt(todo, a)) = y /\ Stp(todo', a, Cnt(todo, a) + 1) = x
After3(a, x, y, z) ==
  /\ Keeps(todo', todo, a, Cnt(todo, a) - 1) /\ Cnt(todo', a) = Cnt(todo, a) + 2
  /\ Stp(todo', a, Cnt(todo, a)) = z /\ Stp(todo', a, Cnt(todo, a) + 1) = y
  /\ Stp(todo', a, Cnt(todo, a) + 2) = x

(* An actor with nothing to do begins one step, or two. *)
Begun1(a, x) ==
  /\ Keeps(todo', todo, a, 0) /\ Cnt(todo, a) = 0 /\ Cnt(todo', a) = 1 /\ Stp(todo', a, 1) = x
Begun2(a, x, y) ==
  /\ Keeps(todo', todo, a, 0) /\ Cnt(todo, a) = 0 /\ Cnt(todo', a) = 2
  /\ Stp(todo', a, 1) = y /\ Stp(todo', a, 2) = x

(* What a step does to the number of references the steps in progress own. *)
Gains(o, g) ==
  IsFiniteSet(Due(todo, o)) =>
    IsFiniteSet(Due(todo', o)) /\ Cardinality(Due(todo', o)) = Cardinality(Due(todo, o)) + g

(* The tail of a list, its steps numbered from the end. *)
LEMMA TailParts ==
  ASSUME NEW S, NEW s \in Seq(S), s # <<>>
  PROVE  /\ Tail(s) \in Seq(S) /\ Len(Tail(s)) = Len(s) - 1 /\ Len(s) \in Nat \ {0}
         /\ Head(s) = s[1]
         /\ \A n \in 1 .. Len(s) - 1 : Tail(s)[Len(Tail(s)) + 1 - n] = s[Len(s) + 1 - n]
OBVIOUS

(* A list with one more step in front. *)
LEMMA PushParts ==
  ASSUME NEW S, NEW s \in Seq(S), NEW x \in S
  PROVE  /\ <<x>> \o s \in Seq(S) /\ Len(<<x>> \o s) = Len(s) + 1 /\ Len(s) \in Nat
         /\ (<<x>> \o s)[1] = x
         /\ \A n \in 1 .. Len(s) : (<<x>> \o s)[Len(<<x>> \o s) + 1 - n] = s[Len(s) + 1 - n]
OBVIOUS

(* Several steps are put in front one by one. *)
OneByOne2(s, x, y) == <<x, y>> \o s = <<x>> \o (<<y>> \o s)
OneByOne3(s, x, y, z) == <<x, y, z>> \o s = <<x>> \o (<<y>> \o (<<z>> \o s))

(* Two steps are put in front one by one. *)
LEMMA SplitTwo ==
  ASSUME NEW s \in Seq(Steps), NEW x \in Steps, NEW y \in Steps
  PROVE  OneByOne2(s, x, y) /\ <<x>> \o <<y>> = <<x, y>>
<1>1. <<x>> \in Seq(Steps) /\ <<y>> \in Seq(Steps) /\ <<x, y>> \in Seq(Steps)
  OBVIOUS
<1>2. <<x>> \o <<y>> = <<x, y>>
  <2>1. /\ <<x>> \o <<y>> \in Seq(Steps) /\ Len(<<x>> \o <<y>>) = 2
        /\ (<<x>> \o <<y>>)[1] = x /\ (<<x>> \o <<y>>)[2] = y
    BY <1>1, ConcatProperties
  <2>2. Len(<<x, y>>) = 2 /\ <<x, y>>[1] = x /\ <<x, y>>[2] = y
    OBVIOUS
  <2>3. \A i \in 1 .. Len(<<x>> \o <<y>>) : (<<x>> \o <<y>>)[i] = <<x, y>>[i]
    BY <2>1, <2>2
  <2> QED
    BY <1>1, <2>1, <2>2, <2>3, SeqEqual
<1>3. (<<x>> \o <<y>>) \o s = <<x>> \o (<<y>> \o s)
  BY <1>1, ConcatAssociative
<1> QED
  BY <1>2, <1>3 DEF OneByOne2

(* A step in front of two. *)
LEMMA JoinThree ==
  ASSUME NEW x \in Steps, NEW y \in Steps, NEW z \in Steps
  PROVE  <<x>> \o <<y, z>> = <<x, y, z>>
<1>1. <<x>> \in Seq(Steps) /\ <<y, z>> \in Seq(Steps) /\ <<x, y, z>> \in Seq(Steps)
  OBVIOUS
<1>2. /\ <<x>> \o <<y, z>> \in Seq(Steps) /\ Len(<<x>> \o <<y, z>>) = 3
      /\ (<<x>> \o <<y, z>>)[1] = x /\ (<<x>> \o <<y, z>>)[2] = y
      /\ (<<x>> \o <<y, z>>)[3] = z
  BY <1>1, ConcatProperties
<1>3. Len(<<x, y, z>>) = 3 /\ <<x, y, z>>[1] = x /\ <<x, y, z>>[2] = y /\ <<x, y, z>>[3] = z
  OBVIOUS
<1>4. \A i \in 1 .. Len(<<x>> \o <<y, z>>) : (<<x>> \o <<y, z>>)[i] = <<x, y, z>>[i]
  BY <1>2, <1>3
<1> QED
  BY <1>1, <1>2, <1>3, <1>4, SeqEqual

(* Three steps are put in front one by one. *)
LEMMA SplitThree ==
  ASSUME NEW s \in Seq(Steps), NEW x \in Steps, NEW y \in Steps, NEW z \in Steps
  PROVE  OneByOne3(s, x, y, z)
<1>1. <<x>> \in Seq(Steps) /\ <<y, z>> \in Seq(Steps) /\ <<y>> \in Seq(Steps) /\ <<z>> \in Seq(Steps)
  OBVIOUS
<1>2. (<<x>> \o <<y, z>>) \o s = <<x>> \o (<<y, z>> \o s)
  BY <1>1, ConcatAssociative
<1>3. (<<y>> \o <<z>>) \o s = <<y>> \o (<<z>> \o s)
  BY <1>1, ConcatAssociative
<1>4. <<x>> \o <<y, z>> = <<x, y, z>>
  BY JoinThree
<1>5. <<y>> \o <<z>> = <<y, z>>
  BY <1>1, SplitTwo
<1> QED
  BY <1>2, <1>3, <1>4, <1>5 DEF OneByOne3

(* Counts are natural; a list without steps is the empty one. *)
LEMMA CntType ==
  ASSUME NEW td \in [Actor -> Seq(Steps)], NEW a \in Actor
  PROVE  Cnt(td, a) \in Nat /\ (td[a] = <<>> <=> Cnt(td, a) = 0)
BY DEF Cnt

(* What is kept in two changes is kept. *)
LEMMA KeepsBoth ==
  ASSUME NEW td, NEW te, NEW tf, NEW a \in Actor, NEW c \in Nat, NEW d \in Nat, c <= d,
         Keeps(te, td, a, c), Keeps(tf, te, a, d)
  PROVE  Keeps(tf, td, a, c)
<1>1. ASSUME NEW n \in 1 .. c PROVE Stp(tf, a, n) = Stp(td, a, n)
  BY DEF Keeps
<1>2. ASSUME NEW b \in Actor, b # a
      PROVE  Cnt(tf, b) = Cnt(td, b) /\ \A n \in 1 .. Cnt(td, b) : Stp(tf, b, n) = Stp(td, b, n)
  BY <1>2 DEF Keeps
<1> QED
  BY <1>1, <1>2 DEF Keeps

(* Taking the first step off. *)
LEMMA PopSteps ==
  ASSUME NEW td \in [Actor -> Seq(Steps)], NEW a \in Actor, td[a] # <<>>
  PROVE  /\ Popped(td, a) \in [Actor -> Seq(Steps)]
         /\ Keeps(Popped(td, a), td, a, Cnt(td, a) - 1)
         /\ Cnt(Popped(td, a), a) = Cnt(td, a) - 1
         /\ Cnt(td, a) \in Nat \ {0}
         /\ Stp(td, a, Cnt(td, a)) = Head(td[a])
<1>1. /\ Tail(td[a]) \in Seq(Steps) /\ Len(Tail(td[a])) = Len(td[a]) - 1 /\ Len(td[a]) \in Nat \ {0}
      /\ Head(td[a]) = td[a][1]
      /\ \A n \in 1 .. Len(td[a]) - 1 : Tail(td[a])[Len(Tail(td[a])) + 1 - n] = td[a][Len(td[a]) + 1 - n]
  BY TailParts
<1>2. /\ Popped(td, a) \in [Actor -> Seq(Steps)] /\ Popped(td, a)[a] = Tail(td[a])
      /\ \A b \in Actor : b # a => Popped(td, a)[b] = td[b]
  BY <1>1 DEF Popped
<1> QED
  BY <1>1, <1>2 DEF Keeps, Cnt, Stp

(* Putting a step in front. *)
LEMMA PushSteps ==
  ASSUME NEW td \in [Actor -> Seq(Steps)], NEW a \in Actor, NEW x \in Steps
  PROVE  /\ Pushed(td, a, x) \in [Actor -> Seq(Steps)]
         /\ Keeps(Pushed(td, a, x), td, a, Cnt(td, a))
         /\ Cnt(Pushed(td, a, x), a) = Cnt(td, a) + 1
         /\ Cnt(td, a) \in Nat
         /\ Stp(Pushed(td, a, x), a, Cnt(td, a) + 1) = x
<1>1. /\ <<x>> \o td[a] \in Seq(Steps) /\ Len(<<x>> \o td[a]) = Len(td[a]) + 1 /\ Len(td[a]) \in Nat
      /\ (<<x>> \o td[a])[1] = x
      /\ \A n \in 1 .. Len(td[a]) : (<<x>> \o td[a])[Len(<<x>> \o td[a]) + 1 - n] = td[a][Len(td[a]) + 1 - n]
  BY PushParts
<1>2. /\ Pushed(td, a, x) \in [Actor -> Seq(Steps)] /\ Pushed(td, a, x)[a] = <<x>> \o td[a]
      /\ \A b \in Actor : b # a => Pushed(td, a, x)[b] = td[b]
  BY <1>1 DEF Pushed
<1> QED
  BY <1>1, <1>2 DEF Keeps, Cnt, Stp

(* Which steps are among those that own a reference. *)
LEMMA DueMember ==
  ASSUME NEW td, NEW o, NEW a \in Actor, NEW n \in Nat
  PROVE  <<a, n>> \in Due(td, o) <=> Owes(td, a, n, o)
BY DEF Due

(* A step owns one reference or none. *)
LEMMA OwnsType ==
  ASSUME NEW s, NEW o
  PROVE  Owns(s, o) \in {0, 1}
BY DEF Owns

(* The references owned, without the first step. *)
LEMMA DuePop ==
  ASSUME NEW td \in [Actor -> Seq(Steps)], NEW a \in Actor, td[a] # <<>>, NEW o,
         IsFiniteSet(Due(td, o))
  PROVE  /\ IsFiniteSet(Due(Popped(td, a), o))
         /\ Cardinality(Due(Popped(td, a), o)) = Cardinality(Due(td, o)) - Owns(Head(td[a]), o)
<1> DEFINE te == Popped(td, a)
           L == Cnt(td, a)
<1>1. /\ te \in [Actor -> Seq(Steps)] /\ L \in Nat \ {0} /\ Cnt(te, a) = L - 1
      /\ Stp(td, a, L) = Head(td[a]) /\ Keeps(te, td, a, L - 1)
  BY PopSteps
<1> HIDE DEF te, L
<1>2. Due(te, o) = Due(td, o) \ {<<a, L>>}
  <2>1. ASSUME NEW b \in Actor, NEW n \in Nat
        PROVE  <<b, n>> \in Due(te, o) <=> <<b, n>> \in Due(td, o) \ {<<a, L>>}
    <3>1. CASE b # a
      <4>1. Owes(te, b, n, o) <=> Owes(td, b, n, o)
        BY <3>1, <1>1 DEF Owes, Keeps
      <4> QED
        BY <3>1, <4>1, DueMember
    <3>2. CASE b = a
      <4>1. Owes(te, a, n, o) <=> n # L /\ Owes(td, a, n, o)
        BY <1>1 DEF Owes, Keeps, L
      <4> QED
        BY <3>2, <4>1, DueMember
    <3> QED
      BY <3>1, <3>2
  <2> QED
    BY <2>1 DEF Due
<1>3. <<a, L>> \in Due(td, o) <=> Owns(Head(td[a]), o) = 1
  BY <1>1, DueMember DEF Owes, Owns, L
<1>4. /\ IsFiniteSet(Due(td, o) \ {<<a, L>>})
      /\ Cardinality(Due(td, o) \ {<<a, L>>})
           = IF <<a, L>> \in Due(td, o) THEN Cardinality(Due(td, o)) - 1 ELSE Cardinality(Due(td, o))
  BY FS_RemoveElement
<1>5. Cardinality(Due(td, o)) \in Nat
  BY FS_CardinalityType
<1>6. /\ IsFiniteSet(Due(te, o))
      /\ Cardinality(Due(te, o)) = Cardinality(Due(td, o)) - Owns(Head(td[a]), o)
  BY <1>2, <1>3, <1>4, <1>5, OwnsType
<1> QED
  BY <1>6 DEF te

(* The references owned, with a new first step. *)
LEMMA DuePush ==
  ASSUME NEW td \in [Actor -> Seq(Steps)], NEW a \in Actor, NEW x \in Steps, NEW o,
         IsFiniteSet(Due(td, o))
  PROVE  /\ IsFiniteSet(Due(Pushed(td, a, x), o))
         /\ Cardinality(Due(Pushed(td, a, x), o)) = Cardinality(Due(td, o)) + Owns(x, o)
<1> DEFINE te == Pushed(td, a, x)
           L == Cnt(td, a) + 1
<1>1. /\ te \in [Actor -> Seq(Steps)] /\ L \in Nat \ {0} /\ Cnt(te, a) = L /\ Cnt(td, a) = L - 1
      /\ Stp(te, a, L) = x /\ Keeps(te, td, a, L - 1)
  <2>1. Cnt(td, a) \in Nat /\ L - 1 = Cnt(td, a)
    BY CntType
  <2> QED
    BY <2>1, PushSteps
<1> HIDE DEF te, L
<1>2. <<a, L>> \notin Due(td, o)
  BY <1>1, DueMember DEF Owes
<1>3. Due(te, o) = IF Owns(x, o) = 1 THEN Due(td, o) \cup {<<a, L>>} ELSE Due(td, o)
  <2>1. ASSUME NEW b \in Actor, NEW n \in Nat
        PROVE  <<b, n>> \in Due(te, o) <=> <<b, n>> \in Due(td, o)
                                            \/ (b = a /\ n = L /\ Owns(x, o) = 1)
    <3>1. CASE b # a
      <4>1. Owes(te, b, n, o) <=> Owes(td, b, n, o)
        BY <3>1, <1>1 DEF Owes, Keeps
      <4> QED
        BY <3>1, <4>1, DueMember
    <3>2. CASE b = a /\ n # L
      <4>1. Owes(te, a, n, o) <=> Owes(td, a, n, o)
        BY <1>1, <3>2 DEF Owes, Keeps
      <4> QED
        BY <3>2, <4>1, DueMember
    <3>3. CASE b = a /\ n = L
      <4>1. Owes(te, a, L, o) <=> Owns(x, o) = 1
        BY <1>1 DEF Owes, Owns
      <4> QED
        BY <3>3, <4>1, <1>2, DueMember
    <3> QED
      BY <3>1, <3>2, <3>3
  <2> QED
    BY <2>1, <1>1 DEF Due
<1>4. /\ IsFiniteSet(Due(td, o) \cup {<<a, L>>})
      /\ Cardinality(Due(td, o) \cup {<<a, L>>}) = Cardinality(Due(td, o)) + 1
  BY <1>2, FS_AddElement
<1>5. Cardinality(Due(td, o)) \in Nat
  BY FS_CardinalityType
<1>6. /\ IsFiniteSet(Due(te, o))
      /\ Cardinality(Due(te, o)) = Cardinality(Due(td, o)) + Owns(x, o)
  BY <1>3, <1>4, <1>5, OwnsType
<1> QED
  BY <1>6 DEF te

(* The step of a is done. *)
LEMMA Then0 ==
  ASSUME todo \in [Actor -> Seq(Steps)], NEW a \in Actor, todo[a] # <<>>, Then(a, <<>>)
  PROVE  /\ todo' \in [Actor -> Seq(Steps)]
         /\ Cnt(todo, a) \in Nat \ {0} /\ Stp(todo, a, Cnt(todo, a)) = Head(todo[a])
         /\ After0(a)
         /\ \A o : Gains(o, 0 - Owns(Head(todo[a]), o))
<1> DEFINE t0 == Popped(todo, a)
<1>1. todo' = t0
  <2>1. <<>> \o Tail(todo[a]) = Tail(todo[a])
    BY TailParts
  <2> QED
    BY <2>1 DEF Then, Popped
<1>2. /\ t0 \in [Actor -> Seq(Steps)] /\ Keeps(t0, todo, a, Cnt(todo, a) - 1)
      /\ Cnt(t0, a) = Cnt(todo, a) - 1 /\ Cnt(todo, a) \in Nat \ {0}
      /\ Stp(todo, a, Cnt(todo, a)) = Head(todo[a])
  BY PopSteps
<1> HIDE DEF t0
<1>3. After0(a)
  BY <1>1, <1>2 DEF After0, Keeps
<1>4. ASSUME NEW o PROVE Gains(o, 0 - Owns(Head(todo[a]), o))
  <2> SUFFICES ASSUME IsFiniteSet(Due(todo, o))
               PROVE  /\ IsFiniteSet(Due(t0, o))
                      /\ Cardinality(Due(t0, o)) = Cardinality(Due(todo, o)) + (0 - Owns(Head(todo[a]), o))
    BY <1>1 DEF Gains
  <2>1. IsFiniteSet(Due(t0, o)) /\ Cardinality(Due(t0, o)) = Cardinality(Due(todo, o)) - Owns(Head(todo[a]), o)
    BY DuePop DEF t0
  <2>2. Cardinality(Due(todo, o)) \in Nat
    BY FS_CardinalityType
  <2> QED
    BY <2>1, <2>2, OwnsType
<1> QED
  BY <1>1, <1>2, <1>3, <1>4

(* It is replaced by one step. *)
LEMMA Then1 ==
  ASSUME todo \in [Actor -> Seq(Steps)], NEW a \in Actor, todo[a] # <<>>, NEW x \in Steps,
         Then(a, <<x>>)
  PROVE  /\ todo' \in [Actor -> Seq(Steps)]
         /\ Cnt(todo, a) \in Nat \ {0} /\ Stp(todo, a, Cnt(todo, a)) = Head(todo[a])
         /\ After1(a, x)
         /\ \A o : Gains(o, (Owns(x, o)) - Owns(Head(todo[a]), o))
<1> DEFINE t0 == Popped(todo, a)
           t1 == Pushed(t0, a, x)
<1>1. todo' = t1
  <2>1. Tail(todo[a]) \in Seq(Steps)
    BY TailParts
  <2>2. <<x>> \o Tail(todo[a]) = <<x>> \o Tail(todo[a])
    OBVIOUS
  <2>3. DOMAIN todo = Actor
    OBVIOUS
  <2> QED
    BY <2>2, <2>3 DEF Then, Popped, Pushed
<1>2. /\ t0 \in [Actor -> Seq(Steps)] /\ Keeps(t0, todo, a, Cnt(todo, a) - 1)
      /\ Cnt(t0, a) = Cnt(todo, a) - 1 /\ Cnt(todo, a) \in Nat \ {0}
      /\ Stp(todo, a, Cnt(todo, a)) = Head(todo[a])
  BY PopSteps
<1> HIDE DEF t0
<1>3. /\ t1 \in [Actor -> Seq(Steps)] /\ Keeps(t1, t0, a, Cnt(t0, a))
      /\ Cnt(t1, a) = Cnt(t0, a) + 1 /\ Stp(t1, a, Cnt(t0, a) + 1) = x
  BY <1>2, PushSteps
<1> HIDE DEF t1
<1>4. After1(a, x)
  BY <1>1, <1>2, <1>3 DEF After1, Keeps
<1>5. ASSUME NEW o PROVE Gains(o, (Owns(x, o)) - Owns(Head(todo[a]), o))
  <2> SUFFICES ASSUME IsFiniteSet(Due(todo, o))
               PROVE  /\ IsFiniteSet(Due(t1, o))
                      /\ Cardinality(Due(t1, o)) = Cardinality(Due(todo, o)) + ((Owns(x, o)) - Owns(Head(todo[a]), o))
    BY <1>1 DEF Gains
  <2>1. IsFiniteSet(Due(t0, o)) /\ Cardinality(Due(t0, o)) = Cardinality(Due(todo, o)) - Owns(Head(todo[a]), o)
    BY DuePop DEF t0
  <2>2. IsFiniteSet(Due(t1, o)) /\ Cardinality(Due(t1, o)) = Cardinality(Due(t0, o)) + Owns(x, o)
    BY <2>1, <1>2, DuePush DEF t1
  <2>3. Cardinality(Due(todo, o)) \in Nat
    BY FS_CardinalityType
  <2> QED
    BY <2>1, <2>2, <2>3, OwnsType
<1> QED
  BY <1>1, <1>2, <1>3, <1>4, <1>5

(* It is replaced by two steps. *)
LEMMA Then2 ==
  ASSUME todo \in [Actor -> Seq(Steps)], NEW a \in Actor, todo[a] # <<>>, NEW x \in Steps,
         NEW y \in Steps, Then(a, <<x, y>>)
  PROVE  /\ todo' \in [Actor -> Seq(Steps)]
         /\ Cnt(todo, a) \in Nat \ {0} /\ Stp(todo, a, Cnt(todo, a)) = Head(todo[a])
         /\ After2(a, x, y)
         /\ \A o : Gains(o, (Owns(x, o) + Owns(y, o)) - Owns(Head(todo[a]), o))
<1> DEFINE t0 == Popped(todo, a)
           t1 == Pushed(t0, a, y)
           t2 == Pushed(t1, a, x)
<1>1. todo' = t2
  <2>1. Tail(todo[a]) \in Seq(Steps)
    BY TailParts
  <2>2. <<x, y>> \o Tail(todo[a]) = <<x>> \o (<<y>> \o Tail(todo[a]))
    <3>1. OneByOne2(Tail(todo[a]), x, y)
      BY <2>1, SplitTwo
    <3> QED
      BY <3>1 DEF OneByOne2
  <2>3. DOMAIN todo = Actor
    OBVIOUS
  <2> QED
    BY <2>2, <2>3 DEF Then, Popped, Pushed
<1>2. /\ t0 \in [Actor -> Seq(Steps)] /\ Keeps(t0, todo, a, Cnt(todo, a) - 1)
      /\ Cnt(t0, a) = Cnt(todo, a) - 1 /\ Cnt(todo, a) \in Nat \ {0}
      /\ Stp(todo, a, Cnt(todo, a)) = Head(todo[a])
  BY PopSteps
<1> HIDE DEF t0
<1>3. /\ t1 \in [Actor -> Seq(Steps)] /\ Keeps(t1, t0, a, Cnt(t0, a))
      /\ Cnt(t1, a) = Cnt(t0, a) + 1 /\ Stp(t1, a, Cnt(t0, a) + 1) = y
  BY <1>2, PushSteps
<1> HIDE DEF t1
<1>4. /\ t2 \in [Actor -> Seq(Steps)] /\ Keeps(t2, t1, a, Cnt(t1, a))
      /\ Cnt(t2, a) = Cnt(t1, a) + 1 /\ Stp(t2, a, Cnt(t1, a) + 1) = x
  BY <1>3, PushSteps
<1> HIDE DEF t2
<1>5. After2(a, x, y)
  BY <1>1, <1>2, <1>3, <1>4, SMTT(60) DEF After2, Keeps
<1>6. ASSUME NEW o PROVE Gains(o, (Owns(x, o) + Owns(y, o)) - Owns(Head(todo[a]), o))
  <2> SUFFICES ASSUME IsFiniteSet(Due(todo, o))
               PROVE  /\ IsFiniteSet(Due(t2, o))
                      /\ Cardinality(Due(t2, o)) = Cardinality(Due(todo, o)) + ((Owns(x, o) + Owns(y, o)) - Owns(Head(todo[a]), o))
    BY <1>1 DEF Gains
  <2>1. IsFiniteSet(Due(t0, o)) /\ Cardinality(Due(t0, o)) = Cardinality(Due(todo, o)) - Owns(Head(todo[a]), o)
    BY DuePop DEF t0
  <2>2. IsFiniteSet(Due(t1, o)) /\ Cardinality(Due(t1, o)) = Cardinality(Due(t0, o)) + Owns(y, o)
    BY <2>1, <1>2, DuePush, ZenonT(120) DEF t1
  <2>3. IsFiniteSet(Due(t2, o)) /\ Cardinality(Due(t2, o)) = Cardinality(Due(t1, o)) + Owns(x, o)
    BY <2>2, <1>3, DuePush DEF t2
  <2>4. Cardinality(Due(todo, o)) \in Nat
    BY FS_CardinalityType
  <2> QED
    BY <2>1, <2>2, <2>3, <2>4, OwnsType, SMTT(60)
<1> QED
  BY <1>1, <1>2, <1>3, <1>4, <1>5, <1>6

(* It is replaced by three. *)
LEMMA Then3 ==
  ASSUME todo \in [Actor -> Seq(Steps)], NEW a \in Actor, todo[a] # <<>>, NEW x \in Steps,
         NEW y \in Steps, NEW z \in Steps, Then(a, <<x, y, z>>)
  PROVE  /\ todo' \in [Actor -> Seq(Steps)]
         /\ Cnt(todo, a) \in Nat \ {0} /\ Stp(todo, a, Cnt(todo, a)) = Head(todo[a])
         /\ After3(a, x, y, z)
         /\ \A o : Gains(o, (Owns(x, o) + Owns(y, o) + Owns(z, o)) - Owns(Head(todo[a]), o))
<1> DEFINE t0 == Popped(todo, a)
           t1 == Pushed(t0, a, z)
           t2 == Pushed(t1, a, y)
           t3 == Pushed(t2, a, x)
<1>1. todo' = t3
  <2>1. Tail(todo[a]) \in Seq(Steps)
    BY TailParts
  <2>2. <<x, y, z>> \o Tail(todo[a]) = <<x>> \o (<<y>> \o (<<z>> \o Tail(todo[a])))
    <3>1. OneByOne3(Tail(todo[a]), x, y, z)
      BY <2>1, SplitThree
    <3> QED
      BY <3>1 DEF OneByOne3
  <2>3. DOMAIN todo = Actor
    OBVIOUS
  <2> QED
    BY <2>2, <2>3 DEF Then, Popped, Pushed
<1>2. /\ t0 \in [Actor -> Seq(Steps)] /\ Keeps(t0, todo, a, Cnt(todo, a) - 1)
      /\ Cnt(t0, a) = Cnt(todo, a) - 1 /\ Cnt(todo, a) \in Nat \ {0}
      /\ Stp(todo, a, Cnt(todo, a)) = Head(todo[a])
  BY PopSteps
<1> HIDE DEF t0
<1>3. /\ t1 \in [Actor -> Seq(Steps)] /\ Keeps(t1, t0, a, Cnt(t0, a))
      /\ Cnt(t1, a) = Cnt(t0, a) + 1 /\ Stp(t1, a, Cnt(t0, a) + 1) = z
  BY <1>2, PushSteps
<1> HIDE DEF t1
<1>4. /\ t2 \in [Actor -> Seq(Steps)] /\ Keeps(t2, t1, a, Cnt(t1, a))
      /\ Cnt(t2, a) = Cnt(t1, a) + 1 /\ Stp(t2, a, Cnt(t1, a) + 1) = y
  BY <1>3, PushSteps
<1> HIDE DEF t2
<1>5. /\ t3 \in [Actor -> Seq(Steps)] /\ Keeps(t3, t2, a, Cnt(t2, a))
      /\ Cnt(t3, a) = Cnt(t2, a) + 1 /\ Stp(t3, a, Cnt(t2, a) + 1) = x
  BY <1>4, PushSteps
<1> HIDE DEF t3
<1>6. After3(a, x, y, z)
  <2>a. Cnt(todo, a) \in Nat \ {0} /\ Cnt(t0, a) = Cnt(todo, a) - 1
    BY <1>2
  <2>b. Cnt(t1, a) = Cnt(todo, a)
    BY <2>a, <1>3
  <2>c. Cnt(t2, a) = Cnt(todo, a) + 1
    BY <2>a, <2>b, <1>4
  <2>d0. Cnt(todo, a) - 1 \in Nat /\ Cnt(t0, a) \in Nat
    BY <2>a, <2>b, <2>c
  <2>d1. Cnt(t1, a) \in Nat
    BY <2>a, <2>b, <2>c
  <2>d2. Cnt(t2, a) \in Nat
    BY <2>a, <2>b, <2>c
  <2>d3. Cnt(todo, a) - 1 <= Cnt(t0, a)
    BY <2>a, <2>b, <2>c
  <2>d4. Cnt(todo, a) - 1 <= Cnt(t1, a)
    BY <2>a, <2>b, <2>c
  <2>d5. Cnt(todo, a) - 1 <= Cnt(t2, a)
    BY <2>a, <2>b, <2>c
  <2>d6. Cnt(t0, a) + 1 = Cnt(todo, a)
    BY <2>a, <2>b, <2>c
  <2>d7. Cnt(todo, a) \in 1 .. Cnt(t1, a)
    BY <2>a, <2>b, <2>c
  <2>d8. Cnt(todo, a) \in 1 .. Cnt(t2, a)
    BY <2>a, <2>b, <2>c
  <2>d9. Cnt(todo, a) + 1 \in 1 .. Cnt(t2, a)
    BY <2>a, <2>b, <2>c
  <2>1. Keeps(t3, todo, a, Cnt(todo, a) - 1)
    <3>1. Keeps(t1, todo, a, Cnt(todo, a) - 1)
      BY <1>2, <1>3, <2>b, <2>c, <2>d0, <2>d1, <2>d2, <2>d3, <2>d4, <2>d5, <2>d6, <2>d7, <2>d8, <2>d9, KeepsBoth
    <3>2. Keeps(t2, todo, a, Cnt(todo, a) - 1)
      BY <3>1, <1>4, <2>b, <2>c, <2>d0, <2>d1, <2>d2, <2>d3, <2>d4, <2>d5, <2>d6, <2>d7, <2>d8, <2>d9, KeepsBoth
    <3> QED
      BY <3>2, <1>5, <2>b, <2>c, <2>d0, <2>d1, <2>d2, <2>d3, <2>d4, <2>d5, <2>d6, <2>d7, <2>d8, <2>d9, KeepsBoth
  <2>2. Cnt(t3, a) = Cnt(todo, a) + 2
    BY <1>2, <1>3, <1>4, <1>5
  <2>3. Stp(t3, a, Cnt(todo, a)) = z
    <3>1. Stp(t1, a, Cnt(todo, a)) = z
      BY <1>3, <2>b, <2>c, <2>d0, <2>d1, <2>d2, <2>d3, <2>d4, <2>d5, <2>d6, <2>d7, <2>d8, <2>d9
    <3>2. Stp(t2, a, Cnt(todo, a)) = z
      BY <3>1, <1>4, <2>b, <2>c, <2>d0, <2>d1, <2>d2, <2>d3, <2>d4, <2>d5, <2>d6, <2>d7, <2>d8, <2>d9 DEF Keeps
    <3> QED
      BY <3>2, <1>5, <2>b, <2>c, <2>d0, <2>d1, <2>d2, <2>d3, <2>d4, <2>d5, <2>d6, <2>d7, <2>d8, <2>d9 DEF Keeps
  <2>4. Stp(t3, a, Cnt(todo, a) + 1) = y
    <3>1. Stp(t2, a, Cnt(todo, a) + 1) = y
      BY <1>4, <2>b, <2>c, <2>d0, <2>d1, <2>d2, <2>d3, <2>d4, <2>d5, <2>d6, <2>d7, <2>d8, <2>d9
    <3> QED
      BY <3>1, <1>5, <2>b, <2>c, <2>d0, <2>d1, <2>d2, <2>d3, <2>d4, <2>d5, <2>d6, <2>d7, <2>d8, <2>d9 DEF Keeps
  <2>5. Stp(t3, a, Cnt(todo, a) + 2) = x
    BY <1>2, <1>3, <1>4, <1>5
  <2> QED
    BY <1>1, <2>1, <2>2, <2>3, <2>4, <2>5 DEF After3
<1>7. ASSUME NEW o PROVE Gains(o, (Owns(x, o) + Owns(y, o) + Owns(z, o)) - Owns(Head(todo[a]), o))
  <2> SUFFICES ASSUME IsFiniteSet(Due(todo, o))
               PROVE  /\ IsFiniteSet(Due(t3, o))
                      /\ Cardinality(Due(t3, o)) = Cardinality(Due(todo, o)) + ((Owns(x, o) + Owns(y, o) + Owns(z, o)) - Owns(Head(todo[a]), o))
    BY <1>1 DEF Gains
  <2>1. IsFiniteSet(Due(t0, o)) /\ Cardinality(Due(t0, o)) = Cardinality(Due(todo, o)) - Owns(Head(todo[a]), o)
    BY DuePop DEF t0
  <2>2. IsFiniteSet(Due(t1, o)) /\ Cardinality(Due(t1, o)) = Cardinality(Due(t0, o)) + Owns(z, o)
    BY <2>1, <1>2, DuePush, ZenonT(120) DEF t1
  <2>3. IsFiniteSet(Due(t2, o)) /\ Cardinality(Due(t2, o)) = Cardinality(Due(t1, o)) + Owns(y, o)
    BY <2>2, <1>3, DuePush DEF t2
  <2>4. IsFiniteSet(Due(t3, o)) /\ Cardinality(Due(t3, o)) = Cardinality(Due(t2, o)) + Owns(x, o)
    BY <2>3, <1>4, DuePush DEF t3
  <2>5. Cardinality(Due(todo, o)) \in Nat
    BY FS_CardinalityType
  <2> QED
    BY <2>1, <2>2, <2>3, <2>4, <2>5, OwnsType
<1> QED
  BY <1>1, <1>2, <1>3, <1>4, <1>5, <1>6, <1>7

(* An operation of one step begins. *)
LEMMA Start1 ==
  ASSUME todo \in [Actor -> Seq(Steps)], NEW a \in Actor, Idle(a), NEW x \in Steps,
         Start(a, <<x>>)
  PROVE  /\ todo' \in [Actor -> Seq(Steps)]
         /\ Begun1(a, x)
         /\ \A o : Gains(o, Owns(x, o))
<1> DEFINE t1 == Pushed(todo, a, x)
<1>1. todo' = t1
  <2>1. <<x>> \o todo[a] = <<x>>
    BY DEF Idle
  <2> QED
    BY <2>1 DEF Start, Pushed
<1>2. Cnt(todo, a) = 0
  BY CntType DEF Idle
<1>3. /\ t1 \in [Actor -> Seq(Steps)] /\ Keeps(t1, todo, a, Cnt(todo, a))
      /\ Cnt(t1, a) = Cnt(todo, a) + 1 /\ Stp(t1, a, Cnt(todo, a) + 1) = x
  BY <1>2, PushSteps
<1> HIDE DEF t1
<1>4. Begun1(a, x)
  BY <1>1, <1>2, <1>3 DEF Begun1, Keeps
<1>5. ASSUME NEW o PROVE Gains(o, Owns(x, o))
  <2> SUFFICES ASSUME IsFiniteSet(Due(todo, o))
               PROVE  /\ IsFiniteSet(Due(t1, o))
                      /\ Cardinality(Due(t1, o)) = Cardinality(Due(todo, o)) + (Owns(x, o))
    BY <1>1 DEF Gains
  <2>1. IsFiniteSet(Due(t1, o)) /\ Cardinality(Due(t1, o)) = Cardinality(Due(todo, o)) + Owns(x, o)
    BY DuePush DEF t1
  <2>2. Cardinality(Due(todo, o)) \in Nat
    BY FS_CardinalityType
  <2> QED
    BY <2>1, <2>2, OwnsType
<1> QED
  BY <1>1, <1>2, <1>3, <1>4, <1>5

(* An operation of two steps begins. *)
LEMMA Start2 ==
  ASSUME todo \in [Actor -> Seq(Steps)], NEW a \in Actor, Idle(a), NEW x \in Steps,
         NEW y \in Steps, Start(a, <<x, y>>)
  PROVE  /\ todo' \in [Actor -> Seq(Steps)]
         /\ Begun2(a, x, y)
         /\ \A o : Gains(o, Owns(x, o) + Owns(y, o))
<1> DEFINE t1 == Pushed(todo, a, y)
           t2 == Pushed(t1, a, x)
<1>0. <<>> \in Seq(Steps)
  OBVIOUS
<1>1. todo' = t2
  <2>1. <<x>> \o (<<y>> \o todo[a]) = <<x, y>>
    <3>1. <<y>> \o todo[a] = <<y>>
      BY DEF Idle
    <3>2. <<x>> \o <<y>> = <<x, y>>
      BY SplitTwo, <1>0
    <3> QED
      BY <3>1, <3>2
  <2> QED
    BY <2>1 DEF Start, Pushed
<1>2. Cnt(todo, a) = 0
  BY CntType DEF Idle
<1>3. /\ t1 \in [Actor -> Seq(Steps)] /\ Keeps(t1, todo, a, Cnt(todo, a))
      /\ Cnt(t1, a) = Cnt(todo, a) + 1 /\ Stp(t1, a, Cnt(todo, a) + 1) = y
  BY <1>2, PushSteps
<1> HIDE DEF t1
<1>4. /\ t2 \in [Actor -> Seq(Steps)] /\ Keeps(t2, t1, a, Cnt(t1, a))
      /\ Cnt(t2, a) = Cnt(t1, a) + 1 /\ Stp(t2, a, Cnt(t1, a) + 1) = x
  BY <1>3, PushSteps
<1> HIDE DEF t2
<1>5. Begun2(a, x, y)
  BY <1>1, <1>2, <1>3, <1>4 DEF Begun2, Keeps
<1>6. ASSUME NEW o PROVE Gains(o, Owns(x, o) + Owns(y, o))
  <2> SUFFICES ASSUME IsFiniteSet(Due(todo, o))
               PROVE  /\ IsFiniteSet(Due(t2, o))
                      /\ Cardinality(Due(t2, o)) = Cardinality(Due(todo, o)) + (Owns(x, o) + Owns(y, o))
    BY <1>1 DEF Gains
  <2>1. IsFiniteSet(Due(t1, o)) /\ Cardinality(Due(t1, o)) = Cardinality(Due(todo, o)) + Owns(y, o)
    BY DuePush DEF t1
  <2>2. IsFiniteSet(Due(t2, o)) /\ Cardinality(Due(t2, o)) = Cardinality(Due(t1, o)) + Owns(x, o)
    BY <2>1, <1>3, DuePush DEF t2
  <2>3. Cardinality(Due(todo, o)) \in Nat
    BY FS_CardinalityType
  <2> QED
    BY <2>1, <2>2, <2>3, OwnsType
<1> QED
  BY <1>1, <1>2, <1>3, <1>4, <1>5, <1>6

-----------------------------------------------------------------------------
(* What the actions do to the steps in progress. *)

PutOp(p, o, k) == [op |-> "put", obj |-> p, into |-> o, slot |-> k]

(* The step a takes next. *)
Now(a, name) ==
  /\ Cnt(todo, a) \in Nat \ {0}
  /\ Stp(todo, a, Cnt(todo, a)).op = name
  /\ Stp(todo, a, Cnt(todo, a)).obj = Current(a)

(* The threads of a program are threads. *)
LEMMA WorldThreads ==
  ASSUME TypeInv
  PROVE  world.threads \subseteq Threads
BY LifecycleAssumption DEF TypeInv

(* Threads, the collector and the reclaimer are different actors. *)
LEMMA ActorParts ==
  /\ Threads \subseteq Actor /\ Gc \in Actor /\ Rec \in Actor
  /\ Gc # Rec /\ Gc \notin Threads /\ Rec \notin Threads /\ Writer \in Threads
BY LifecycleAssumption DEF Actor

(* None is no object. *)
LEMMA NoneParts ==
  /\ None \notin Objs
  /\ Strings \subseteq Objs /\ Actors \subseteq Objs /\ Versions \subseteq Objs
  /\ Natives \subseteq Objs /\ Weaks \subseteq Objs /\ Natives \cap Actors = {} /\ IsFiniteSet(Objs)
BY LifecycleAssumption

(* A step of Op. *)
LEMMA OpParts ==
  ASSUME NEW name \in OpNames, NEW o \in Objs \cup {None}
  PROVE  Op(name, o) \in Steps /\ Op(name, o).op = name /\ Op(name, o).obj = o
BY DEF Op, Steps

(* A step of Store. *)
LEMMA PutParts ==
  ASSUME NEW p \in Objs, NEW o \in Objs, NEW k \in {"edge", "hidden"}
  PROVE  /\ PutOp(p, o, k) \in Steps /\ PutOp(p, o, k).op = "put" /\ PutOp(p, o, k).obj = p
         /\ PutOp(p, o, k).into = o /\ PutOp(p, o, k).slot = k
BY DEF PutOp, Steps

(* The names of steps. *)
LEMMA NameParts ==
  /\ {"dec", "claim", "dropOnce", "null", "retire", "put", "try", "recheck", "lookup", "alloc",
      "publish", "own", "unweak"} = OpNames
  /\ Owning = {"dec", "recheck"}
BY DEF OpNames, Owning

(* What a step owns. *)
LEMMA OwnsParts ==
  ASSUME NEW s, NEW o
  PROVE  Owns(s, o) = IF s.op \in {"dec", "recheck"} /\ s.obj = o THEN 1 ELSE 0
BY DEF Owns, Owning

(* An actor in the middle of an operation. *)
LEMMA DoingParts ==
  ASSUME TypeInv, NEW a \in Actor, NEW name, Doing(a, name)
  PROVE  /\ todo[a] # <<>> /\ Now(a, name)
         /\ Head(todo[a]).op = name /\ Head(todo[a]).obj = Current(a)
         /\ Stp(todo, a, Cnt(todo, a)) = Head(todo[a])
<1>1. todo \in [Actor -> Seq(Steps)]
  BY DEF TypeInv
<1> QED
  BY <1>1, PopSteps DEF Doing, Current, Now

(* An object is named by every step but two. *)
LEMMA CurrentType ==
  ASSUME TypeInv, NameInv, NEW a \in Actor, NEW name, Doing(a, name),
         name \notin {"lookup", "alloc"}
  PROVE  Current(a) \in Objs
<1>1. Now(a, name) /\ Cnt(todo, a) \in 1 .. Cnt(todo, a)
  BY DoingParts DEF Now
<1> QED
  BY <1>1 DEF NameInv, NameOK, Now, Step, Count

(* The action of a step, by name. *)
LEMMA StepKinds ==
  ASSUME TypeInv, [Next]_vars
  PROVE  \/ \E t \in Threads, o \in Objs :
              New(t, o) \/ Drop(t, o) \/ WeakRef(t, o) \/ DropWeak(t, o) \/ StrongRef(t, o)
         \/ \E t \in Threads, u \in Threads, o \in Objs : Share(t, u, o)
         \/ \E t \in Threads, o \in Objs, k \in Slots, p \in Objs : Store(t, o, k, p)
         \/ \E t \in Threads, o \in Objs, k \in Slots : Load(t, o, k)
         \/ \E t \in Threads, o \in Objs, v \in Versions : SaveVersion(t, o, v)
         \/ \E t \in Threads :
              \/ Put(t) \/ TryIncRef(t) \/ Recheck(t) \/ Intern(t) \/ Lookup(t)
              \/ PublishString(t) \/ Own(t)
         \/ \E t \in Threads, s \in Strings : AllocString(t, s)
         \/ \E a \in Actor :
              DecRef(a) \/ Claim(a) \/ DropOnce(a) \/ Null(a) \/ Retire(a) \/ Unweak(a)
         \/ \E o \in Objs : Trim(o)
         \/ \E o \in Actors : FinalizeActor(o)
         \/ Mark \/ TrimDone \/ Sweep \/ Publish
         \/ Drain \/ DropNext \/ Hold \/ DestroyNext \/ ReleaseHolds
         \/ UNCHANGED vars
<1>1. world.threads \subseteq Threads /\ Threads \subseteq Actor /\ Gc \in Actor /\ Rec \in Actor
  BY WorldThreads, ActorParts
<1>2. ASSUME NEW t \in Threads, Begin(t)
      PROVE  \/ \E o \in Objs :
                  New(t, o) \/ Drop(t, o) \/ WeakRef(t, o) \/ DropWeak(t, o) \/ StrongRef(t, o)
             \/ \E u \in Threads, o \in Objs : Share(t, u, o)
             \/ \E o \in Objs, k \in Slots, p \in Objs : Store(t, o, k, p)
             \/ \E o \in Objs, k \in Slots : Load(t, o, k)
             \/ \E o \in Objs, v \in Versions : SaveVersion(t, o, v)
             \/ Intern(t)
  BY <1>1, <1>2 DEF Begin
<1>3. ASSUME NEW t \in Threads, Continue(t)
      PROVE  \/ Put(t) \/ TryIncRef(t) \/ Recheck(t) \/ Lookup(t) \/ PublishString(t) \/ Own(t)
             \/ \E s \in Strings : AllocString(t, s)
             \/ DecRef(t) \/ Claim(t) \/ DropOnce(t) \/ Null(t) \/ Retire(t)
  BY <1>3 DEF Continue, DecRefSteps
<1>4. CASE \E t \in Threads : Begin(t)
  BY <1>4, <1>2
<1>5. CASE \E t \in Threads : Continue(t)
  BY <1>5, <1>3, <1>1
<1>6. CASE Collect
  BY <1>6, <1>1 DEF Collect, DecRefSteps
<1>7. CASE Reclaim
  BY <1>7, <1>1 DEF Reclaim, DecRefSteps
<1> QED
  BY <1>1, <1>4, <1>5, <1>6, <1>7 DEF Next

(* Put takes its step off. *)
LEMMA PutShape ==
  ASSUME TypeInv, NameInv, NEW t \in Threads, Put(t)
  PROVE  /\ Now(t, "put") /\ After0(t) /\ todo' \in [Actor -> Seq(Steps)]
         /\ \A o : Gains(o, 0)
<1>1. /\ todo[t] # <<>> /\ Now(t, "put") /\ todo \in [Actor -> Seq(Steps)] /\ t \in Actor
      /\ Head(todo[t]).op = "put" /\ Head(todo[t]).obj = Current(t)
  BY DoingParts, ActorParts DEF Put, TypeInv
<1>2. After0(t) /\ todo' \in [Actor -> Seq(Steps)] /\ \A o : Gains(o, 0 - Owns(Head(todo[t]), o))
  BY <1>1, Then0 DEF Put
<1>3. \A o : 0 - Owns(Head(todo[t]), o) = 0
  BY <1>1, OwnsParts
<1>4. \A o : Gains(o, 0)
  BY <1>2, <1>3 DEF Gains
<1> QED
  BY <1>1, <1>2, <1>4

(* Own takes its step off. *)
LEMMA OwnShape ==
  ASSUME TypeInv, NameInv, NEW t \in Threads, Own(t)
  PROVE  /\ Now(t, "own") /\ After0(t) /\ todo' \in [Actor -> Seq(Steps)]
         /\ \A o : Gains(o, 0)
<1>1. /\ todo[t] # <<>> /\ Now(t, "own") /\ todo \in [Actor -> Seq(Steps)] /\ t \in Actor
      /\ Head(todo[t]).op = "own" /\ Head(todo[t]).obj = Current(t)
  BY DoingParts, ActorParts DEF Own, TypeInv
<1>2. After0(t) /\ todo' \in [Actor -> Seq(Steps)] /\ \A o : Gains(o, 0 - Owns(Head(todo[t]), o))
  BY <1>1, Then0 DEF Own
<1>3. \A o : 0 - Owns(Head(todo[t]), o) = 0
  BY <1>1, OwnsParts
<1>4. \A o : Gains(o, 0)
  BY <1>2, <1>3 DEF Gains
<1> QED
  BY <1>1, <1>2, <1>4

(* Null takes its step off. *)
LEMMA NullShape ==
  ASSUME TypeInv, NameInv, NEW a \in Actor, Null(a)
  PROVE  /\ Now(a, "null") /\ After0(a) /\ todo' \in [Actor -> Seq(Steps)]
         /\ \A o : Gains(o, 0)
<1>1. /\ todo[a] # <<>> /\ Now(a, "null") /\ todo \in [Actor -> Seq(Steps)] /\ a \in Actor
      /\ Head(todo[a]).op = "null" /\ Head(todo[a]).obj = Current(a)
  BY DoingParts, ActorParts DEF Null, TypeInv
<1>2. After0(a) /\ todo' \in [Actor -> Seq(Steps)] /\ \A o : Gains(o, 0 - Owns(Head(todo[a]), o))
  BY <1>1, Then0 DEF Null
<1>3. \A o : 0 - Owns(Head(todo[a]), o) = 0
  BY <1>1, OwnsParts
<1>4. \A o : Gains(o, 0)
  BY <1>2, <1>3 DEF Gains
<1> QED
  BY <1>1, <1>2, <1>4

(* Retire takes its step off. *)
LEMMA RetireShape ==
  ASSUME TypeInv, NameInv, NEW a \in Actor, Retire(a)
  PROVE  /\ Now(a, "retire") /\ After0(a) /\ todo' \in [Actor -> Seq(Steps)]
         /\ \A o : Gains(o, 0)
<1>1. /\ todo[a] # <<>> /\ Now(a, "retire") /\ todo \in [Actor -> Seq(Steps)] /\ a \in Actor
      /\ Head(todo[a]).op = "retire" /\ Head(todo[a]).obj = Current(a)
  BY DoingParts, ActorParts DEF Retire, TypeInv
<1>2. After0(a) /\ todo' \in [Actor -> Seq(Steps)] /\ \A o : Gains(o, 0 - Owns(Head(todo[a]), o))
  BY <1>1, Then0 DEF Retire
<1>3. \A o : 0 - Owns(Head(todo[a]), o) = 0
  BY <1>1, OwnsParts
<1>4. \A o : Gains(o, 0)
  BY <1>2, <1>3 DEF Gains
<1> QED
  BY <1>1, <1>2, <1>4

(* Unweak takes its step off. *)
LEMMA UnweakShape ==
  ASSUME TypeInv, NameInv, NEW a \in Actor, Unweak(a)
  PROVE  /\ Now(a, "unweak") /\ After0(a) /\ todo' \in [Actor -> Seq(Steps)]
         /\ \A o : Gains(o, 0)
<1>1. /\ todo[a] # <<>> /\ Now(a, "unweak") /\ todo \in [Actor -> Seq(Steps)] /\ a \in Actor
      /\ Head(todo[a]).op = "unweak" /\ Head(todo[a]).obj = Current(a)
  BY DoingParts, ActorParts DEF Unweak, TypeInv
<1>2. After0(a) /\ todo' \in [Actor -> Seq(Steps)] /\ \A o : Gains(o, 0 - Owns(Head(todo[a]), o))
  BY <1>1, Then0 DEF Unweak
<1>3. \A o : 0 - Owns(Head(todo[a]), o) = 0
  BY <1>1, OwnsParts
<1>4. \A o : Gains(o, 0)
  BY <1>2, <1>3 DEF Gains
<1> QED
  BY <1>1, <1>2, <1>4

(* Drop begins. *)
LEMMA DropShape ==
  ASSUME TypeInv, NameInv, NEW t \in Threads, NEW o \in Objs, Drop(t, o)
  PROVE  /\ Begun1(t, Op("dec", o)) /\ todo' \in [Actor -> Seq(Steps)]
         /\ \A p : Gains(p, IF p = o THEN 1 ELSE 0)
<1>1. /\ todo \in [Actor -> Seq(Steps)] /\ t \in Actor /\ o \in Objs \cup {None} /\ Idle(t)
  BY ActorParts DEF Drop, TypeInv, Ready
<1>2. Op("dec", o) \in Steps /\ Op("dec", o).op = "dec" /\ Op("dec", o).obj = o
  BY <1>1, OpParts, NameParts
<1>3. Start(t, <<Op("dec", o)>>)
  BY DEF Drop
<1>4. /\ Begun1(t, Op("dec", o)) /\ todo' \in [Actor -> Seq(Steps)]
      /\ \A p : Gains(p, Owns(Op("dec", o), p))
  BY <1>1, <1>2, <1>3, Start1
<1> QED
  BY <1>2, <1>4, OwnsParts

(* StrongRef begins. *)
LEMMA StrongRefShape ==
  ASSUME TypeInv, NameInv, NEW t \in Threads, NEW o \in Objs, StrongRef(t, o)
  PROVE  /\ Begun1(t, Op("try", o)) /\ todo' \in [Actor -> Seq(Steps)]
         /\ \A p : Gains(p, 0)
<1>1. /\ todo \in [Actor -> Seq(Steps)] /\ t \in Actor /\ o \in Objs \cup {None} /\ Idle(t)
  BY ActorParts DEF StrongRef, TypeInv, Ready
<1>2. Op("try", o) \in Steps /\ Op("try", o).op = "try" /\ Op("try", o).obj = o
  BY <1>1, OpParts, NameParts
<1>3. Start(t, <<Op("try", o)>>)
  BY DEF StrongRef
<1>4. /\ Begun1(t, Op("try", o)) /\ todo' \in [Actor -> Seq(Steps)]
      /\ \A p : Gains(p, Owns(Op("try", o), p))
  BY <1>1, <1>2, <1>3, Start1
<1> QED
  BY <1>2, <1>4, OwnsParts

(* Intern begins. *)
LEMMA InternShape ==
  ASSUME TypeInv, NameInv, NEW t \in Threads, Intern(t)
  PROVE  /\ Begun1(t, Op("lookup", None)) /\ todo' \in [Actor -> Seq(Steps)]
         /\ \A p : Gains(p, 0)
<1>1. /\ todo \in [Actor -> Seq(Steps)] /\ t \in Actor /\ None \in Objs \cup {None} /\ Idle(t)
  BY ActorParts DEF Intern, TypeInv, Ready
<1>2. Op("lookup", None) \in Steps /\ Op("lookup", None).op = "lookup" /\ Op("lookup", None).obj = None
  BY <1>1, OpParts, NameParts
<1>3. Start(t, <<Op("lookup", None)>>)
  BY DEF Intern
<1>4. /\ Begun1(t, Op("lookup", None)) /\ todo' \in [Actor -> Seq(Steps)]
      /\ \A p : Gains(p, Owns(Op("lookup", None), p))
  BY <1>1, <1>2, <1>3, Start1
<1> QED
  BY <1>2, <1>4, OwnsParts

(* Trim begins. *)
LEMMA TrimShape ==
  ASSUME TypeInv, NameInv, NEW o \in Objs, Trim(o)
  PROVE  /\ Begun1(Gc, Op("dec", ref[o]["version"])) /\ todo' \in [Actor -> Seq(Steps)]
         /\ \A p : Gains(p, IF p = ref[o]["version"] THEN 1 ELSE 0)
<1>1. /\ todo \in [Actor -> Seq(Steps)] /\ Gc \in Actor /\ ref[o]["version"] \in Objs \cup {None} /\ Idle(Gc)
  BY ActorParts DEF Trim, TypeInv, Slots
<1>2. Op("dec", ref[o]["version"]) \in Steps /\ Op("dec", ref[o]["version"]).op = "dec" /\ Op("dec", ref[o]["version"]).obj = ref[o]["version"]
  BY <1>1, OpParts, NameParts
<1>3. Start(Gc, <<Op("dec", ref[o]["version"])>>)
  BY DEF Trim
<1>4. /\ Begun1(Gc, Op("dec", ref[o]["version"])) /\ todo' \in [Actor -> Seq(Steps)]
      /\ \A p : Gains(p, Owns(Op("dec", ref[o]["version"]), p))
  BY <1>1, <1>2, <1>3, Start1
<1> QED
  BY <1>2, <1>4, OwnsParts

(* DropNext begins. *)
LEMMA DropNextShape ==
  ASSUME TypeInv, NameInv, DropNext
  PROVE  /\ Begun1(Rec, Op("dropOnce", Head(rest))) /\ todo' \in [Actor -> Seq(Steps)]
         /\ \A p : Gains(p, 0)
<1>1. /\ todo \in [Actor -> Seq(Steps)] /\ Rec \in Actor /\ Head(rest) \in Objs \cup {None} /\ Idle(Rec)
  BY ActorParts DEF DropNext, TypeInv
<1>2. Op("dropOnce", Head(rest)) \in Steps /\ Op("dropOnce", Head(rest)).op = "dropOnce" /\ Op("dropOnce", Head(rest)).obj = Head(rest)
  BY <1>1, OpParts, NameParts
<1>3. Start(Rec, <<Op("dropOnce", Head(rest))>>)
  BY DEF DropNext
<1>4. /\ Begun1(Rec, Op("dropOnce", Head(rest))) /\ todo' \in [Actor -> Seq(Steps)]
      /\ \A p : Gains(p, Owns(Op("dropOnce", Head(rest)), p))
  BY <1>1, <1>2, <1>3, Start1
<1> QED
  BY <1>2, <1>4, OwnsParts

(* A decrement, and the claim it may lead to. *)
LEMMA DecRefShape ==
  ASSUME TypeInv, NameInv, NEW a \in Actor, DecRef(a)
  PROVE  /\ Now(a, "dec") /\ todo' \in [Actor -> Seq(Steps)] /\ Current(a) \in Objs
         /\ strong[Current(a)] <= 1 => After1(a, Op("claim", Current(a)))
         /\ ~(strong[Current(a)] <= 1) => After0(a)
         /\ \A p \in Objs : Gains(p, IF p = Current(a) THEN -1 ELSE 0)
<1>1. /\ todo[a] # <<>> /\ Now(a, "dec") /\ todo \in [Actor -> Seq(Steps)] /\ a \in Actor
      /\ Head(todo[a]).op = "dec" /\ Head(todo[a]).obj = Current(a)
  BY DoingParts, ActorParts DEF DecRef, TypeInv
<1>2. Current(a) \in Objs
  BY <1>1, CurrentType DEF DecRef
<1>3. Op("claim", Current(a)) \in Steps /\ Op("claim", Current(a)).op = "claim" /\ Op("claim", Current(a)).obj = Current(a)
  BY <1>2, OpParts, NameParts
<1>4. ASSUME strong[Current(a)] <= 1
      PROVE  After1(a, Op("claim", Current(a))) /\ todo' \in [Actor -> Seq(Steps)] /\ \A p \in Objs : Gains(p, IF p = Current(a) THEN -1 ELSE 0)
  <2>1. Then(a, <<Op("claim", Current(a))>>)
    BY <1>4 DEF DecRef
  <2>2. /\ After1(a, Op("claim", Current(a))) /\ todo' \in [Actor -> Seq(Steps)]
        /\ \A p : Gains(p, (Owns(Op("claim", Current(a)), p)) - Owns(Head(todo[a]), p))
    BY <1>1, <2>1, <1>3, Then1
  <2>3. \A p \in Objs : (Owns(Op("claim", Current(a)), p)) - Owns(Head(todo[a]), p) = IF p = Current(a) THEN -1 ELSE 0
    BY <1>1, <1>3, <1>4, OwnsParts, NoneParts
  <2>4. \A p \in Objs : Gains(p, IF p = Current(a) THEN -1 ELSE 0)
    BY <2>2, <2>3 DEF Gains
  <2> QED
    BY <2>2, <2>4
<1>5. ASSUME ~(strong[Current(a)] <= 1)
      PROVE  After0(a) /\ todo' \in [Actor -> Seq(Steps)] /\ \A p \in Objs : Gains(p, IF p = Current(a) THEN -1 ELSE 0)
  <2>1. Then(a, <<>>)
    BY <1>5 DEF DecRef
  <2>2. /\ After0(a) /\ todo' \in [Actor -> Seq(Steps)]
        /\ \A p : Gains(p, 0 - Owns(Head(todo[a]), p))
    BY <1>1, <2>1, Then0
  <2>3. \A p \in Objs : 0 - Owns(Head(todo[a]), p) = IF p = Current(a) THEN -1 ELSE 0
    BY <1>1, <1>5, OwnsParts, NoneParts
  <2>4. \A p \in Objs : Gains(p, IF p = Current(a) THEN -1 ELSE 0)
    BY <2>2, <2>3 DEF Gains
  <2> QED
    BY <2>2, <2>4
<1> QED
  BY <1>1, <1>2, <1>4, <1>5

(* A claim, and what its winner has to do. *)
LEMMA ClaimShape ==
  ASSUME TypeInv, NameInv, NEW a \in Actor, Claim(a)
  PROVE  /\ Now(a, "claim") /\ todo' \in [Actor -> Seq(Steps)] /\ Current(a) \in Objs
         /\ collecting[Current(a)] => After0(a)
         /\ (~collecting[Current(a)] /\ InProgress) => After3(a, Op("dropOnce", Current(a)), Op("null", Current(a)), Op("retire", Current(a)))
         /\ (~collecting[Current(a)] /\ ~InProgress) => After2(a, Op("null", Current(a)), Op("retire", Current(a)))
         /\ \A p \in Objs : Gains(p, 0)
<1>1. /\ todo[a] # <<>> /\ Now(a, "claim") /\ todo \in [Actor -> Seq(Steps)] /\ a \in Actor
      /\ Head(todo[a]).op = "claim" /\ Head(todo[a]).obj = Current(a)
  BY DoingParts, ActorParts DEF Claim, TypeInv
<1>2. Current(a) \in Objs
  BY <1>1, CurrentType DEF Claim
<1>3. Op("dropOnce", Current(a)) \in Steps /\ Op("dropOnce", Current(a)).op = "dropOnce" /\ Op("dropOnce", Current(a)).obj = Current(a)
  BY <1>2, OpParts, NameParts
<1>4. Op("null", Current(a)) \in Steps /\ Op("null", Current(a)).op = "null" /\ Op("null", Current(a)).obj = Current(a)
  BY <1>2, OpParts, NameParts
<1>5. Op("retire", Current(a)) \in Steps /\ Op("retire", Current(a)).op = "retire" /\ Op("retire", Current(a)).obj = Current(a)
  BY <1>2, OpParts, NameParts
<1>6. ASSUME collecting[Current(a)]
      PROVE  After0(a) /\ todo' \in [Actor -> Seq(Steps)] /\ \A p \in Objs : Gains(p, 0)
  <2>1. Then(a, <<>>)
    BY <1>6 DEF Claim
  <2>2. /\ After0(a) /\ todo' \in [Actor -> Seq(Steps)]
        /\ \A p : Gains(p, 0 - Owns(Head(todo[a]), p))
    BY <1>1, <2>1, Then0
  <2>3. \A p \in Objs : 0 - Owns(Head(todo[a]), p) = 0
    BY <1>1, <1>6, OwnsParts, NoneParts
  <2>4. \A p \in Objs : Gains(p, 0)
    BY <2>2, <2>3 DEF Gains
  <2> QED
    BY <2>2, <2>4
<1>7. ASSUME (~collecting[Current(a)] /\ InProgress)
      PROVE  After3(a, Op("dropOnce", Current(a)), Op("null", Current(a)), Op("retire", Current(a))) /\ todo' \in [Actor -> Seq(Steps)] /\ \A p \in Objs : Gains(p, 0)
  <2>1. Then(a, <<Op("dropOnce", Current(a)), Op("null", Current(a)), Op("retire", Current(a))>>)
    <3>2. <<Op("dropOnce", Current(a))>> \o <<Op("null", Current(a)), Op("retire", Current(a))>> = <<Op("dropOnce", Current(a)), Op("null", Current(a)), Op("retire", Current(a))>>
      BY <1>3, <1>4, <1>5, JoinThree
    <3> QED
      BY <3>2, <1>7 DEF Claim
  <2>2. /\ After3(a, Op("dropOnce", Current(a)), Op("null", Current(a)), Op("retire", Current(a))) /\ todo' \in [Actor -> Seq(Steps)]
        /\ \A p : Gains(p, (Owns(Op("dropOnce", Current(a)), p) + Owns(Op("null", Current(a)), p) + Owns(Op("retire", Current(a)), p)) - Owns(Head(todo[a]), p))
    BY <1>1, <2>1, <1>3, <1>4, <1>5, Then3
  <2>3. \A p \in Objs : (Owns(Op("dropOnce", Current(a)), p) + Owns(Op("null", Current(a)), p) + Owns(Op("retire", Current(a)), p)) - Owns(Head(todo[a]), p) = 0
    <3> TAKE p \in Objs
    <3>1. Owns(Head(todo[a]), p) = 0
      BY <1>1, OwnsParts
    <3>2. Owns(Op("dropOnce", Current(a)), p) = 0
      BY <1>3, OwnsParts
    <3>3. Owns(Op("null", Current(a)), p) = 0
      BY <1>4, OwnsParts
    <3>4. Owns(Op("retire", Current(a)), p) = 0
      BY <1>5, OwnsParts
    <3> QED
      BY <3>1, <3>2, <3>3, <3>4, <1>7
  <2>4. \A p \in Objs : Gains(p, 0)
    BY <2>2, <2>3 DEF Gains
  <2> QED
    BY <2>2, <2>4
<1>8. ASSUME (~collecting[Current(a)] /\ ~InProgress)
      PROVE  After2(a, Op("null", Current(a)), Op("retire", Current(a))) /\ todo' \in [Actor -> Seq(Steps)] /\ \A p \in Objs : Gains(p, 0)
  <2>1. Then(a, <<Op("null", Current(a)), Op("retire", Current(a))>>)
    BY <1>8 DEF Claim
  <2>2. /\ After2(a, Op("null", Current(a)), Op("retire", Current(a))) /\ todo' \in [Actor -> Seq(Steps)]
        /\ \A p : Gains(p, (Owns(Op("null", Current(a)), p) + Owns(Op("retire", Current(a)), p)) - Owns(Head(todo[a]), p))
    BY <1>1, <2>1, <1>4, <1>5, Then2
  <2>3. \A p \in Objs : (Owns(Op("null", Current(a)), p) + Owns(Op("retire", Current(a)), p)) - Owns(Head(todo[a]), p) = 0
    BY <1>1, <1>4, <1>5, <1>8, OwnsParts, NoneParts
  <2>4. \A p \in Objs : Gains(p, 0)
    BY <2>2, <2>3 DEF Gains
  <2> QED
    BY <2>2, <2>4
<1> QED
  BY <1>1, <1>2, <1>6, <1>7, <1>8

(* The slots of the object in hand. *)
LEMMA DropRefs ==
  ASSUME TypeInv, NameInv, NEW a \in Actor, Current(a) \in Objs
  PROVE  ref[Current(a)]["version"] \in Objs \cup {None} /\ ref[Current(a)]["edge"] \in Objs \cup {None}
BY DEF TypeInv, Slots

(* The references of an object are handed to the steps that release them. *)
LEMMA DropOnceShape ==
  ASSUME TypeInv, NameInv, NEW a \in Actor, DropOnce(a)
  PROVE  /\ Now(a, "dropOnce") /\ todo' \in [Actor -> Seq(Steps)] /\ Current(a) \in Objs
         /\ dropClaimed[Current(a)] => After0(a)
         /\ (~dropClaimed[Current(a)] /\ ref[Current(a)]["version"] = None /\ ref[Current(a)]["edge"] = None) => After0(a)
         /\ (~dropClaimed[Current(a)] /\ ref[Current(a)]["version"] # None /\ ref[Current(a)]["edge"] = None) => After1(a, Op("dec", ref[Current(a)]["version"]))
         /\ (~dropClaimed[Current(a)] /\ ref[Current(a)]["version"] = None /\ ref[Current(a)]["edge"] # None) => After1(a, Op("dec", ref[Current(a)]["edge"]))
         /\ (~dropClaimed[Current(a)] /\ ref[Current(a)]["version"] # None /\ ref[Current(a)]["edge"] # None) => After2(a, Op("dec", ref[Current(a)]["version"]), Op("dec", ref[Current(a)]["edge"]))
         /\ \A p \in Objs : Gains(p, IF dropClaimed[Current(a)] THEN 0 ELSE (IF p = ref[Current(a)]["version"] THEN 1 ELSE 0) + (IF p = ref[Current(a)]["edge"] THEN 1 ELSE 0))
<1>1. /\ todo[a] # <<>> /\ Now(a, "dropOnce") /\ todo \in [Actor -> Seq(Steps)] /\ a \in Actor
      /\ Head(todo[a]).op = "dropOnce" /\ Head(todo[a]).obj = Current(a)
  BY DoingParts, ActorParts DEF DropOnce, TypeInv
<1>2. Current(a) \in Objs
  BY <1>1, CurrentType DEF DropOnce
<1>3. Op("dec", ref[Current(a)]["version"]) \in Steps /\ Op("dec", ref[Current(a)]["version"]).op = "dec" /\ Op("dec", ref[Current(a)]["version"]).obj = ref[Current(a)]["version"]
  BY <1>2, DropRefs, OpParts, NameParts
<1>4. Op("dec", ref[Current(a)]["edge"]) \in Steps /\ Op("dec", ref[Current(a)]["edge"]).op = "dec" /\ Op("dec", ref[Current(a)]["edge"]).obj = ref[Current(a)]["edge"]
  BY <1>2, DropRefs, OpParts, NameParts
<1>5. ASSUME dropClaimed[Current(a)]
      PROVE  After0(a) /\ todo' \in [Actor -> Seq(Steps)] /\ \A p \in Objs : Gains(p, IF dropClaimed[Current(a)] THEN 0 ELSE (IF p = ref[Current(a)]["version"] THEN 1 ELSE 0) + (IF p = ref[Current(a)]["edge"] THEN 1 ELSE 0))
  <2>1. Then(a, <<>>)
    BY <1>5 DEF DropOnce, Release
  <2>2. /\ After0(a) /\ todo' \in [Actor -> Seq(Steps)]
        /\ \A p : Gains(p, 0 - Owns(Head(todo[a]), p))
    BY <1>1, <2>1, Then0
  <2>3. \A p \in Objs : 0 - Owns(Head(todo[a]), p) = IF dropClaimed[Current(a)] THEN 0 ELSE (IF p = ref[Current(a)]["version"] THEN 1 ELSE 0) + (IF p = ref[Current(a)]["edge"] THEN 1 ELSE 0)
    BY <1>1, <1>5, OwnsParts, NoneParts
  <2>4. \A p \in Objs : Gains(p, IF dropClaimed[Current(a)] THEN 0 ELSE (IF p = ref[Current(a)]["version"] THEN 1 ELSE 0) + (IF p = ref[Current(a)]["edge"] THEN 1 ELSE 0))
    BY <2>2, <2>3 DEF Gains
  <2> QED
    BY <2>2, <2>4
<1>6. ASSUME (~dropClaimed[Current(a)] /\ ref[Current(a)]["version"] = None /\ ref[Current(a)]["edge"] = None)
      PROVE  After0(a) /\ todo' \in [Actor -> Seq(Steps)] /\ \A p \in Objs : Gains(p, IF dropClaimed[Current(a)] THEN 0 ELSE (IF p = ref[Current(a)]["version"] THEN 1 ELSE 0) + (IF p = ref[Current(a)]["edge"] THEN 1 ELSE 0))
  <2>1. Then(a, <<>>)
    BY <1>6 DEF DropOnce, Release
  <2>2. /\ After0(a) /\ todo' \in [Actor -> Seq(Steps)]
        /\ \A p : Gains(p, 0 - Owns(Head(todo[a]), p))
    BY <1>1, <2>1, Then0
  <2>3. \A p \in Objs : 0 - Owns(Head(todo[a]), p) = IF dropClaimed[Current(a)] THEN 0 ELSE (IF p = ref[Current(a)]["version"] THEN 1 ELSE 0) + (IF p = ref[Current(a)]["edge"] THEN 1 ELSE 0)
    BY <1>1, <1>6, OwnsParts, NoneParts
  <2>4. \A p \in Objs : Gains(p, IF dropClaimed[Current(a)] THEN 0 ELSE (IF p = ref[Current(a)]["version"] THEN 1 ELSE 0) + (IF p = ref[Current(a)]["edge"] THEN 1 ELSE 0))
    BY <2>2, <2>3 DEF Gains
  <2> QED
    BY <2>2, <2>4
<1>7. ASSUME (~dropClaimed[Current(a)] /\ ref[Current(a)]["version"] # None /\ ref[Current(a)]["edge"] = None)
      PROVE  After1(a, Op("dec", ref[Current(a)]["version"])) /\ todo' \in [Actor -> Seq(Steps)] /\ \A p \in Objs : Gains(p, IF dropClaimed[Current(a)] THEN 0 ELSE (IF p = ref[Current(a)]["version"] THEN 1 ELSE 0) + (IF p = ref[Current(a)]["edge"] THEN 1 ELSE 0))
  <2>1. Then(a, <<Op("dec", ref[Current(a)]["version"])>>)
    BY <1>7 DEF DropOnce, Release
  <2>2. /\ After1(a, Op("dec", ref[Current(a)]["version"])) /\ todo' \in [Actor -> Seq(Steps)]
        /\ \A p : Gains(p, (Owns(Op("dec", ref[Current(a)]["version"]), p)) - Owns(Head(todo[a]), p))
    BY <1>1, <2>1, <1>3, Then1
  <2>3. \A p \in Objs : (Owns(Op("dec", ref[Current(a)]["version"]), p)) - Owns(Head(todo[a]), p) = IF dropClaimed[Current(a)] THEN 0 ELSE (IF p = ref[Current(a)]["version"] THEN 1 ELSE 0) + (IF p = ref[Current(a)]["edge"] THEN 1 ELSE 0)
    BY <1>1, <1>3, <1>7, OwnsParts, NoneParts
  <2>4. \A p \in Objs : Gains(p, IF dropClaimed[Current(a)] THEN 0 ELSE (IF p = ref[Current(a)]["version"] THEN 1 ELSE 0) + (IF p = ref[Current(a)]["edge"] THEN 1 ELSE 0))
    BY <2>2, <2>3 DEF Gains
  <2> QED
    BY <2>2, <2>4
<1>8. ASSUME (~dropClaimed[Current(a)] /\ ref[Current(a)]["version"] = None /\ ref[Current(a)]["edge"] # None)
      PROVE  After1(a, Op("dec", ref[Current(a)]["edge"])) /\ todo' \in [Actor -> Seq(Steps)] /\ \A p \in Objs : Gains(p, IF dropClaimed[Current(a)] THEN 0 ELSE (IF p = ref[Current(a)]["version"] THEN 1 ELSE 0) + (IF p = ref[Current(a)]["edge"] THEN 1 ELSE 0))
  <2>1. Then(a, <<Op("dec", ref[Current(a)]["edge"])>>)
    BY <1>8 DEF DropOnce, Release
  <2>2. /\ After1(a, Op("dec", ref[Current(a)]["edge"])) /\ todo' \in [Actor -> Seq(Steps)]
        /\ \A p : Gains(p, (Owns(Op("dec", ref[Current(a)]["edge"]), p)) - Owns(Head(todo[a]), p))
    BY <1>1, <2>1, <1>4, Then1
  <2>3. \A p \in Objs : (Owns(Op("dec", ref[Current(a)]["edge"]), p)) - Owns(Head(todo[a]), p) = IF dropClaimed[Current(a)] THEN 0 ELSE (IF p = ref[Current(a)]["version"] THEN 1 ELSE 0) + (IF p = ref[Current(a)]["edge"] THEN 1 ELSE 0)
    BY <1>1, <1>4, <1>8, OwnsParts, NoneParts
  <2>4. \A p \in Objs : Gains(p, IF dropClaimed[Current(a)] THEN 0 ELSE (IF p = ref[Current(a)]["version"] THEN 1 ELSE 0) + (IF p = ref[Current(a)]["edge"] THEN 1 ELSE 0))
    BY <2>2, <2>3 DEF Gains
  <2> QED
    BY <2>2, <2>4
<1>9. ASSUME (~dropClaimed[Current(a)] /\ ref[Current(a)]["version"] # None /\ ref[Current(a)]["edge"] # None)
      PROVE  After2(a, Op("dec", ref[Current(a)]["version"]), Op("dec", ref[Current(a)]["edge"])) /\ todo' \in [Actor -> Seq(Steps)] /\ \A p \in Objs : Gains(p, IF dropClaimed[Current(a)] THEN 0 ELSE (IF p = ref[Current(a)]["version"] THEN 1 ELSE 0) + (IF p = ref[Current(a)]["edge"] THEN 1 ELSE 0))
  <2>1. Then(a, <<Op("dec", ref[Current(a)]["version"]), Op("dec", ref[Current(a)]["edge"])>>)
    <3>1. <<>> \in Seq(Steps)
      OBVIOUS
    <3>2. <<Op("dec", ref[Current(a)]["version"])>> \o <<Op("dec", ref[Current(a)]["edge"])>> = <<Op("dec", ref[Current(a)]["version"]), Op("dec", ref[Current(a)]["edge"])>>
      BY <3>1, <1>3, <1>4, SplitTwo
    <3> QED
      BY <3>2, <1>9 DEF DropOnce, Release
  <2>2. /\ After2(a, Op("dec", ref[Current(a)]["version"]), Op("dec", ref[Current(a)]["edge"])) /\ todo' \in [Actor -> Seq(Steps)]
        /\ \A p : Gains(p, (Owns(Op("dec", ref[Current(a)]["version"]), p) + Owns(Op("dec", ref[Current(a)]["edge"]), p)) - Owns(Head(todo[a]), p))
    BY <1>1, <2>1, <1>3, <1>4, Then2
  <2>3. \A p \in Objs : (Owns(Op("dec", ref[Current(a)]["version"]), p) + Owns(Op("dec", ref[Current(a)]["edge"]), p)) - Owns(Head(todo[a]), p) = IF dropClaimed[Current(a)] THEN 0 ELSE (IF p = ref[Current(a)]["version"] THEN 1 ELSE 0) + (IF p = ref[Current(a)]["edge"] THEN 1 ELSE 0)
    BY <1>1, <1>3, <1>4, <1>9, OwnsParts, NoneParts
  <2>4. \A p \in Objs : Gains(p, IF dropClaimed[Current(a)] THEN 0 ELSE (IF p = ref[Current(a)]["version"] THEN 1 ELSE 0) + (IF p = ref[Current(a)]["edge"] THEN 1 ELSE 0))
    BY <2>2, <2>3 DEF Gains
  <2> QED
    BY <2>2, <2>4
<1> QED
  BY <1>1, <1>2, <1>5, <1>6, <1>7, <1>8, <1>9

(* An attempt to take a reference from a weak one. *)
LEMMA TryIncRefShape ==
  ASSUME TypeInv, NameInv, NEW t \in Threads, TryIncRef(t)
  PROVE  /\ Now(t, "try") /\ todo' \in [Actor -> Seq(Steps)] /\ Current(t) \in Objs
         /\ strong[Current(t)] > 0 => After1(t, Op("recheck", Current(t)))
         /\ ~(strong[Current(t)] > 0) => After0(t)
         /\ \A p \in Objs : Gains(p, IF p = Current(t) /\ strong[p] > 0 THEN 1 ELSE 0)
<1>1. /\ todo[t] # <<>> /\ Now(t, "try") /\ todo \in [Actor -> Seq(Steps)] /\ t \in Actor
      /\ Head(todo[t]).op = "try" /\ Head(todo[t]).obj = Current(t)
  BY DoingParts, ActorParts DEF TryIncRef, TypeInv
<1>2. Current(t) \in Objs
  BY <1>1, CurrentType DEF TryIncRef
<1>3. Op("recheck", Current(t)) \in Steps /\ Op("recheck", Current(t)).op = "recheck" /\ Op("recheck", Current(t)).obj = Current(t)
  BY <1>2, OpParts, NameParts
<1>4. ASSUME strong[Current(t)] > 0
      PROVE  After1(t, Op("recheck", Current(t))) /\ todo' \in [Actor -> Seq(Steps)] /\ \A p \in Objs : Gains(p, IF p = Current(t) /\ strong[p] > 0 THEN 1 ELSE 0)
  <2>1. Then(t, <<Op("recheck", Current(t))>>)
    BY <1>4 DEF TryIncRef
  <2>2. /\ After1(t, Op("recheck", Current(t))) /\ todo' \in [Actor -> Seq(Steps)]
        /\ \A p : Gains(p, (Owns(Op("recheck", Current(t)), p)) - Owns(Head(todo[t]), p))
    BY <1>1, <2>1, <1>3, Then1
  <2>3. \A p \in Objs : (Owns(Op("recheck", Current(t)), p)) - Owns(Head(todo[t]), p) = IF p = Current(t) /\ strong[p] > 0 THEN 1 ELSE 0
    BY <1>1, <1>3, <1>4, OwnsParts, NoneParts
  <2>4. \A p \in Objs : Gains(p, IF p = Current(t) /\ strong[p] > 0 THEN 1 ELSE 0)
    BY <2>2, <2>3 DEF Gains
  <2> QED
    BY <2>2, <2>4
<1>5. ASSUME ~(strong[Current(t)] > 0)
      PROVE  After0(t) /\ todo' \in [Actor -> Seq(Steps)] /\ \A p \in Objs : Gains(p, IF p = Current(t) /\ strong[p] > 0 THEN 1 ELSE 0)
  <2>1. Then(t, <<>>)
    BY <1>5 DEF TryIncRef
  <2>2. /\ After0(t) /\ todo' \in [Actor -> Seq(Steps)]
        /\ \A p : Gains(p, 0 - Owns(Head(todo[t]), p))
    BY <1>1, <2>1, Then0
  <2>3. \A p \in Objs : 0 - Owns(Head(todo[t]), p) = IF p = Current(t) /\ strong[p] > 0 THEN 1 ELSE 0
    BY <1>1, <1>5, OwnsParts, NoneParts
  <2>4. \A p \in Objs : Gains(p, IF p = Current(t) /\ strong[p] > 0 THEN 1 ELSE 0)
    BY <2>2, <2>3 DEF Gains
  <2> QED
    BY <2>2, <2>4
<1> QED
  BY <1>1, <1>2, <1>4, <1>5

(* The reference taken from a weak one becomes a Value. *)
LEMMA RecheckShape ==
  ASSUME TypeInv, NameInv, NEW t \in Threads, Recheck(t)
  PROVE  /\ Now(t, "recheck") /\ todo' \in [Actor -> Seq(Steps)] /\ Current(t) \in Objs
         /\ linked[Current(t)] => After0(t)
         /\ ~linked[Current(t)] => After1(t, Op("dec", Current(t)))
         /\ \A p \in Objs : Gains(p, IF p = Current(t) /\ linked[p] THEN -1 ELSE 0)
<1>1. /\ todo[t] # <<>> /\ Now(t, "recheck") /\ todo \in [Actor -> Seq(Steps)] /\ t \in Actor
      /\ Head(todo[t]).op = "recheck" /\ Head(todo[t]).obj = Current(t)
  BY DoingParts, ActorParts DEF Recheck, TypeInv
<1>2. Current(t) \in Objs
  BY <1>1, CurrentType DEF Recheck
<1>3. Op("dec", Current(t)) \in Steps /\ Op("dec", Current(t)).op = "dec" /\ Op("dec", Current(t)).obj = Current(t)
  BY <1>2, OpParts, NameParts
<1>4. ASSUME linked[Current(t)]
      PROVE  After0(t) /\ todo' \in [Actor -> Seq(Steps)] /\ \A p \in Objs : Gains(p, IF p = Current(t) /\ linked[p] THEN -1 ELSE 0)
  <2>1. Then(t, <<>>)
    BY <1>4 DEF Recheck
  <2>2. /\ After0(t) /\ todo' \in [Actor -> Seq(Steps)]
        /\ \A p : Gains(p, 0 - Owns(Head(todo[t]), p))
    BY <1>1, <2>1, Then0
  <2>3. \A p \in Objs : 0 - Owns(Head(todo[t]), p) = IF p = Current(t) /\ linked[p] THEN -1 ELSE 0
    BY <1>1, <1>4, OwnsParts, NoneParts
  <2>4. \A p \in Objs : Gains(p, IF p = Current(t) /\ linked[p] THEN -1 ELSE 0)
    BY <2>2, <2>3 DEF Gains
  <2> QED
    BY <2>2, <2>4
<1>5. ASSUME ~linked[Current(t)]
      PROVE  After1(t, Op("dec", Current(t))) /\ todo' \in [Actor -> Seq(Steps)] /\ \A p \in Objs : Gains(p, IF p = Current(t) /\ linked[p] THEN -1 ELSE 0)
  <2>1. Then(t, <<Op("dec", Current(t))>>)
    BY <1>5 DEF Recheck
  <2>2. /\ After1(t, Op("dec", Current(t))) /\ todo' \in [Actor -> Seq(Steps)]
        /\ \A p : Gains(p, (Owns(Op("dec", Current(t)), p)) - Owns(Head(todo[t]), p))
    BY <1>1, <2>1, <1>3, Then1
  <2>3. \A p \in Objs : (Owns(Op("dec", Current(t)), p)) - Owns(Head(todo[t]), p) = IF p = Current(t) /\ linked[p] THEN -1 ELSE 0
    BY <1>1, <1>3, <1>5, OwnsParts, NoneParts
  <2>4. \A p \in Objs : Gains(p, IF p = Current(t) /\ linked[p] THEN -1 ELSE 0)
    BY <2>2, <2>3 DEF Gains
  <2> QED
    BY <2>2, <2>4
<1> QED
  BY <1>1, <1>2, <1>4, <1>5

(* The entry of the table. *)
LEMMA TableType ==
  ASSUME TypeInv
  PROVE  table \in Objs \cup {None}
BY NoneParts DEF TypeInv

(* A look at the table of strings. *)
LEMMA LookupShape ==
  ASSUME TypeInv, NameInv, NEW t \in Threads, Lookup(t)
  PROVE  /\ Now(t, "lookup") /\ todo' \in [Actor -> Seq(Steps)]
         /\ (table # None /\ strong[table] > 0) => After2(t, Op("own", table), Op("dec", table))
         /\ ~(table # None /\ strong[table] > 0) => After1(t, Op("alloc", None))
         /\ \A p \in Objs : Gains(p, IF p = table /\ strong[table] > 0 THEN 1 ELSE 0)
<1>1. /\ todo[t] # <<>> /\ Now(t, "lookup") /\ todo \in [Actor -> Seq(Steps)] /\ t \in Actor
      /\ Head(todo[t]).op = "lookup" /\ Head(todo[t]).obj = Current(t)
  BY DoingParts, ActorParts DEF Lookup, TypeInv
<1>2. Op("own", table) \in Steps /\ Op("own", table).op = "own" /\ Op("own", table).obj = table
  BY TableType, OpParts, NameParts
<1>3. Op("dec", table) \in Steps /\ Op("dec", table).op = "dec" /\ Op("dec", table).obj = table
  BY TableType, OpParts, NameParts
<1>4. Op("alloc", None) \in Steps /\ Op("alloc", None).op = "alloc" /\ Op("alloc", None).obj = None
  BY OpParts, OpParts, NameParts
<1>5. ASSUME (table # None /\ strong[table] > 0)
      PROVE  After2(t, Op("own", table), Op("dec", table)) /\ todo' \in [Actor -> Seq(Steps)] /\ \A p \in Objs : Gains(p, IF p = table /\ strong[table] > 0 THEN 1 ELSE 0)
  <2>1. Then(t, <<Op("own", table), Op("dec", table)>>)
    BY <1>5 DEF Lookup, Adopt
  <2>2. /\ After2(t, Op("own", table), Op("dec", table)) /\ todo' \in [Actor -> Seq(Steps)]
        /\ \A p : Gains(p, (Owns(Op("own", table), p) + Owns(Op("dec", table), p)) - Owns(Head(todo[t]), p))
    BY <1>1, <2>1, <1>2, <1>3, Then2
  <2>3. \A p \in Objs : (Owns(Op("own", table), p) + Owns(Op("dec", table), p)) - Owns(Head(todo[t]), p) = IF p = table /\ strong[table] > 0 THEN 1 ELSE 0
    BY <1>1, <1>2, <1>3, <1>5, OwnsParts, NoneParts
  <2>4. \A p \in Objs : Gains(p, IF p = table /\ strong[table] > 0 THEN 1 ELSE 0)
    BY <2>2, <2>3 DEF Gains
  <2> QED
    BY <2>2, <2>4
<1>6. ASSUME ~(table # None /\ strong[table] > 0)
      PROVE  After1(t, Op("alloc", None)) /\ todo' \in [Actor -> Seq(Steps)] /\ \A p \in Objs : Gains(p, IF p = table /\ strong[table] > 0 THEN 1 ELSE 0)
  <2>1. Then(t, <<Op("alloc", None)>>)
    BY <1>6 DEF Lookup, Adopt
  <2>2. /\ After1(t, Op("alloc", None)) /\ todo' \in [Actor -> Seq(Steps)]
        /\ \A p : Gains(p, (Owns(Op("alloc", None), p)) - Owns(Head(todo[t]), p))
    BY <1>1, <2>1, <1>4, Then1
  <2>3. \A p \in Objs : (Owns(Op("alloc", None), p)) - Owns(Head(todo[t]), p) = IF p = table /\ strong[table] > 0 THEN 1 ELSE 0
    BY <1>1, <1>4, <1>6, OwnsParts, NoneParts
  <2>4. \A p \in Objs : Gains(p, IF p = table /\ strong[table] > 0 THEN 1 ELSE 0)
    BY <2>2, <2>3 DEF Gains
  <2> QED
    BY <2>2, <2>4
<1> QED
  BY <1>1, <1>5, <1>6

(* A new string, not published yet. *)
LEMMA AllocStringShape ==
  ASSUME TypeInv, NameInv, NEW t \in Threads, NEW s \in Strings, AllocString(t, s)
  PROVE  /\ Now(t, "alloc") /\ todo' \in [Actor -> Seq(Steps)]
         /\ TRUE => After1(t, Op("publish", s))
         /\ \A p \in Objs : Gains(p, 0)
<1>1. /\ todo[t] # <<>> /\ Now(t, "alloc") /\ todo \in [Actor -> Seq(Steps)] /\ t \in Actor
      /\ Head(todo[t]).op = "alloc" /\ Head(todo[t]).obj = Current(t)
  BY DoingParts, ActorParts DEF AllocString, TypeInv
<1>2. Op("publish", s) \in Steps /\ Op("publish", s).op = "publish" /\ Op("publish", s).obj = s
  BY NoneParts, OpParts, NameParts
<1>3. ASSUME TRUE
      PROVE  After1(t, Op("publish", s)) /\ todo' \in [Actor -> Seq(Steps)] /\ \A p \in Objs : Gains(p, 0)
  <2>1. Then(t, <<Op("publish", s)>>)
    BY <1>3 DEF AllocString
  <2>2. /\ After1(t, Op("publish", s)) /\ todo' \in [Actor -> Seq(Steps)]
        /\ \A p : Gains(p, (Owns(Op("publish", s), p)) - Owns(Head(todo[t]), p))
    BY <1>1, <2>1, <1>2, Then1
  <2>3. \A p \in Objs : (Owns(Op("publish", s), p)) - Owns(Head(todo[t]), p) = 0
    BY <1>1, <1>2, <1>3, OwnsParts, NoneParts
  <2>4. \A p \in Objs : Gains(p, 0)
    BY <2>2, <2>3 DEF Gains
  <2> QED
    BY <2>2, <2>4
<1> QED
  BY <1>1, <1>3

(* A string is published, or another one found. *)
LEMMA PublishStringShape ==
  ASSUME TypeInv, NameInv, NEW t \in Threads, PublishString(t)
  PROVE  /\ Now(t, "publish") /\ todo' \in [Actor -> Seq(Steps)] /\ Current(t) \in Objs
         /\ (table # None /\ strong[table] > 0) => After3(t, Op("dec", Current(t)), Op("own", table), Op("dec", table))
         /\ ~(table # None /\ strong[table] > 0) => After1(t, Op("own", Current(t)))
         /\ \A p \in Objs : Gains(p, IF table # None /\ strong[table] > 0 THEN (IF p = Current(t) THEN 1 ELSE 0) + (IF p = table THEN 1 ELSE 0) ELSE 0)
<1>1. /\ todo[t] # <<>> /\ Now(t, "publish") /\ todo \in [Actor -> Seq(Steps)] /\ t \in Actor
      /\ Head(todo[t]).op = "publish" /\ Head(todo[t]).obj = Current(t)
  BY DoingParts, ActorParts DEF PublishString, TypeInv
<1>2. Current(t) \in Objs
  BY <1>1, CurrentType DEF PublishString
<1>3. Op("dec", Current(t)) \in Steps /\ Op("dec", Current(t)).op = "dec" /\ Op("dec", Current(t)).obj = Current(t)
  BY <1>2, TableType, OpParts, NameParts
<1>4. Op("own", table) \in Steps /\ Op("own", table).op = "own" /\ Op("own", table).obj = table
  BY <1>2, TableType, OpParts, NameParts
<1>5. Op("dec", table) \in Steps /\ Op("dec", table).op = "dec" /\ Op("dec", table).obj = table
  BY <1>2, TableType, OpParts, NameParts
<1>6. Op("own", Current(t)) \in Steps /\ Op("own", Current(t)).op = "own" /\ Op("own", Current(t)).obj = Current(t)
  BY <1>2, TableType, OpParts, NameParts
<1>7. ASSUME (table # None /\ strong[table] > 0)
      PROVE  After3(t, Op("dec", Current(t)), Op("own", table), Op("dec", table)) /\ todo' \in [Actor -> Seq(Steps)] /\ \A p \in Objs : Gains(p, IF table # None /\ strong[table] > 0 THEN (IF p = Current(t) THEN 1 ELSE 0) + (IF p = table THEN 1 ELSE 0) ELSE 0)
  <2>1. Then(t, <<Op("dec", Current(t)), Op("own", table), Op("dec", table)>>)
    <3>2. <<Op("dec", Current(t))>> \o <<Op("own", table), Op("dec", table)>> = <<Op("dec", Current(t)), Op("own", table), Op("dec", table)>>
      BY <1>3, <1>4, <1>5, JoinThree
    <3> QED
      BY <3>2, <1>7 DEF PublishString, Adopt
  <2>2. /\ After3(t, Op("dec", Current(t)), Op("own", table), Op("dec", table)) /\ todo' \in [Actor -> Seq(Steps)]
        /\ \A p : Gains(p, (Owns(Op("dec", Current(t)), p) + Owns(Op("own", table), p) + Owns(Op("dec", table), p)) - Owns(Head(todo[t]), p))
    BY <1>1, <2>1, <1>3, <1>4, <1>5, Then3
  <2>3. \A p \in Objs : (Owns(Op("dec", Current(t)), p) + Owns(Op("own", table), p) + Owns(Op("dec", table), p)) - Owns(Head(todo[t]), p) = IF table # None /\ strong[table] > 0 THEN (IF p = Current(t) THEN 1 ELSE 0) + (IF p = table THEN 1 ELSE 0) ELSE 0
    <3> TAKE p \in Objs
    <3>1. Owns(Head(todo[t]), p) = 0
      BY <1>1, OwnsParts
    <3>2. Owns(Op("dec", Current(t)), p) = IF p = Current(t) THEN 1 ELSE 0
      BY <1>3, OwnsParts
    <3>3. Owns(Op("own", table), p) = 0
      BY <1>4, OwnsParts
    <3>4. Owns(Op("dec", table), p) = IF p = table THEN 1 ELSE 0
      BY <1>5, OwnsParts
    <3> QED
      BY <3>1, <3>2, <3>3, <3>4, <1>7
  <2>4. \A p \in Objs : Gains(p, IF table # None /\ strong[table] > 0 THEN (IF p = Current(t) THEN 1 ELSE 0) + (IF p = table THEN 1 ELSE 0) ELSE 0)
    BY <2>2, <2>3 DEF Gains
  <2> QED
    BY <2>2, <2>4
<1>8. ASSUME ~(table # None /\ strong[table] > 0)
      PROVE  After1(t, Op("own", Current(t))) /\ todo' \in [Actor -> Seq(Steps)] /\ \A p \in Objs : Gains(p, IF table # None /\ strong[table] > 0 THEN (IF p = Current(t) THEN 1 ELSE 0) + (IF p = table THEN 1 ELSE 0) ELSE 0)
  <2>1. Then(t, <<Op("own", Current(t))>>)
    BY <1>8 DEF PublishString, Adopt
  <2>2. /\ After1(t, Op("own", Current(t))) /\ todo' \in [Actor -> Seq(Steps)]
        /\ \A p : Gains(p, (Owns(Op("own", Current(t)), p)) - Owns(Head(todo[t]), p))
    BY <1>1, <2>1, <1>6, Then1
  <2>3. \A p \in Objs : (Owns(Op("own", Current(t)), p)) - Owns(Head(todo[t]), p) = IF table # None /\ strong[table] > 0 THEN (IF p = Current(t) THEN 1 ELSE 0) + (IF p = table THEN 1 ELSE 0) ELSE 0
    BY <1>1, <1>6, <1>8, OwnsParts, NoneParts
  <2>4. \A p \in Objs : Gains(p, IF table # None /\ strong[table] > 0 THEN (IF p = Current(t) THEN 1 ELSE 0) + (IF p = table THEN 1 ELSE 0) ELSE 0)
    BY <2>2, <2>3 DEF Gains
  <2> QED
    BY <2>2, <2>4
<1> QED
  BY <1>1, <1>2, <1>7, <1>8

(* A store begins with the release of the old reference, if any. *)
LEMMA StoreShape ==
  ASSUME TypeInv, NameInv, NEW t \in Threads, NEW o \in Objs, NEW k \in Slots, NEW p \in Objs,
         Store(t, o, k, p)
  PROVE  /\ todo' \in [Actor -> Seq(Steps)] /\ k \in {"edge", "hidden"}
         /\ ref[o][k] = None => Begun1(t, PutOp(p, o, k))
         /\ ref[o][k] # None => Begun2(t, Op("dec", ref[o][k]), PutOp(p, o, k))
         /\ \A q \in Objs : Gains(q, IF q = ref[o][k] THEN 1 ELSE 0)
<1>1. /\ todo \in [Actor -> Seq(Steps)] /\ t \in Actor /\ ref[o][k] \in Objs \cup {None} /\ Idle(t)
      /\ k \in {"edge", "hidden"}
  BY ActorParts DEF Store, TypeInv, Ready, MayStore
<1>2. /\ PutOp(p, o, k) \in Steps /\ PutOp(p, o, k).op = "put"
  BY <1>1, PutParts
<1>3. /\ Op("dec", ref[o][k]) \in Steps /\ Op("dec", ref[o][k]).op = "dec"
      /\ Op("dec", ref[o][k]).obj = ref[o][k]
  BY <1>1, OpParts, NameParts
<1>4. ASSUME ref[o][k] = None
      PROVE  /\ todo' \in [Actor -> Seq(Steps)] /\ Begun1(t, PutOp(p, o, k))
             /\ \A q \in Objs : Gains(q, IF q = ref[o][k] THEN 1 ELSE 0)
  <2>1. <<>> \o <<PutOp(p, o, k)>> = <<PutOp(p, o, k)>>
    OBVIOUS
  <2>2. Start(t, <<PutOp(p, o, k)>>)
    BY <1>4, <2>1 DEF Store, PutOp
  <2>3. /\ todo' \in [Actor -> Seq(Steps)] /\ Begun1(t, PutOp(p, o, k))
        /\ \A q : Gains(q, Owns(PutOp(p, o, k), q))
    BY <1>1, <1>2, <2>2, Start1
  <2> QED
    BY <1>2, <1>4, <2>3, OwnsParts, NoneParts
<1>5. ASSUME ref[o][k] # None
      PROVE  /\ todo' \in [Actor -> Seq(Steps)] /\ Begun2(t, Op("dec", ref[o][k]), PutOp(p, o, k))
             /\ \A q \in Objs : Gains(q, IF q = ref[o][k] THEN 1 ELSE 0)
  <2>1. <<>> \in Seq(Steps)
    OBVIOUS
  <2>2. <<Op("dec", ref[o][k])>> \o <<PutOp(p, o, k)>> = <<Op("dec", ref[o][k]), PutOp(p, o, k)>>
    BY <1>2, <1>3, <2>1, SplitTwo
  <2>3. Start(t, <<Op("dec", ref[o][k]), PutOp(p, o, k)>>)
    BY <1>5, <2>2 DEF Store, PutOp
  <2>4. /\ todo' \in [Actor -> Seq(Steps)] /\ Begun2(t, Op("dec", ref[o][k]), PutOp(p, o, k))
        /\ \A q : Gains(q, Owns(Op("dec", ref[o][k]), q) + Owns(PutOp(p, o, k), q))
    BY <1>1, <1>2, <1>3, <2>3, Start2
  <2>5. \A q \in Objs : Owns(Op("dec", ref[o][k]), q) + Owns(PutOp(p, o, k), q)
                          = IF q = ref[o][k] THEN 1 ELSE 0
    BY <1>2, <1>3, OwnsParts
  <2>6. \A q \in Objs : Gains(q, IF q = ref[o][k] THEN 1 ELSE 0)
    BY <2>4, <2>5 DEF Gains
  <2> QED
    BY <2>4, <2>6
<1> QED
  BY <1>1, <1>4, <1>5

(* The destructor of the next object of a batch. *)
LEMMA DestroyShape ==
  ASSUME TypeInv, NameInv, DestroyNext
  PROVE  /\ Head(rest) \in Objs
         /\ Head(rest) \in Actors => UNCHANGED todo
         /\ Head(rest) \notin Actors =>
              /\ todo' \in [Actor -> Seq(Steps)]
              /\ ref[Head(rest)]["hidden"] = None => Begun1(Rec, Op("unweak", Head(rest)))
              /\ ref[Head(rest)]["hidden"] # None =>
                   Begun2(Rec, Op("dec", ref[Head(rest)]["hidden"]), Op("unweak", Head(rest)))
              /\ \A q \in Objs : Gains(q, IF q = ref[Head(rest)]["hidden"] THEN 1 ELSE 0)
<1> DEFINE o == Head(rest)
           h == ref[o]["hidden"]
<1>1. o \in Objs /\ Idle(Rec) /\ Rec \in Actor /\ todo \in [Actor -> Seq(Steps)]
  BY ActorParts DEF DestroyNext, TypeInv
<1>2. h \in Objs \cup {None}
  BY <1>1 DEF TypeInv, Slots
<1>3. o \in Actors => UNCHANGED todo
  BY DEF DestroyNext
<1>4. o \notin Actors => Start(Rec, Release(h) \o <<Op("unweak", o)>>)
  BY DEF DestroyNext, Destroy
<1> HIDE DEF h, o
<1>5. Op("unweak", o) \in Steps /\ Op("unweak", o).op = "unweak"
  BY <1>1, OpParts, NameParts
<1>6. Op("dec", h) \in Steps /\ Op("dec", h).op = "dec" /\ Op("dec", h).obj = h
  BY <1>2, OpParts, NameParts
<1>7. ASSUME o \notin Actors, h = None
      PROVE  /\ todo' \in [Actor -> Seq(Steps)] /\ Begun1(Rec, Op("unweak", o))
             /\ \A q \in Objs : Gains(q, IF q = h THEN 1 ELSE 0)
  <2>1. <<>> \o <<Op("unweak", o)>> = <<Op("unweak", o)>>
    OBVIOUS
  <2>2. Start(Rec, <<Op("unweak", o)>>)
    BY <1>4, <1>7, <2>1 DEF Release
  <2>3. /\ todo' \in [Actor -> Seq(Steps)] /\ Begun1(Rec, Op("unweak", o))
        /\ \A q : Gains(q, Owns(Op("unweak", o), q))
    BY <1>1, <1>5, <2>2, Start1
  <2> QED
    BY <1>5, <1>7, <2>3, OwnsParts, NoneParts
<1>8. ASSUME o \notin Actors, h # None
      PROVE  /\ todo' \in [Actor -> Seq(Steps)] /\ Begun2(Rec, Op("dec", h), Op("unweak", o))
             /\ \A q \in Objs : Gains(q, IF q = h THEN 1 ELSE 0)
  <2>1. <<>> \in Seq(Steps)
    OBVIOUS
  <2>2. <<Op("dec", h)>> \o <<Op("unweak", o)>> = <<Op("dec", h), Op("unweak", o)>>
    BY <1>5, <1>6, <2>1, SplitTwo
  <2>3. Start(Rec, <<Op("dec", h), Op("unweak", o)>>)
    BY <1>4, <1>8, <2>2 DEF Release
  <2>4. /\ todo' \in [Actor -> Seq(Steps)] /\ Begun2(Rec, Op("dec", h), Op("unweak", o))
        /\ \A q : Gains(q, Owns(Op("dec", h), q) + Owns(Op("unweak", o), q))
    BY <1>1, <1>5, <1>6, <2>3, Start2
  <2>5. \A q \in Objs : Owns(Op("dec", h), q) + Owns(Op("unweak", o), q) = IF q = h THEN 1 ELSE 0
    BY <1>5, <1>6, OwnsParts
  <2>6. \A q \in Objs : Gains(q, IF q = h THEN 1 ELSE 0)
    BY <2>4, <2>5 DEF Gains
  <2> QED
    BY <2>4, <2>6
<1> QED
  BY <1>1, <1>3, <1>7, <1>8 DEF o, h

-----------------------------------------------------------------------------
(* Where the steps of the next state come from. *)

(* Step m of b stays; if it was the next one of b, it still is. *)
Same(b, m) ==
  /\ m \in 1 .. Cnt(todo, b) /\ Stp(todo', b, m) = Stp(todo, b, m)
  /\ m = Cnt(todo, b) => Cnt(todo', b) = m

(* Step m of b is there after the action, with this name and object. *)
Then1Is(b, m, name, o) ==
  m \in 1 .. Cnt(todo', b) /\ Stp(todo', b, m).op = name /\ Stp(todo', b, m).obj = o

Found == table # None /\ strong[table] > 0

NewDec(b, m) ==
  \E x \in Objs :
    /\ Then1Is(b, m, "dec", x)
    /\ \/ b \in Threads /\ \E o \in Objs : Drop(b, o) /\ x = o
       \/ b \in Threads /\ \E o \in Objs, k \in Slots, p \in Objs : Store(b, o, k, p) /\ x = ref[o][k]
       \/ b \in Threads /\ Recheck(b) /\ ~linked[Current(b)] /\ x = Current(b)
       \/ b \in Threads /\ Lookup(b) /\ Found /\ x = table
       \/ b \in Threads /\ PublishString(b) /\ Found /\ x \in {table, Current(b)}
       \/ DropOnce(b) /\ ~dropClaimed[Current(b)] /\ \E k \in {"edge", "version"} : x = ref[Current(b)][k]
       \/ b = Gc /\ \E o \in Objs : Trim(o) /\ x = ref[o]["version"]
       \/ b = Rec /\ DestroyNext /\ Head(rest) \notin Actors /\ x = ref[Head(rest)]["hidden"]
NewClaim(b, m) ==
  /\ DecRef(b) /\ strong[Current(b)] <= 1 /\ m = Cnt(todo, b) /\ m = Cnt(todo', b)
  /\ Then1Is(b, m, "claim", Current(b))
NewRetire(b, m) ==
  /\ Claim(b) /\ ~collecting[Current(b)] /\ m = Cnt(todo, b)
  /\ Then1Is(b, m, "retire", Current(b))
NewNull(b, m) ==
  /\ Claim(b) /\ ~collecting[Current(b)]
  /\ Then1Is(b, m, "null", Current(b)) /\ Then1Is(b, m - 1, "retire", Current(b))
NewDropOnce(b, m) ==
  \/ /\ Claim(b) /\ ~collecting[Current(b)]
     /\ Then1Is(b, m, "dropOnce", Current(b)) /\ Then1Is(b, m - 1, "null", Current(b))
  \/ b = Rec /\ DropNext /\ m = 1 /\ Then1Is(b, m, "dropOnce", Head(rest))
NewPut(b, m) ==
  \E o \in Objs, k \in {"edge", "hidden"}, p \in Objs :
    /\ b \in Threads /\ Store(b, o, k, p) /\ m = 1 /\ m \in 1 .. Cnt(todo', b)
    /\ Stp(todo', b, m) = PutOp(p, o, k)
NewTry(b, m) ==
  \E o \in Objs : b \in Threads /\ StrongRef(b, o) /\ m = 1 /\ Then1Is(b, m, "try", o)
NewRecheck(b, m) ==
  /\ b \in Threads /\ TryIncRef(b) /\ strong[Current(b)] > 0 /\ m = Cnt(todo, b)
  /\ Then1Is(b, m, "recheck", Current(b))
NewLookup(b, m) == b \in Threads /\ Intern(b) /\ m = 1 /\ Then1Is(b, m, "lookup", None)
NewAlloc(b, m) ==
  b \in Threads /\ Lookup(b) /\ ~Found /\ m = Cnt(todo, b) /\ Then1Is(b, m, "alloc", None)
NewPublish(b, m) ==
  \E s \in Strings :
    b \in Threads /\ AllocString(b, s) /\ m = Cnt(todo, b) /\ Then1Is(b, m, "publish", s)
NewOwn(b, m) ==
  /\ b \in Threads
  /\ \/ /\ Lookup(b) \/ PublishString(b)
        /\ Found /\ Then1Is(b, m, "own", table) /\ Then1Is(b, m - 1, "dec", table)
     \/ PublishString(b) /\ ~Found /\ m = Cnt(todo, b) /\ Then1Is(b, m, "own", Current(b))
NewUnweak(b, m) ==
  /\ b = Rec /\ DestroyNext /\ Head(rest) \notin Actors /\ m = 1
  /\ Then1Is(b, m, "unweak", Head(rest))

NewStep(b, m) ==
  \/ NewDec(b, m) \/ NewClaim(b, m) \/ NewRetire(b, m) \/ NewNull(b, m) \/ NewDropOnce(b, m)
  \/ NewPut(b, m) \/ NewTry(b, m) \/ NewRecheck(b, m) \/ NewLookup(b, m) \/ NewAlloc(b, m)
  \/ NewPublish(b, m) \/ NewOwn(b, m) \/ NewUnweak(b, m)

(* The steps after a change, old and new. *)

(* Every step is an old one. *)
LEMMA After0Cases ==
  ASSUME NEW a \in Actor, NEW b \in Actor, Cnt(todo, a) \in Nat, Cnt(todo, b) \in Nat, After0(a),
         Cnt(todo, a) # 0, NEW m \in 1 .. Cnt(todo', b)
  PROVE  \/ Same(b, m)
BY DEF After0, Keeps, Same

(* Every step is an old one or one of these. *)
LEMMA After1Cases ==
  ASSUME NEW a \in Actor, NEW b \in Actor, NEW x, Cnt(todo, a) \in Nat, Cnt(todo, b) \in Nat,
         After1(a, x), Cnt(todo, a) # 0, NEW m \in 1 .. Cnt(todo', b)
  PROVE  \/ Same(b, m)
         \/ (b = a /\ m = Cnt(todo, a) /\ Stp(todo', a, m) = x)
BY DEF After1, Keeps, Same

(* Every step is an old one or one of these. *)
LEMMA After2Cases ==
  ASSUME NEW a \in Actor, NEW b \in Actor, NEW x, NEW y, Cnt(todo, a) \in Nat,
         Cnt(todo, b) \in Nat, After2(a, x, y), Cnt(todo, a) # 0, NEW m \in 1 .. Cnt(todo', b)
  PROVE  \/ Same(b, m)
         \/ (b = a /\ m = Cnt(todo, a) /\ Stp(todo', a, m) = y)
         \/ (b = a /\ m = Cnt(todo, a) + 1 /\ Stp(todo', a, m) = x)
BY DEF After2, Keeps, Same

(* Every step is an old one or one of these. *)
LEMMA After3Cases ==
  ASSUME NEW a \in Actor, NEW b \in Actor, NEW x, NEW y, NEW z, Cnt(todo, a) \in Nat,
         Cnt(todo, b) \in Nat, After3(a, x, y, z), Cnt(todo, a) # 0, NEW m \in 1 .. Cnt(todo', b)
  PROVE  \/ Same(b, m)
         \/ (b = a /\ m = Cnt(todo, a) /\ Stp(todo', a, m) = z)
         \/ (b = a /\ m = Cnt(todo, a) + 1 /\ Stp(todo', a, m) = y)
         \/ (b = a /\ m = Cnt(todo, a) + 2 /\ Stp(todo', a, m) = x)
BY DEF After3, Keeps, Same

(* Every step is an old one or one of these. *)
LEMMA Begun1Cases ==
  ASSUME NEW a \in Actor, NEW b \in Actor, NEW x, Cnt(todo, a) \in Nat, Cnt(todo, b) \in Nat,
         Begun1(a, x), NEW m \in 1 .. Cnt(todo', b)
  PROVE  \/ Same(b, m)
         \/ (b = a /\ m = 1 /\ Stp(todo', a, m) = x)
BY DEF Begun1, Keeps, Same

(* Every step is an old one or one of these. *)
LEMMA Begun2Cases ==
  ASSUME NEW a \in Actor, NEW b \in Actor, NEW x, NEW y, Cnt(todo, a) \in Nat,
         Cnt(todo, b) \in Nat, Begun2(a, x, y), NEW m \in 1 .. Cnt(todo', b)
  PROVE  \/ Same(b, m)
         \/ (b = a /\ m = 1 /\ Stp(todo', a, m) = y)
         \/ (b = a /\ m = 2 /\ Stp(todo', a, m) = x)
BY DEF Begun2, Keeps, Same

(* Without a change of the lists the steps stay. *)
LEMMA SameCases ==
  ASSUME UNCHANGED todo, NEW b \in Actor, NEW m \in 1 .. Cnt(todo', b)
  PROVE  Same(b, m)
<1>1. Cnt(todo', b) = Cnt(todo, b) /\ Stp(todo', b, m) = Stp(todo, b, m)
  BY DEF Cnt, Stp
<1> QED
  BY <1>1 DEF Same

(* The next object of the pass. *)
LEMMA DropNextType ==
  ASSUME TypeInv, DropNext
  PROVE  Head(rest) \in Objs
BY DEF TypeInv, DropNext

(* Every step is an old one or one that an action of its actor has begun. *)
LEMMA Origin ==
  ASSUME TypeInv, NameInv, NEW b \in Actor, NEW m \in 1 .. Cnt(todo', b), [Next]_vars
  PROVE  Same(b, m) \/ NewStep(b, m)
<1>0. world.threads \subseteq Threads
  BY WorldThreads
<1>1. ASSUME NEW t \in Threads, NEW o \in Objs, New(t, o) PROVE Same(b, m) \/ NewStep(b, m)
  BY <1>1, SameCases DEF New
<1>2. ASSUME NEW t \in Threads, NEW u \in Threads, NEW o \in Objs, Share(t, u, o)
      PROVE  Same(b, m) \/ NewStep(b, m)
  BY <1>2, SameCases DEF Share
<1>3. ASSUME NEW t \in Threads, NEW o \in Objs, Drop(t, o) PROVE Same(b, m) \/ NewStep(b, m)
  <2>1. Cnt(todo, b) \in Nat /\ Cnt(todo, t) \in Nat /\ t \in Actor
    BY CntType, ActorParts DEF TypeInv
  <2>2. CASE TRUE
    <3>1. Begun1(t, Op("dec", o))
      BY <1>3, <2>2, DropShape
    <3>2. \/ Same(b, m)
          \/ (b = t /\ m = 1 /\ Stp(todo', t, m) = Op("dec", o))
      BY <2>1, <3>1, Begun1Cases
    <3>3. CASE b = t /\ m = 1 /\ Stp(todo', t, m) = Op("dec", o)
      <4>1. NewDec(b, m)
        <5>1. o \in Objs
          OBVIOUS
        <5>2. Then1Is(b, m, "dec", o)
          BY <3>3 DEF Then1Is, Op
        <5> QED
          BY <1>3, <2>2, <2>1, <3>1, <3>3, <5>1, <5>2 DEF NewDec
      <4> QED
        BY <4>1 DEF NewStep
    <3> QED
      BY <3>2, <3>3
  <2> QED
    BY <2>2
<1>4. ASSUME NEW t \in Threads, NEW o \in Objs, NEW k \in Slots, NEW p \in Objs, Store(t, o, k, p)
      PROVE  Same(b, m) \/ NewStep(b, m)
  <2>1. Cnt(todo, b) \in Nat /\ Cnt(todo, t) \in Nat /\ t \in Actor
    BY CntType, ActorParts DEF TypeInv
  <2>2. CASE ref[o][k] = None
    <3>1. Begun1(t, PutOp(p, o, k))
      BY <1>4, <2>2, StoreShape
    <3>2. \/ Same(b, m)
          \/ (b = t /\ m = 1 /\ Stp(todo', t, m) = PutOp(p, o, k))
      BY <2>1, <3>1, Begun1Cases
    <3>3. CASE b = t /\ m = 1 /\ Stp(todo', t, m) = PutOp(p, o, k)
      <4>1. NewPut(b, m)
        BY <1>4, <3>3, <2>1, <3>1, StoreShape DEF NewPut, Begun1
      <4> QED
        BY <4>1 DEF NewStep
    <3> QED
      BY <3>2, <3>3
  <2>3. CASE ref[o][k] # None
    <3>1. Begun2(t, Op("dec", ref[o][k]), PutOp(p, o, k))
      BY <1>4, <2>3, StoreShape
    <3>2. \/ Same(b, m)
          \/ (b = t /\ m = 1 /\ Stp(todo', t, m) = PutOp(p, o, k))
          \/ (b = t /\ m = 2 /\ Stp(todo', t, m) = Op("dec", ref[o][k]))
      BY <2>1, <3>1, Begun2Cases
    <3>3. CASE b = t /\ m = 1 /\ Stp(todo', t, m) = PutOp(p, o, k)
      <4>1. NewPut(b, m)
        BY <1>4, <3>3, <2>1, <3>1, StoreShape DEF NewPut, Begun2
      <4> QED
        BY <4>1 DEF NewStep
    <3>4. CASE b = t /\ m = 2 /\ Stp(todo', t, m) = Op("dec", ref[o][k])
      <4>1. NewDec(b, m)
        <5>1. ref[o][k] \in Objs
          BY <2>3 DEF TypeInv
        <5>2. Then1Is(b, m, "dec", ref[o][k])
          BY <3>4 DEF Then1Is, Op
        <5> QED
          BY <1>4, <2>3, <2>1, <3>1, <3>4, <5>1, <5>2 DEF NewDec
      <4> QED
        BY <4>1 DEF NewStep
    <3> QED
      BY <3>2, <3>3, <3>4
  <2> QED
    BY <2>2, <2>3
<1>5. ASSUME NEW t \in Threads, Put(t) PROVE Same(b, m) \/ NewStep(b, m)
  <2>1. Cnt(todo, b) \in Nat /\ Cnt(todo, t) \in Nat \ {0} /\ t \in Actor
    BY <1>5, PutShape, CntType, ActorParts DEF TypeInv, Now
  <2>2. CASE TRUE
    <3>1. After0(t)
      BY <1>5, <2>2, PutShape
    <3> QED
      BY <2>1, <3>1, After0Cases
  <2> QED
    BY <2>2
<1>6. ASSUME NEW t \in Threads, NEW o \in Objs, NEW k \in Slots, Load(t, o, k)
      PROVE  Same(b, m) \/ NewStep(b, m)
  BY <1>6, SameCases DEF Load
<1>7. ASSUME NEW t \in Threads, NEW o \in Objs, NEW v \in Versions, SaveVersion(t, o, v)
      PROVE  Same(b, m) \/ NewStep(b, m)
  BY <1>7, SameCases DEF SaveVersion
<1>8. ASSUME NEW t \in Threads, NEW o \in Objs, WeakRef(t, o) PROVE Same(b, m) \/ NewStep(b, m)
  BY <1>8, SameCases DEF WeakRef
<1>9. ASSUME NEW t \in Threads, NEW o \in Objs, DropWeak(t, o) PROVE Same(b, m) \/ NewStep(b, m)
  BY <1>9, SameCases DEF DropWeak
<1>10. ASSUME NEW t \in Threads, NEW o \in Objs, StrongRef(t, o) PROVE Same(b, m) \/ NewStep(b, m)
  <2>1. Cnt(todo, b) \in Nat /\ Cnt(todo, t) \in Nat /\ t \in Actor
    BY CntType, ActorParts DEF TypeInv
  <2>2. CASE TRUE
    <3>1. Begun1(t, Op("try", o))
      BY <1>10, <2>2, StrongRefShape
    <3>2. \/ Same(b, m)
          \/ (b = t /\ m = 1 /\ Stp(todo', t, m) = Op("try", o))
      BY <2>1, <3>1, Begun1Cases
    <3>3. CASE b = t /\ m = 1 /\ Stp(todo', t, m) = Op("try", o)
      <4>1. NewTry(b, m)
        <5>1. o \in Objs
          OBVIOUS
        <5>2. Then1Is(b, m, "try", o)
          BY <3>3 DEF Then1Is, Op
        <5> QED
          BY <1>10, <2>2, <2>1, <3>1, <3>3, <5>1, <5>2 DEF NewTry
      <4> QED
        BY <4>1 DEF NewStep
    <3> QED
      BY <3>2, <3>3
  <2> QED
    BY <2>2
<1>11. ASSUME NEW t \in Threads, TryIncRef(t) PROVE Same(b, m) \/ NewStep(b, m)
  <2>1. Cnt(todo, b) \in Nat /\ Cnt(todo, t) \in Nat \ {0} /\ t \in Actor
    BY <1>11, TryIncRefShape, CntType, ActorParts DEF TypeInv, Now
  <2>2. CASE strong[Current(t)] > 0
    <3>1. After1(t, Op("recheck", Current(t)))
      BY <1>11, <2>2, TryIncRefShape
    <3>2. \/ Same(b, m)
          \/ (b = t /\ m = Cnt(todo, t) /\ Stp(todo', t, m) = Op("recheck", Current(t)))
      BY <2>1, <3>1, After1Cases
    <3>3. CASE b = t /\ m = Cnt(todo, t) /\ Stp(todo', t, m) = Op("recheck", Current(t))
      <4>1. NewRecheck(b, m)
        <5>1. Current(t) \in Objs
          BY <1>11, <2>2, TryIncRefShape
        <5>2. Then1Is(b, m, "recheck", Current(t))
          BY <3>3 DEF Then1Is, Op
        <5> QED
          BY <1>11, <2>2, <2>1, <3>1, <3>3, <5>1, <5>2 DEF NewRecheck
      <4> QED
        BY <4>1 DEF NewStep
    <3> QED
      BY <3>2, <3>3
  <2>3. CASE ~(strong[Current(t)] > 0)
    <3>1. After0(t)
      BY <1>11, <2>3, TryIncRefShape
    <3> QED
      BY <2>1, <3>1, After0Cases
  <2> QED
    BY <2>2, <2>3
<1>12. ASSUME NEW t \in Threads, Recheck(t) PROVE Same(b, m) \/ NewStep(b, m)
  <2>1. Cnt(todo, b) \in Nat /\ Cnt(todo, t) \in Nat \ {0} /\ t \in Actor
    BY <1>12, RecheckShape, CntType, ActorParts DEF TypeInv, Now
  <2>2. CASE linked[Current(t)]
    <3>1. After0(t)
      BY <1>12, <2>2, RecheckShape
    <3> QED
      BY <2>1, <3>1, After0Cases
  <2>3. CASE ~linked[Current(t)]
    <3>1. After1(t, Op("dec", Current(t)))
      BY <1>12, <2>3, RecheckShape
    <3>2. \/ Same(b, m)
          \/ (b = t /\ m = Cnt(todo, t) /\ Stp(todo', t, m) = Op("dec", Current(t)))
      BY <2>1, <3>1, After1Cases
    <3>3. CASE b = t /\ m = Cnt(todo, t) /\ Stp(todo', t, m) = Op("dec", Current(t))
      <4>1. NewDec(b, m)
        <5>1. Current(t) \in Objs
          BY <1>12, <2>3, RecheckShape
        <5>2. Then1Is(b, m, "dec", Current(t))
          BY <3>3 DEF Then1Is, Op
        <5> QED
          BY <1>12, <2>3, <2>1, <3>1, <3>3, <5>1, <5>2 DEF NewDec
      <4> QED
        BY <4>1 DEF NewStep
    <3> QED
      BY <3>2, <3>3
  <2> QED
    BY <2>2, <2>3
<1>13. ASSUME NEW t \in Threads, Intern(t) PROVE Same(b, m) \/ NewStep(b, m)
  <2>1. Cnt(todo, b) \in Nat /\ Cnt(todo, t) \in Nat /\ t \in Actor
    BY CntType, ActorParts DEF TypeInv
  <2>2. CASE TRUE
    <3>1. Begun1(t, Op("lookup", None))
      BY <1>13, <2>2, InternShape
    <3>2. \/ Same(b, m)
          \/ (b = t /\ m = 1 /\ Stp(todo', t, m) = Op("lookup", None))
      BY <2>1, <3>1, Begun1Cases
    <3>3. CASE b = t /\ m = 1 /\ Stp(todo', t, m) = Op("lookup", None)
      <4>1. NewLookup(b, m)
        <5>1. None \in Objs \cup {None}
          OBVIOUS
        <5>2. Then1Is(b, m, "lookup", None)
          BY <3>3 DEF Then1Is, Op
        <5> QED
          BY <1>13, <2>2, <2>1, <3>1, <3>3, <5>1, <5>2 DEF NewLookup
      <4> QED
        BY <4>1 DEF NewStep
    <3> QED
      BY <3>2, <3>3
  <2> QED
    BY <2>2
<1>14. ASSUME NEW t \in Threads, Lookup(t) PROVE Same(b, m) \/ NewStep(b, m)
  <2>1. Cnt(todo, b) \in Nat /\ Cnt(todo, t) \in Nat \ {0} /\ t \in Actor
    BY <1>14, LookupShape, CntType, ActorParts DEF TypeInv, Now
  <2>2. CASE Found
    <3>1. After2(t, Op("own", table), Op("dec", table))
      BY <1>14, <2>2, LookupShape DEF Found
    <3>2. \/ Same(b, m)
          \/ (b = t /\ m = Cnt(todo, t) /\ Stp(todo', t, m) = Op("dec", table))
          \/ (b = t /\ m = Cnt(todo, t) + 1 /\ Stp(todo', t, m) = Op("own", table))
      BY <2>1, <3>1, After2Cases
    <3>3. CASE b = t /\ m = Cnt(todo, t) /\ Stp(todo', t, m) = Op("dec", table)
      <4>1. NewDec(b, m)
        <5>1. table \in Objs
          BY <1>14, <2>2, TableType DEF Found
        <5>2. Then1Is(b, m, "dec", table)
          BY <3>3 DEF Then1Is, Op
        <5> QED
          BY <1>14, <2>2, <2>1, <3>1, <3>3, <5>1, <5>2 DEF NewDec
      <4> QED
        BY <4>1 DEF NewStep
    <3>4. CASE b = t /\ m = Cnt(todo, t) + 1 /\ Stp(todo', t, m) = Op("own", table)
      <4>1. NewOwn(b, m)
        <5>1. table \in Objs
          BY <1>14, <2>2, TableType DEF Found
        <5>2. Then1Is(b, m, "own", table)
          BY <3>4 DEF Then1Is, Op
        <5>3. Then1Is(b, m - 1, "dec", table)
          BY <2>1, <3>1, <3>4 DEF Then1Is, Op, After2
        <5> QED
          BY <1>14, <2>2, <2>1, <3>1, <3>4, <5>1, <5>2, <5>3 DEF NewOwn
      <4> QED
        BY <4>1 DEF NewStep
    <3> QED
      BY <3>2, <3>3, <3>4
  <2>3. CASE ~Found
    <3>1. After1(t, Op("alloc", None))
      BY <1>14, <2>3, LookupShape DEF Found
    <3>2. \/ Same(b, m)
          \/ (b = t /\ m = Cnt(todo, t) /\ Stp(todo', t, m) = Op("alloc", None))
      BY <2>1, <3>1, After1Cases
    <3>3. CASE b = t /\ m = Cnt(todo, t) /\ Stp(todo', t, m) = Op("alloc", None)
      <4>1. NewAlloc(b, m)
        <5>1. None \in Objs \cup {None}
          OBVIOUS
        <5>2. Then1Is(b, m, "alloc", None)
          BY <3>3 DEF Then1Is, Op
        <5> QED
          BY <1>14, <2>3, <2>1, <3>1, <3>3, <5>1, <5>2 DEF NewAlloc
      <4> QED
        BY <4>1 DEF NewStep
    <3> QED
      BY <3>2, <3>3
  <2> QED
    BY <2>2, <2>3
<1>15. ASSUME NEW t \in Threads, NEW s \in Strings, AllocString(t, s)
      PROVE  Same(b, m) \/ NewStep(b, m)
  <2>1. Cnt(todo, b) \in Nat /\ Cnt(todo, t) \in Nat \ {0} /\ t \in Actor
    BY <1>15, AllocStringShape, CntType, ActorParts DEF TypeInv, Now
  <2>2. CASE TRUE
    <3>1. After1(t, Op("publish", s))
      BY <1>15, <2>2, AllocStringShape
    <3>2. \/ Same(b, m)
          \/ (b = t /\ m = Cnt(todo, t) /\ Stp(todo', t, m) = Op("publish", s))
      BY <2>1, <3>1, After1Cases
    <3>3. CASE b = t /\ m = Cnt(todo, t) /\ Stp(todo', t, m) = Op("publish", s)
      <4>1. NewPublish(b, m)
        <5>1. s \in Objs
          BY <1>15, <2>2, NoneParts
        <5>2. Then1Is(b, m, "publish", s)
          BY <3>3 DEF Then1Is, Op
        <5> QED
          BY <1>15, <2>2, <2>1, <3>1, <3>3, <5>1, <5>2 DEF NewPublish
      <4> QED
        BY <4>1 DEF NewStep
    <3> QED
      BY <3>2, <3>3
  <2> QED
    BY <2>2
<1>16. ASSUME NEW t \in Threads, PublishString(t) PROVE Same(b, m) \/ NewStep(b, m)
  <2>1. Cnt(todo, b) \in Nat /\ Cnt(todo, t) \in Nat \ {0} /\ t \in Actor
    BY <1>16, PublishStringShape, CntType, ActorParts DEF TypeInv, Now
  <2>2. CASE Found
    <3>1. After3(t, Op("dec", Current(t)), Op("own", table), Op("dec", table))
      BY <1>16, <2>2, PublishStringShape DEF Found
    <3>2. \/ Same(b, m)
          \/ (b = t /\ m = Cnt(todo, t) /\ Stp(todo', t, m) = Op("dec", table))
          \/ (b = t /\ m = Cnt(todo, t) + 1 /\ Stp(todo', t, m) = Op("own", table))
          \/ (b = t /\ m = Cnt(todo, t) + 2 /\ Stp(todo', t, m) = Op("dec", Current(t)))
      BY <2>1, <3>1, After3Cases
    <3>3. CASE b = t /\ m = Cnt(todo, t) /\ Stp(todo', t, m) = Op("dec", table)
      <4>1. NewDec(b, m)
        <5>1. table \in Objs
          BY <1>16, <2>2, TableType DEF Found
        <5>2. Then1Is(b, m, "dec", table)
          BY <3>3 DEF Then1Is, Op
        <5> QED
          BY <1>16, <2>2, <2>1, <3>1, <3>3, <5>1, <5>2 DEF NewDec
      <4> QED
        BY <4>1 DEF NewStep
    <3>4. CASE b = t /\ m = Cnt(todo, t) + 1 /\ Stp(todo', t, m) = Op("own", table)
      <4>1. NewOwn(b, m)
        <5>1. table \in Objs
          BY <1>16, <2>2, TableType DEF Found
        <5>2. Then1Is(b, m, "own", table)
          BY <3>4 DEF Then1Is, Op
        <5>3. Then1Is(b, m - 1, "dec", table)
          BY <2>1, <3>1, <3>4 DEF Then1Is, Op, After3
        <5> QED
          BY <1>16, <2>2, <2>1, <3>1, <3>4, <5>1, <5>2, <5>3 DEF NewOwn
      <4> QED
        BY <4>1 DEF NewStep
    <3>5. CASE b = t /\ m = Cnt(todo, t) + 2 /\ Stp(todo', t, m) = Op("dec", Current(t))
      <4>1. NewDec(b, m)
        <5>1. Current(t) \in Objs
          BY <1>16, <2>2, PublishStringShape
        <5>2. Then1Is(b, m, "dec", Current(t))
          BY <3>5 DEF Then1Is, Op
        <5> QED
          BY <1>16, <2>2, <2>1, <3>1, <3>5, <5>1, <5>2 DEF NewDec
      <4> QED
        BY <4>1 DEF NewStep
    <3> QED
      BY <3>2, <3>3, <3>4, <3>5
  <2>3. CASE ~Found
    <3>1. After1(t, Op("own", Current(t)))
      BY <1>16, <2>3, PublishStringShape DEF Found
    <3>2. \/ Same(b, m)
          \/ (b = t /\ m = Cnt(todo, t) /\ Stp(todo', t, m) = Op("own", Current(t)))
      BY <2>1, <3>1, After1Cases
    <3>3. CASE b = t /\ m = Cnt(todo, t) /\ Stp(todo', t, m) = Op("own", Current(t))
      <4>1. NewOwn(b, m)
        <5>1. Current(t) \in Objs
          BY <1>16, <2>3, PublishStringShape
        <5>2. Then1Is(b, m, "own", Current(t))
          BY <3>3 DEF Then1Is, Op
        <5> QED
          BY <1>16, <2>3, <2>1, <3>1, <3>3, <5>1, <5>2 DEF NewOwn
      <4> QED
        BY <4>1 DEF NewStep
    <3> QED
      BY <3>2, <3>3
  <2> QED
    BY <2>2, <2>3
<1>17. ASSUME NEW t \in Threads, Own(t) PROVE Same(b, m) \/ NewStep(b, m)
  <2>1. Cnt(todo, b) \in Nat /\ Cnt(todo, t) \in Nat \ {0} /\ t \in Actor
    BY <1>17, OwnShape, CntType, ActorParts DEF TypeInv, Now
  <2>2. CASE TRUE
    <3>1. After0(t)
      BY <1>17, <2>2, OwnShape
    <3> QED
      BY <2>1, <3>1, After0Cases
  <2> QED
    BY <2>2
<1>18. ASSUME NEW a \in Actor, DecRef(a) PROVE Same(b, m) \/ NewStep(b, m)
  <2>1. Cnt(todo, b) \in Nat /\ Cnt(todo, a) \in Nat \ {0} /\ a \in Actor
    BY <1>18, DecRefShape, CntType, ActorParts DEF TypeInv, Now
  <2>2. CASE strong[Current(a)] <= 1
    <3>1. After1(a, Op("claim", Current(a)))
      BY <1>18, <2>2, DecRefShape
    <3>2. \/ Same(b, m)
          \/ (b = a /\ m = Cnt(todo, a) /\ Stp(todo', a, m) = Op("claim", Current(a)))
      BY <2>1, <3>1, After1Cases
    <3>3. CASE b = a /\ m = Cnt(todo, a) /\ Stp(todo', a, m) = Op("claim", Current(a))
      <4>1. NewClaim(b, m)
        <5>1. Current(a) \in Objs
          BY <1>18, <2>2, DecRefShape
        <5>2. Then1Is(b, m, "claim", Current(a))
          BY <3>3 DEF Then1Is, Op
        <5> QED
          BY <1>18, <2>2, <2>1, <3>1, <3>3, <5>1, <5>2 DEF NewClaim, After1
      <4> QED
        BY <4>1 DEF NewStep
    <3> QED
      BY <3>2, <3>3
  <2>3. CASE ~(strong[Current(a)] <= 1)
    <3>1. After0(a)
      BY <1>18, <2>3, DecRefShape
    <3> QED
      BY <2>1, <3>1, After0Cases
  <2> QED
    BY <2>2, <2>3
<1>19. ASSUME NEW a \in Actor, Claim(a) PROVE Same(b, m) \/ NewStep(b, m)
  <2>1. Cnt(todo, b) \in Nat /\ Cnt(todo, a) \in Nat \ {0} /\ a \in Actor
    BY <1>19, ClaimShape, CntType, ActorParts DEF TypeInv, Now
  <2>2. CASE collecting[Current(a)]
    <3>1. After0(a)
      BY <1>19, <2>2, ClaimShape
    <3> QED
      BY <2>1, <3>1, After0Cases
  <2>3. CASE ~collecting[Current(a)] /\ InProgress
    <3>1. After3(a, Op("dropOnce", Current(a)), Op("null", Current(a)), Op("retire", Current(a)))
      BY <1>19, <2>3, ClaimShape
    <3>2. \/ Same(b, m)
          \/ (b = a /\ m = Cnt(todo, a) /\ Stp(todo', a, m) = Op("retire", Current(a)))
          \/ (b = a /\ m = Cnt(todo, a) + 1 /\ Stp(todo', a, m) = Op("null", Current(a)))
          \/ (b = a /\ m = Cnt(todo, a) + 2 /\ Stp(todo', a, m) = Op("dropOnce", Current(a)))
      BY <2>1, <3>1, After3Cases
    <3>3. CASE b = a /\ m = Cnt(todo, a) /\ Stp(todo', a, m) = Op("retire", Current(a))
      <4>1. NewRetire(b, m)
        <5>1. Current(a) \in Objs
          BY <1>19, <2>3, ClaimShape
        <5>2. Then1Is(b, m, "retire", Current(a))
          BY <3>3 DEF Then1Is, Op
        <5> QED
          BY <1>19, <2>3, <2>1, <3>1, <3>3, <5>1, <5>2 DEF NewRetire
      <4> QED
        BY <4>1 DEF NewStep
    <3>4. CASE b = a /\ m = Cnt(todo, a) + 1 /\ Stp(todo', a, m) = Op("null", Current(a))
      <4>1. NewNull(b, m)
        <5>1. Current(a) \in Objs
          BY <1>19, <2>3, ClaimShape
        <5>2. Then1Is(b, m, "null", Current(a))
          BY <3>4 DEF Then1Is, Op
        <5>3. Then1Is(b, m - 1, "retire", Current(a))
          BY <2>1, <3>1, <3>4 DEF Then1Is, Op, After3
        <5> QED
          BY <1>19, <2>3, <2>1, <3>1, <3>4, <5>1, <5>2, <5>3 DEF NewNull
      <4> QED
        BY <4>1 DEF NewStep
    <3>5. CASE b = a /\ m = Cnt(todo, a) + 2 /\ Stp(todo', a, m) = Op("dropOnce", Current(a))
      <4>1. NewDropOnce(b, m)
        <5>1. Current(a) \in Objs
          BY <1>19, <2>3, ClaimShape
        <5>2. Then1Is(b, m, "dropOnce", Current(a))
          BY <3>5 DEF Then1Is, Op
        <5>3. Then1Is(b, m - 1, "null", Current(a))
          BY <2>1, <3>1, <3>5 DEF Then1Is, Op, After3
        <5> QED
          BY <1>19, <2>3, <2>1, <3>1, <3>5, <5>1, <5>2, <5>3 DEF NewDropOnce
      <4> QED
        BY <4>1 DEF NewStep
    <3> QED
      BY <3>2, <3>3, <3>4, <3>5
  <2>4. CASE ~collecting[Current(a)] /\ ~InProgress
    <3>1. After2(a, Op("null", Current(a)), Op("retire", Current(a)))
      BY <1>19, <2>4, ClaimShape
    <3>2. \/ Same(b, m)
          \/ (b = a /\ m = Cnt(todo, a) /\ Stp(todo', a, m) = Op("retire", Current(a)))
          \/ (b = a /\ m = Cnt(todo, a) + 1 /\ Stp(todo', a, m) = Op("null", Current(a)))
      BY <2>1, <3>1, After2Cases
    <3>3. CASE b = a /\ m = Cnt(todo, a) /\ Stp(todo', a, m) = Op("retire", Current(a))
      <4>1. NewRetire(b, m)
        <5>1. Current(a) \in Objs
          BY <1>19, <2>4, ClaimShape
        <5>2. Then1Is(b, m, "retire", Current(a))
          BY <3>3 DEF Then1Is, Op
        <5> QED
          BY <1>19, <2>4, <2>1, <3>1, <3>3, <5>1, <5>2 DEF NewRetire
      <4> QED
        BY <4>1 DEF NewStep
    <3>4. CASE b = a /\ m = Cnt(todo, a) + 1 /\ Stp(todo', a, m) = Op("null", Current(a))
      <4>1. NewNull(b, m)
        <5>1. Current(a) \in Objs
          BY <1>19, <2>4, ClaimShape
        <5>2. Then1Is(b, m, "null", Current(a))
          BY <3>4 DEF Then1Is, Op
        <5>3. Then1Is(b, m - 1, "retire", Current(a))
          BY <2>1, <3>1, <3>4 DEF Then1Is, Op, After2
        <5> QED
          BY <1>19, <2>4, <2>1, <3>1, <3>4, <5>1, <5>2, <5>3 DEF NewNull
      <4> QED
        BY <4>1 DEF NewStep
    <3> QED
      BY <3>2, <3>3, <3>4
  <2> QED
    BY <2>2, <2>3, <2>4
<1>20. ASSUME NEW a \in Actor, DropOnce(a) PROVE Same(b, m) \/ NewStep(b, m)
  <2>1. Cnt(todo, b) \in Nat /\ Cnt(todo, a) \in Nat \ {0} /\ a \in Actor
    BY <1>20, DropOnceShape, CntType, ActorParts DEF TypeInv, Now
  <2>2. CASE dropClaimed[Current(a)]
    <3>1. After0(a)
      BY <1>20, <2>2, DropOnceShape
    <3> QED
      BY <2>1, <3>1, After0Cases
  <2>3. CASE ~dropClaimed[Current(a)] /\ ref[Current(a)]["version"] = None /\ ref[Current(a)]["edge"] = None
    <3>1. After0(a)
      BY <1>20, <2>3, DropOnceShape
    <3> QED
      BY <2>1, <3>1, After0Cases
  <2>4. CASE ~dropClaimed[Current(a)] /\ ref[Current(a)]["version"] # None /\ ref[Current(a)]["edge"] = None
    <3>1. After1(a, Op("dec", ref[Current(a)]["version"]))
      BY <1>20, <2>4, DropOnceShape
    <3>2. \/ Same(b, m)
          \/ (b = a /\ m = Cnt(todo, a) /\ Stp(todo', a, m) = Op("dec", ref[Current(a)]["version"]))
      BY <2>1, <3>1, After1Cases
    <3>3. CASE b = a /\ m = Cnt(todo, a) /\ Stp(todo', a, m) = Op("dec", ref[Current(a)]["version"])
      <4>1. NewDec(b, m)
        <5>3. ref \in [Objs -> [Slots -> Objs \cup {None}]] /\ "version" \in Slots
          BY DEF TypeInv, Slots
        <5>4. Current(a) \in Objs
          BY <1>20, DropOnceShape
        <5>1. ref[Current(a)]["version"] \in Objs
          BY <2>4, <5>3, <5>4
        <5>2. Then1Is(b, m, "dec", ref[Current(a)]["version"])
          BY <3>3 DEF Then1Is, Op
        <5> QED
          BY <1>20, <2>4, <2>1, <3>1, <3>3, <5>1, <5>2 DEF NewDec
      <4> QED
        BY <4>1 DEF NewStep
    <3> QED
      BY <3>2, <3>3
  <2>5. CASE ~dropClaimed[Current(a)] /\ ref[Current(a)]["version"] = None /\ ref[Current(a)]["edge"] # None
    <3>1. After1(a, Op("dec", ref[Current(a)]["edge"]))
      BY <1>20, <2>5, DropOnceShape
    <3>2. \/ Same(b, m)
          \/ (b = a /\ m = Cnt(todo, a) /\ Stp(todo', a, m) = Op("dec", ref[Current(a)]["edge"]))
      BY <2>1, <3>1, After1Cases
    <3>3. CASE b = a /\ m = Cnt(todo, a) /\ Stp(todo', a, m) = Op("dec", ref[Current(a)]["edge"])
      <4>1. NewDec(b, m)
        <5>3. ref \in [Objs -> [Slots -> Objs \cup {None}]] /\ "edge" \in Slots
          BY DEF TypeInv, Slots
        <5>4. Current(a) \in Objs
          BY <1>20, DropOnceShape
        <5>1. ref[Current(a)]["edge"] \in Objs
          BY <2>5, <5>3, <5>4
        <5>2. Then1Is(b, m, "dec", ref[Current(a)]["edge"])
          BY <3>3 DEF Then1Is, Op
        <5> QED
          BY <1>20, <2>5, <2>1, <3>1, <3>3, <5>1, <5>2 DEF NewDec
      <4> QED
        BY <4>1 DEF NewStep
    <3> QED
      BY <3>2, <3>3
  <2>6. CASE ~dropClaimed[Current(a)] /\ ref[Current(a)]["version"] # None /\ ref[Current(a)]["edge"] # None
    <3>1. After2(a, Op("dec", ref[Current(a)]["version"]), Op("dec", ref[Current(a)]["edge"]))
      BY <1>20, <2>6, DropOnceShape
    <3>2. \/ Same(b, m)
          \/ (b = a /\ m = Cnt(todo, a) /\ Stp(todo', a, m) = Op("dec", ref[Current(a)]["edge"]))
          \/ (b = a /\ m = Cnt(todo, a) + 1 /\ Stp(todo', a, m) = Op("dec", ref[Current(a)]["version"]))
      BY <2>1, <3>1, After2Cases
    <3>3. CASE b = a /\ m = Cnt(todo, a) /\ Stp(todo', a, m) = Op("dec", ref[Current(a)]["edge"])
      <4>1. NewDec(b, m)
        <5>3. ref \in [Objs -> [Slots -> Objs \cup {None}]] /\ "edge" \in Slots
          BY DEF TypeInv, Slots
        <5>4. Current(a) \in Objs
          BY <1>20, DropOnceShape
        <5>1. ref[Current(a)]["edge"] \in Objs
          BY <2>6, <5>3, <5>4
        <5>2. Then1Is(b, m, "dec", ref[Current(a)]["edge"])
          BY <3>3 DEF Then1Is, Op
        <5> QED
          BY <1>20, <2>6, <2>1, <3>1, <3>3, <5>1, <5>2 DEF NewDec
      <4> QED
        BY <4>1 DEF NewStep
    <3>4. CASE b = a /\ m = Cnt(todo, a) + 1 /\ Stp(todo', a, m) = Op("dec", ref[Current(a)]["version"])
      <4>1. NewDec(b, m)
        <5>3. ref \in [Objs -> [Slots -> Objs \cup {None}]] /\ "version" \in Slots
          BY DEF TypeInv, Slots
        <5>4. Current(a) \in Objs
          BY <1>20, DropOnceShape
        <5>1. ref[Current(a)]["version"] \in Objs
          BY <2>6, <5>3, <5>4
        <5>2. Then1Is(b, m, "dec", ref[Current(a)]["version"])
          BY <3>4 DEF Then1Is, Op
        <5> QED
          BY <1>20, <2>6, <2>1, <3>1, <3>4, <5>1, <5>2 DEF NewDec
      <4> QED
        BY <4>1 DEF NewStep
    <3> QED
      BY <3>2, <3>3, <3>4
  <2> QED
    BY <2>2, <2>3, <2>4, <2>5, <2>6
<1>21. ASSUME NEW a \in Actor, Null(a) PROVE Same(b, m) \/ NewStep(b, m)
  <2>1. Cnt(todo, b) \in Nat /\ Cnt(todo, a) \in Nat \ {0} /\ a \in Actor
    BY <1>21, NullShape, CntType, ActorParts DEF TypeInv, Now
  <2>2. CASE TRUE
    <3>1. After0(a)
      BY <1>21, <2>2, NullShape
    <3> QED
      BY <2>1, <3>1, After0Cases
  <2> QED
    BY <2>2
<1>22. ASSUME NEW a \in Actor, Retire(a) PROVE Same(b, m) \/ NewStep(b, m)
  <2>1. Cnt(todo, b) \in Nat /\ Cnt(todo, a) \in Nat \ {0} /\ a \in Actor
    BY <1>22, RetireShape, CntType, ActorParts DEF TypeInv, Now
  <2>2. CASE TRUE
    <3>1. After0(a)
      BY <1>22, <2>2, RetireShape
    <3> QED
      BY <2>1, <3>1, After0Cases
  <2> QED
    BY <2>2
<1>23. ASSUME Mark PROVE Same(b, m) \/ NewStep(b, m)
  BY <1>23, SameCases DEF Mark
<1>24. ASSUME NEW o \in Objs, Trim(o) PROVE Same(b, m) \/ NewStep(b, m)
  <2>1. Cnt(todo, b) \in Nat /\ Cnt(todo, Gc) \in Nat /\ Gc \in Actor
    BY CntType, ActorParts DEF TypeInv
  <2>2. CASE TRUE
    <3>1. Begun1(Gc, Op("dec", ref[o]["version"]))
      BY <1>24, <2>2, TrimShape
    <3>2. \/ Same(b, m)
          \/ (b = Gc /\ m = 1 /\ Stp(todo', Gc, m) = Op("dec", ref[o]["version"]))
      BY <2>1, <3>1, Begun1Cases
    <3>3. CASE b = Gc /\ m = 1 /\ Stp(todo', Gc, m) = Op("dec", ref[o]["version"])
      <4>1. NewDec(b, m)
        <5>1. ref[o]["version"] \in Objs
          BY <1>24 DEF TypeInv, Trim, Slots
        <5>2. Then1Is(b, m, "dec", ref[o]["version"])
          BY <3>3 DEF Then1Is, Op
        <5> QED
          BY <1>24, <2>2, <2>1, <3>1, <3>3, <5>1, <5>2 DEF NewDec
      <4> QED
        BY <4>1 DEF NewStep
    <3> QED
      BY <3>2, <3>3
  <2> QED
    BY <2>2
<1>25. ASSUME TrimDone PROVE Same(b, m) \/ NewStep(b, m)
  BY <1>25, SameCases DEF TrimDone
<1>26. ASSUME Sweep PROVE Same(b, m) \/ NewStep(b, m)
  BY <1>26, SameCases DEF Sweep
<1>27. ASSUME Publish PROVE Same(b, m) \/ NewStep(b, m)
  BY <1>27, SameCases DEF Publish
<1>28. ASSUME Drain PROVE Same(b, m) \/ NewStep(b, m)
  BY <1>28, SameCases DEF Drain
<1>29. ASSUME DropNext PROVE Same(b, m) \/ NewStep(b, m)
  <2>1. Cnt(todo, b) \in Nat /\ Cnt(todo, Rec) \in Nat /\ Rec \in Actor
    BY CntType, ActorParts DEF TypeInv
  <2>2. CASE TRUE
    <3>1. Begun1(Rec, Op("dropOnce", Head(rest)))
      BY <1>29, <2>2, DropNextShape
    <3>2. \/ Same(b, m)
          \/ (b = Rec /\ m = 1 /\ Stp(todo', Rec, m) = Op("dropOnce", Head(rest)))
      BY <2>1, <3>1, Begun1Cases
    <3>3. CASE b = Rec /\ m = 1 /\ Stp(todo', Rec, m) = Op("dropOnce", Head(rest))
      <4>1. NewDropOnce(b, m)
        <5>1. Head(rest) \in Objs
          BY <1>29, <2>2, DropNextType
        <5>2. Then1Is(b, m, "dropOnce", Head(rest))
          BY <3>3 DEF Then1Is, Op
        <5> QED
          BY <1>29, <2>2, <2>1, <3>1, <3>3, <5>1, <5>2 DEF NewDropOnce
      <4> QED
        BY <4>1 DEF NewStep
    <3> QED
      BY <3>2, <3>3
  <2> QED
    BY <2>2
<1>30. ASSUME Hold PROVE Same(b, m) \/ NewStep(b, m)
  BY <1>30, SameCases DEF Hold
<1>31. ASSUME DestroyNext PROVE Same(b, m) \/ NewStep(b, m)
  <2>1. Cnt(todo, b) \in Nat /\ Cnt(todo, Rec) \in Nat /\ Rec \in Actor
    BY CntType, ActorParts DEF TypeInv
  <2>2. CASE Head(rest) \in Actors
    BY <2>2, <1>31, SameCases DEF DestroyNext
  <2>3. CASE Head(rest) \notin Actors /\ ref[Head(rest)]["hidden"] = None
    <3>1. Begun1(Rec, Op("unweak", Head(rest)))
      BY <1>31, <2>3, DestroyShape
    <3>2. \/ Same(b, m)
          \/ (b = Rec /\ m = 1 /\ Stp(todo', Rec, m) = Op("unweak", Head(rest)))
      BY <2>1, <3>1, Begun1Cases
    <3>3. CASE b = Rec /\ m = 1 /\ Stp(todo', Rec, m) = Op("unweak", Head(rest))
      <4>1. NewUnweak(b, m)
        <5>1. Head(rest) \in Objs
          BY <1>31, <2>3, DestroyShape
        <5>2. Then1Is(b, m, "unweak", Head(rest))
          BY <3>3 DEF Then1Is, Op
        <5> QED
          BY <1>31, <2>3, <2>1, <3>1, <3>3, <5>1, <5>2 DEF NewUnweak
      <4> QED
        BY <4>1 DEF NewStep
    <3> QED
      BY <3>2, <3>3
  <2>4. CASE Head(rest) \notin Actors /\ ref[Head(rest)]["hidden"] # None
    <3>1. Begun2(Rec, Op("dec", ref[Head(rest)]["hidden"]), Op("unweak", Head(rest)))
      BY <1>31, <2>4, DestroyShape
    <3>2. \/ Same(b, m)
          \/ (b = Rec /\ m = 1 /\ Stp(todo', Rec, m) = Op("unweak", Head(rest)))
          \/ (b = Rec /\ m = 2 /\ Stp(todo', Rec, m) = Op("dec", ref[Head(rest)]["hidden"]))
      BY <2>1, <3>1, Begun2Cases
    <3>3. CASE b = Rec /\ m = 1 /\ Stp(todo', Rec, m) = Op("unweak", Head(rest))
      <4>1. NewUnweak(b, m)
        <5>1. Head(rest) \in Objs
          BY <1>31, <2>4, DestroyShape
        <5>2. Then1Is(b, m, "unweak", Head(rest))
          BY <3>3 DEF Then1Is, Op
        <5> QED
          BY <1>31, <2>4, <2>1, <3>1, <3>3, <5>1, <5>2 DEF NewUnweak
      <4> QED
        BY <4>1 DEF NewStep
    <3>4. CASE b = Rec /\ m = 2 /\ Stp(todo', Rec, m) = Op("dec", ref[Head(rest)]["hidden"])
      <4>1. NewDec(b, m)
        <5>3. ref \in [Objs -> [Slots -> Objs \cup {None}]] /\ "hidden" \in Slots
          BY DEF TypeInv, Slots
        <5>4. Head(rest) \in Objs
          BY <1>31, DestroyShape
        <5>1. ref[Head(rest)]["hidden"] \in Objs
          BY <2>4, <5>3, <5>4
        <5>2. Then1Is(b, m, "dec", ref[Head(rest)]["hidden"])
          BY <3>4 DEF Then1Is, Op
        <5> QED
          BY <1>31, <2>4, <2>1, <3>1, <3>4, <5>1, <5>2 DEF NewDec
      <4> QED
        BY <4>1 DEF NewStep
    <3> QED
      BY <3>2, <3>3, <3>4
  <2> QED
    BY <2>2, <2>3, <2>4
<1>32. ASSUME NEW a \in Actor, Unweak(a) PROVE Same(b, m) \/ NewStep(b, m)
  <2>1. Cnt(todo, b) \in Nat /\ Cnt(todo, a) \in Nat \ {0} /\ a \in Actor
    BY <1>32, UnweakShape, CntType, ActorParts DEF TypeInv, Now
  <2>2. CASE TRUE
    <3>1. After0(a)
      BY <1>32, <2>2, UnweakShape
    <3> QED
      BY <2>1, <3>1, After0Cases
  <2> QED
    BY <2>2
<1>33. ASSUME ReleaseHolds PROVE Same(b, m) \/ NewStep(b, m)
  BY <1>33, SameCases DEF ReleaseHolds
<1>34. ASSUME NEW o \in Actors, FinalizeActor(o) PROVE Same(b, m) \/ NewStep(b, m)
  BY <1>34, SameCases DEF FinalizeActor
<1>35. ASSUME UNCHANGED vars PROVE Same(b, m) \/ NewStep(b, m)
  BY <1>35, SameCases DEF vars
<1> QED
  BY <1>0, <1>1, <1>2, <1>3, <1>4, <1>5, <1>6, <1>7, <1>8, <1>9, <1>10, <1>11, <1>12, <1>13,
      <1>14, <1>15, <1>16, <1>17, <1>18, <1>19, <1>20, <1>21, <1>22, <1>23, <1>24, <1>25, <1>26,
      <1>27, <1>28, <1>29, <1>30, <1>31, <1>32, <1>33, <1>34, <1>35, StepKinds

(* b takes the step it is at. *)
Takes(b) ==
  \/ DecRef(b) \/ Claim(b) \/ DropOnce(b) \/ Null(b) \/ Retire(b) \/ Unweak(b)
  \/ /\ b \in Threads
     /\ \/ Put(b) \/ TryIncRef(b) \/ Recheck(b) \/ Lookup(b) \/ PublishString(b) \/ Own(b)
        \/ \E s \in Strings : AllocString(b, s)

(* Step m of b is there before and after. *)
Stays(b, m) == m \in 1 .. Cnt(todo', b) /\ Stp(todo', b, m) = Stp(todo, b, m)

(* Every step stays, but the one taken. *)
LEMMA After0Kept ==
  ASSUME NEW a \in Actor, NEW b \in Actor, Cnt(todo, a) \in Nat, Cnt(todo, b) \in Nat, After0(a),
         NEW m \in 1 .. Cnt(todo, b)
  PROVE  Stays(b, m) \/ (b = a /\ m = Cnt(todo, a))
BY DEF After0, Keeps, Stays

(* Every step stays, but the one taken. *)
LEMMA After1Kept ==
  ASSUME NEW a \in Actor, NEW b \in Actor, NEW x, Cnt(todo, a) \in Nat, Cnt(todo, b) \in Nat,
         After1(a, x), NEW m \in 1 .. Cnt(todo, b)
  PROVE  Stays(b, m) \/ (b = a /\ m = Cnt(todo, a))
BY DEF After1, Keeps, Stays

(* Every step stays, but the one taken. *)
LEMMA After2Kept ==
  ASSUME NEW a \in Actor, NEW b \in Actor, NEW x, NEW y, Cnt(todo, a) \in Nat,
         Cnt(todo, b) \in Nat, After2(a, x, y), NEW m \in 1 .. Cnt(todo, b)
  PROVE  Stays(b, m) \/ (b = a /\ m = Cnt(todo, a))
BY DEF After2, Keeps, Stays

(* Every step stays, but the one taken. *)
LEMMA After3Kept ==
  ASSUME NEW a \in Actor, NEW b \in Actor, NEW x, NEW y, NEW z, Cnt(todo, a) \in Nat,
         Cnt(todo, b) \in Nat, After3(a, x, y, z), NEW m \in 1 .. Cnt(todo, b)
  PROVE  Stays(b, m) \/ (b = a /\ m = Cnt(todo, a))
BY DEF After3, Keeps, Stays

(* Every step stays. *)
LEMMA Begun1Kept ==
  ASSUME NEW a \in Actor, NEW b \in Actor, NEW x, Cnt(todo, a) \in Nat, Cnt(todo, b) \in Nat,
         Begun1(a, x), NEW m \in 1 .. Cnt(todo, b)
  PROVE  Stays(b, m)
BY DEF Begun1, Keeps, Stays

(* Every step stays. *)
LEMMA Begun2Kept ==
  ASSUME NEW a \in Actor, NEW b \in Actor, NEW x, NEW y, Cnt(todo, a) \in Nat,
         Cnt(todo, b) \in Nat, Begun2(a, x, y), NEW m \in 1 .. Cnt(todo, b)
  PROVE  Stays(b, m)
BY DEF Begun2, Keeps, Stays

(* A step stays until its actor takes it. *)
LEMMA Persist ==
  ASSUME TypeInv, NameInv, NEW b \in Actor, NEW m \in 1 .. Cnt(todo, b), [Next]_vars
  PROVE  Stays(b, m) \/ (m = Cnt(todo, b) /\ Takes(b))
<1>0. world.threads \subseteq Threads
  BY WorldThreads
<1>1. ASSUME NEW t \in Threads, NEW o \in Objs, New(t, o)
      PROVE  Stays(b, m) \/ (m = Cnt(todo, b) /\ Takes(b))
  BY <1>1 DEF New, Stays, Cnt, Stp
<1>2. ASSUME NEW t \in Threads, NEW u \in Threads, NEW o \in Objs, Share(t, u, o)
      PROVE  Stays(b, m) \/ (m = Cnt(todo, b) /\ Takes(b))
  BY <1>2 DEF Share, Stays, Cnt, Stp
<1>3. ASSUME NEW t \in Threads, NEW o \in Objs, Drop(t, o)
      PROVE  Stays(b, m) \/ (m = Cnt(todo, b) /\ Takes(b))
  <2>1. Cnt(todo, b) \in Nat /\ Cnt(todo, t) \in Nat /\ t \in Actor
    BY CntType, ActorParts DEF TypeInv
  <2>2. CASE TRUE
    <3>1. Begun1(t, Op("dec", o))
      BY <1>3, <2>2, DropShape
    <3> QED
      BY <1>3, <2>1, <3>1, Begun1Kept
  <2> QED
    BY <2>2
<1>4. ASSUME NEW t \in Threads, NEW o \in Objs, NEW k \in Slots, NEW p \in Objs, Store(t, o, k, p)
      PROVE  Stays(b, m) \/ (m = Cnt(todo, b) /\ Takes(b))
  <2>1. Cnt(todo, b) \in Nat /\ Cnt(todo, t) \in Nat /\ t \in Actor
    BY CntType, ActorParts DEF TypeInv
  <2>2. CASE ref[o][k] = None
    <3>1. Begun1(t, PutOp(p, o, k))
      BY <1>4, <2>2, StoreShape
    <3> QED
      BY <1>4, <2>1, <3>1, Begun1Kept
  <2>3. CASE ref[o][k] # None
    <3>1. Begun2(t, Op("dec", ref[o][k]), PutOp(p, o, k))
      BY <1>4, <2>3, StoreShape
    <3> QED
      BY <1>4, <2>1, <3>1, Begun2Kept
  <2> QED
    BY <2>2, <2>3
<1>5. ASSUME NEW t \in Threads, Put(t) PROVE Stays(b, m) \/ (m = Cnt(todo, b) /\ Takes(b))
  <2>1. Cnt(todo, b) \in Nat /\ Cnt(todo, t) \in Nat /\ t \in Actor
    BY CntType, ActorParts DEF TypeInv
  <2>2. CASE TRUE
    <3>1. After0(t)
      BY <1>5, <2>2, PutShape
    <3> QED
      BY <1>5, <2>1, <3>1, After0Kept DEF Takes
  <2> QED
    BY <2>2
<1>6. ASSUME NEW t \in Threads, NEW o \in Objs, NEW k \in Slots, Load(t, o, k)
      PROVE  Stays(b, m) \/ (m = Cnt(todo, b) /\ Takes(b))
  BY <1>6 DEF Load, Stays, Cnt, Stp
<1>7. ASSUME NEW t \in Threads, NEW o \in Objs, NEW v \in Versions, SaveVersion(t, o, v)
      PROVE  Stays(b, m) \/ (m = Cnt(todo, b) /\ Takes(b))
  BY <1>7 DEF SaveVersion, Stays, Cnt, Stp
<1>8. ASSUME NEW t \in Threads, NEW o \in Objs, WeakRef(t, o)
      PROVE  Stays(b, m) \/ (m = Cnt(todo, b) /\ Takes(b))
  BY <1>8 DEF WeakRef, Stays, Cnt, Stp
<1>9. ASSUME NEW t \in Threads, NEW o \in Objs, DropWeak(t, o)
      PROVE  Stays(b, m) \/ (m = Cnt(todo, b) /\ Takes(b))
  BY <1>9 DEF DropWeak, Stays, Cnt, Stp
<1>10. ASSUME NEW t \in Threads, NEW o \in Objs, StrongRef(t, o)
      PROVE  Stays(b, m) \/ (m = Cnt(todo, b) /\ Takes(b))
  <2>1. Cnt(todo, b) \in Nat /\ Cnt(todo, t) \in Nat /\ t \in Actor
    BY CntType, ActorParts DEF TypeInv
  <2>2. CASE TRUE
    <3>1. Begun1(t, Op("try", o))
      BY <1>10, <2>2, StrongRefShape
    <3> QED
      BY <1>10, <2>1, <3>1, Begun1Kept
  <2> QED
    BY <2>2
<1>11. ASSUME NEW t \in Threads, TryIncRef(t) PROVE Stays(b, m) \/ (m = Cnt(todo, b) /\ Takes(b))
  <2>1. Cnt(todo, b) \in Nat /\ Cnt(todo, t) \in Nat /\ t \in Actor
    BY CntType, ActorParts DEF TypeInv
  <2>2. CASE strong[Current(t)] > 0
    <3>1. After1(t, Op("recheck", Current(t)))
      BY <1>11, <2>2, TryIncRefShape
    <3> QED
      BY <1>11, <2>1, <3>1, After1Kept DEF Takes
  <2>3. CASE ~(strong[Current(t)] > 0)
    <3>1. After0(t)
      BY <1>11, <2>3, TryIncRefShape
    <3> QED
      BY <1>11, <2>1, <3>1, After0Kept DEF Takes
  <2> QED
    BY <2>2, <2>3
<1>12. ASSUME NEW t \in Threads, Recheck(t) PROVE Stays(b, m) \/ (m = Cnt(todo, b) /\ Takes(b))
  <2>1. Cnt(todo, b) \in Nat /\ Cnt(todo, t) \in Nat /\ t \in Actor
    BY CntType, ActorParts DEF TypeInv
  <2>2. CASE linked[Current(t)]
    <3>1. After0(t)
      BY <1>12, <2>2, RecheckShape
    <3> QED
      BY <1>12, <2>1, <3>1, After0Kept DEF Takes
  <2>3. CASE ~linked[Current(t)]
    <3>1. After1(t, Op("dec", Current(t)))
      BY <1>12, <2>3, RecheckShape
    <3> QED
      BY <1>12, <2>1, <3>1, After1Kept DEF Takes
  <2> QED
    BY <2>2, <2>3
<1>13. ASSUME NEW t \in Threads, Intern(t) PROVE Stays(b, m) \/ (m = Cnt(todo, b) /\ Takes(b))
  <2>1. Cnt(todo, b) \in Nat /\ Cnt(todo, t) \in Nat /\ t \in Actor
    BY CntType, ActorParts DEF TypeInv
  <2>2. CASE TRUE
    <3>1. Begun1(t, Op("lookup", None))
      BY <1>13, <2>2, InternShape
    <3> QED
      BY <1>13, <2>1, <3>1, Begun1Kept
  <2> QED
    BY <2>2
<1>14. ASSUME NEW t \in Threads, Lookup(t) PROVE Stays(b, m) \/ (m = Cnt(todo, b) /\ Takes(b))
  <2>1. Cnt(todo, b) \in Nat /\ Cnt(todo, t) \in Nat /\ t \in Actor
    BY CntType, ActorParts DEF TypeInv
  <2>2. CASE Found
    <3>1. After2(t, Op("own", table), Op("dec", table))
      BY <1>14, <2>2, LookupShape DEF Found
    <3> QED
      BY <1>14, <2>1, <3>1, After2Kept DEF Takes
  <2>3. CASE ~Found
    <3>1. After1(t, Op("alloc", None))
      BY <1>14, <2>3, LookupShape DEF Found
    <3> QED
      BY <1>14, <2>1, <3>1, After1Kept DEF Takes
  <2> QED
    BY <2>2, <2>3
<1>15. ASSUME NEW t \in Threads, NEW s \in Strings, AllocString(t, s)
      PROVE  Stays(b, m) \/ (m = Cnt(todo, b) /\ Takes(b))
  <2>1. Cnt(todo, b) \in Nat /\ Cnt(todo, t) \in Nat /\ t \in Actor
    BY CntType, ActorParts DEF TypeInv
  <2>2. CASE TRUE
    <3>1. After1(t, Op("publish", s))
      BY <1>15, <2>2, AllocStringShape
    <3> QED
      BY <1>15, <2>1, <3>1, After1Kept DEF Takes
  <2> QED
    BY <2>2
<1>16. ASSUME NEW t \in Threads, PublishString(t)
      PROVE  Stays(b, m) \/ (m = Cnt(todo, b) /\ Takes(b))
  <2>1. Cnt(todo, b) \in Nat /\ Cnt(todo, t) \in Nat /\ t \in Actor
    BY CntType, ActorParts DEF TypeInv
  <2>2. CASE Found
    <3>1. After3(t, Op("dec", Current(t)), Op("own", table), Op("dec", table))
      BY <1>16, <2>2, PublishStringShape DEF Found
    <3> QED
      BY <1>16, <2>1, <3>1, After3Kept DEF Takes
  <2>3. CASE ~Found
    <3>1. After1(t, Op("own", Current(t)))
      BY <1>16, <2>3, PublishStringShape DEF Found
    <3> QED
      BY <1>16, <2>1, <3>1, After1Kept DEF Takes
  <2> QED
    BY <2>2, <2>3
<1>17. ASSUME NEW t \in Threads, Own(t) PROVE Stays(b, m) \/ (m = Cnt(todo, b) /\ Takes(b))
  <2>1. Cnt(todo, b) \in Nat /\ Cnt(todo, t) \in Nat /\ t \in Actor
    BY CntType, ActorParts DEF TypeInv
  <2>2. CASE TRUE
    <3>1. After0(t)
      BY <1>17, <2>2, OwnShape
    <3> QED
      BY <1>17, <2>1, <3>1, After0Kept DEF Takes
  <2> QED
    BY <2>2
<1>18. ASSUME NEW a \in Actor, DecRef(a) PROVE Stays(b, m) \/ (m = Cnt(todo, b) /\ Takes(b))
  <2>1. Cnt(todo, b) \in Nat /\ Cnt(todo, a) \in Nat /\ a \in Actor
    BY CntType, ActorParts DEF TypeInv
  <2>2. CASE strong[Current(a)] <= 1
    <3>1. After1(a, Op("claim", Current(a)))
      BY <1>18, <2>2, DecRefShape
    <3> QED
      BY <1>18, <2>1, <3>1, After1Kept DEF Takes
  <2>3. CASE ~(strong[Current(a)] <= 1)
    <3>1. After0(a)
      BY <1>18, <2>3, DecRefShape
    <3> QED
      BY <1>18, <2>1, <3>1, After0Kept DEF Takes
  <2> QED
    BY <2>2, <2>3
<1>19. ASSUME NEW a \in Actor, Claim(a) PROVE Stays(b, m) \/ (m = Cnt(todo, b) /\ Takes(b))
  <2>1. Cnt(todo, b) \in Nat /\ Cnt(todo, a) \in Nat /\ a \in Actor
    BY CntType, ActorParts DEF TypeInv
  <2>2. CASE collecting[Current(a)]
    <3>1. After0(a)
      BY <1>19, <2>2, ClaimShape
    <3> QED
      BY <1>19, <2>1, <3>1, After0Kept DEF Takes
  <2>3. CASE ~collecting[Current(a)] /\ InProgress
    <3>1. After3(a, Op("dropOnce", Current(a)), Op("null", Current(a)), Op("retire", Current(a)))
      BY <1>19, <2>3, ClaimShape
    <3> QED
      BY <1>19, <2>1, <3>1, After3Kept DEF Takes
  <2>4. CASE ~collecting[Current(a)] /\ ~InProgress
    <3>1. After2(a, Op("null", Current(a)), Op("retire", Current(a)))
      BY <1>19, <2>4, ClaimShape
    <3> QED
      BY <1>19, <2>1, <3>1, After2Kept DEF Takes
  <2> QED
    BY <2>2, <2>3, <2>4
<1>20. ASSUME NEW a \in Actor, DropOnce(a) PROVE Stays(b, m) \/ (m = Cnt(todo, b) /\ Takes(b))
  <2>1. Cnt(todo, b) \in Nat /\ Cnt(todo, a) \in Nat /\ a \in Actor
    BY CntType, ActorParts DEF TypeInv
  <2>2. CASE dropClaimed[Current(a)]
    <3>1. After0(a)
      BY <1>20, <2>2, DropOnceShape
    <3> QED
      BY <1>20, <2>1, <3>1, After0Kept DEF Takes
  <2>3. CASE ~dropClaimed[Current(a)] /\ ref[Current(a)]["version"] = None /\ ref[Current(a)]["edge"] = None
    <3>1. After0(a)
      BY <1>20, <2>3, DropOnceShape
    <3> QED
      BY <1>20, <2>1, <3>1, After0Kept DEF Takes
  <2>4. CASE ~dropClaimed[Current(a)] /\ ref[Current(a)]["version"] # None /\ ref[Current(a)]["edge"] = None
    <3>1. After1(a, Op("dec", ref[Current(a)]["version"]))
      BY <1>20, <2>4, DropOnceShape
    <3> QED
      BY <1>20, <2>1, <3>1, After1Kept DEF Takes
  <2>5. CASE ~dropClaimed[Current(a)] /\ ref[Current(a)]["version"] = None /\ ref[Current(a)]["edge"] # None
    <3>1. After1(a, Op("dec", ref[Current(a)]["edge"]))
      BY <1>20, <2>5, DropOnceShape
    <3> QED
      BY <1>20, <2>1, <3>1, After1Kept DEF Takes
  <2>6. CASE ~dropClaimed[Current(a)] /\ ref[Current(a)]["version"] # None /\ ref[Current(a)]["edge"] # None
    <3>1. After2(a, Op("dec", ref[Current(a)]["version"]), Op("dec", ref[Current(a)]["edge"]))
      BY <1>20, <2>6, DropOnceShape
    <3> QED
      BY <1>20, <2>1, <3>1, After2Kept DEF Takes
  <2> QED
    BY <2>2, <2>3, <2>4, <2>5, <2>6
<1>21. ASSUME NEW a \in Actor, Null(a) PROVE Stays(b, m) \/ (m = Cnt(todo, b) /\ Takes(b))
  <2>1. Cnt(todo, b) \in Nat /\ Cnt(todo, a) \in Nat /\ a \in Actor
    BY CntType, ActorParts DEF TypeInv
  <2>2. CASE TRUE
    <3>1. After0(a)
      BY <1>21, <2>2, NullShape
    <3> QED
      BY <1>21, <2>1, <3>1, After0Kept DEF Takes
  <2> QED
    BY <2>2
<1>22. ASSUME NEW a \in Actor, Retire(a) PROVE Stays(b, m) \/ (m = Cnt(todo, b) /\ Takes(b))
  <2>1. Cnt(todo, b) \in Nat /\ Cnt(todo, a) \in Nat /\ a \in Actor
    BY CntType, ActorParts DEF TypeInv
  <2>2. CASE TRUE
    <3>1. After0(a)
      BY <1>22, <2>2, RetireShape
    <3> QED
      BY <1>22, <2>1, <3>1, After0Kept DEF Takes
  <2> QED
    BY <2>2
<1>23. ASSUME Mark PROVE Stays(b, m) \/ (m = Cnt(todo, b) /\ Takes(b))
  BY <1>23 DEF Mark, Stays, Cnt, Stp
<1>24. ASSUME NEW o \in Objs, Trim(o) PROVE Stays(b, m) \/ (m = Cnt(todo, b) /\ Takes(b))
  <2>1. Cnt(todo, b) \in Nat /\ Cnt(todo, Gc) \in Nat /\ Gc \in Actor
    BY CntType, ActorParts DEF TypeInv
  <2>2. CASE TRUE
    <3>1. Begun1(Gc, Op("dec", ref[o]["version"]))
      BY <1>24, <2>2, TrimShape
    <3> QED
      BY <1>24, <2>1, <3>1, Begun1Kept
  <2> QED
    BY <2>2
<1>25. ASSUME TrimDone PROVE Stays(b, m) \/ (m = Cnt(todo, b) /\ Takes(b))
  BY <1>25 DEF TrimDone, Stays, Cnt, Stp
<1>26. ASSUME Sweep PROVE Stays(b, m) \/ (m = Cnt(todo, b) /\ Takes(b))
  BY <1>26 DEF Sweep, Stays, Cnt, Stp
<1>27. ASSUME Publish PROVE Stays(b, m) \/ (m = Cnt(todo, b) /\ Takes(b))
  BY <1>27 DEF Publish, Stays, Cnt, Stp
<1>28. ASSUME Drain PROVE Stays(b, m) \/ (m = Cnt(todo, b) /\ Takes(b))
  BY <1>28 DEF Drain, Stays, Cnt, Stp
<1>29. ASSUME DropNext PROVE Stays(b, m) \/ (m = Cnt(todo, b) /\ Takes(b))
  <2>1. Cnt(todo, b) \in Nat /\ Cnt(todo, Rec) \in Nat /\ Rec \in Actor
    BY CntType, ActorParts DEF TypeInv
  <2>2. CASE TRUE
    <3>1. Begun1(Rec, Op("dropOnce", Head(rest)))
      BY <1>29, <2>2, DropNextShape
    <3> QED
      BY <1>29, <2>1, <3>1, Begun1Kept
  <2> QED
    BY <2>2
<1>30. ASSUME Hold PROVE Stays(b, m) \/ (m = Cnt(todo, b) /\ Takes(b))
  BY <1>30 DEF Hold, Stays, Cnt, Stp
<1>31. ASSUME DestroyNext PROVE Stays(b, m) \/ (m = Cnt(todo, b) /\ Takes(b))
  <2>1. Cnt(todo, b) \in Nat /\ Cnt(todo, Rec) \in Nat /\ Rec \in Actor
    BY CntType, ActorParts DEF TypeInv
  <2>2. CASE Head(rest) \in Actors
    BY <2>2, <1>31 DEF DestroyNext, Stays, Cnt, Stp
  <2>3. CASE Head(rest) \notin Actors /\ ref[Head(rest)]["hidden"] = None
    <3>1. Begun1(Rec, Op("unweak", Head(rest)))
      BY <1>31, <2>3, DestroyShape
    <3> QED
      BY <1>31, <2>1, <3>1, Begun1Kept
  <2>4. CASE Head(rest) \notin Actors /\ ref[Head(rest)]["hidden"] # None
    <3>1. Begun2(Rec, Op("dec", ref[Head(rest)]["hidden"]), Op("unweak", Head(rest)))
      BY <1>31, <2>4, DestroyShape
    <3> QED
      BY <1>31, <2>1, <3>1, Begun2Kept
  <2> QED
    BY <2>2, <2>3, <2>4
<1>32. ASSUME NEW a \in Actor, Unweak(a) PROVE Stays(b, m) \/ (m = Cnt(todo, b) /\ Takes(b))
  <2>1. Cnt(todo, b) \in Nat /\ Cnt(todo, a) \in Nat /\ a \in Actor
    BY CntType, ActorParts DEF TypeInv
  <2>2. CASE TRUE
    <3>1. After0(a)
      BY <1>32, <2>2, UnweakShape
    <3> QED
      BY <1>32, <2>1, <3>1, After0Kept DEF Takes
  <2> QED
    BY <2>2
<1>33. ASSUME ReleaseHolds PROVE Stays(b, m) \/ (m = Cnt(todo, b) /\ Takes(b))
  BY <1>33 DEF ReleaseHolds, Stays, Cnt, Stp
<1>34. ASSUME NEW o \in Actors, FinalizeActor(o)
      PROVE  Stays(b, m) \/ (m = Cnt(todo, b) /\ Takes(b))
  BY <1>34 DEF FinalizeActor, Stays, Cnt, Stp
<1>35. ASSUME UNCHANGED vars PROVE Stays(b, m) \/ (m = Cnt(todo, b) /\ Takes(b))
  BY <1>35 DEF vars, Stays, Cnt, Stp
<1> QED
  BY <1>0, <1>1, <1>2, <1>3, <1>4, <1>5, <1>6, <1>7, <1>8, <1>9, <1>10, <1>11, <1>12, <1>13,
      <1>14, <1>15, <1>16, <1>17, <1>18, <1>19, <1>20, <1>21, <1>22, <1>23, <1>24, <1>25, <1>26,
      <1>27, <1>28, <1>29, <1>30, <1>31, <1>32, <1>33, <1>34, <1>35, StepKinds

-----------------------------------------------------------------------------
(* What an action may do to one piece of the state. *)

(* Lists of objects stay lists of objects. *)
LEMMA ListParts ==
  ASSUME NEW s \in Seq(Objs)
  PROVE  /\ s # <<>> => Head(s) \in Objs /\ Tail(s) \in Seq(Objs)
         /\ \A o \in Objs : Append(s, o) \in Seq(Objs)
         /\ \A t \in Seq(Objs) : s \o t \in Seq(Objs)
OBVIOUS

(* The lists of steps keep their type. *)
LEMMA TypeTodo ==
  ASSUME TypeInv, NameInv, [Next]_vars
  PROVE  todo' \in [Actor -> Seq(Steps)]
<1>0. world.threads \subseteq Threads
  BY WorldThreads
<1>1. ASSUME NEW t \in Threads, NEW o \in Objs, New(t, o) PROVE todo' \in [Actor -> Seq(Steps)]
  BY <1>1, ListParts, NoneParts DEF TypeInv, New, counts, claims, values, collector, reclaimer,
      strings, Build, Ready, Bump
<1>2. ASSUME NEW t \in Threads, NEW u \in Threads, NEW o \in Objs, Share(t, u, o)
      PROVE  todo' \in [Actor -> Seq(Steps)]
  BY <1>2, ListParts, NoneParts DEF TypeInv, Share, counts, claims, values, collector,
      reclaimer, strings, Ready, Bump
<1>3. ASSUME NEW t \in Threads, NEW o \in Objs, Drop(t, o) PROVE todo' \in [Actor -> Seq(Steps)]
  BY <1>3, DropShape, ListParts, NoneParts DEF TypeInv, Drop, counts, claims, values, collector,
      reclaimer, strings, Ready
<1>4. ASSUME NEW t \in Threads, NEW o \in Objs, NEW k \in Slots, NEW p \in Objs, Store(t, o, k, p)
      PROVE  todo' \in [Actor -> Seq(Steps)]
  BY <1>4, StoreShape, ListParts, NoneParts DEF TypeInv, Store, counts, claims, values,
      collector, reclaimer, strings, Ready
<1>5. ASSUME NEW t \in Threads, Put(t) PROVE todo' \in [Actor -> Seq(Steps)]
  BY <1>5, PutShape, ListParts, NoneParts DEF TypeInv, Put, counts, claims, values, collector,
      reclaimer, strings, Bump
<1>6. ASSUME NEW t \in Threads, NEW o \in Objs, NEW k \in Slots, Load(t, o, k)
      PROVE  todo' \in [Actor -> Seq(Steps)]
  BY <1>6, ListParts, NoneParts DEF TypeInv, Load, counts, claims, values, collector, reclaimer,
      strings, Ready, Bump
<1>7. ASSUME NEW t \in Threads, NEW o \in Objs, NEW v \in Versions, SaveVersion(t, o, v)
      PROVE  todo' \in [Actor -> Seq(Steps)]
  BY <1>7, ListParts, NoneParts DEF TypeInv, SaveVersion, counts, claims, values, collector,
      reclaimer, strings, Build, Ready
<1>8. ASSUME NEW t \in Threads, NEW o \in Objs, WeakRef(t, o)
      PROVE  todo' \in [Actor -> Seq(Steps)]
  BY <1>8, ListParts, NoneParts DEF TypeInv, WeakRef, counts, claims, values, collector,
      reclaimer, strings, Ready, Bump
<1>9. ASSUME NEW t \in Threads, NEW o \in Objs, DropWeak(t, o)
      PROVE  todo' \in [Actor -> Seq(Steps)]
  BY <1>9, ListParts, NoneParts DEF TypeInv, DropWeak, counts, claims, values, collector,
      reclaimer, strings, FreedIfLast, Ready, Bump
<1>10. ASSUME NEW t \in Threads, NEW o \in Objs, StrongRef(t, o)
      PROVE  todo' \in [Actor -> Seq(Steps)]
  BY <1>10, StrongRefShape, ListParts, NoneParts DEF TypeInv, StrongRef, counts, claims, values,
      collector, reclaimer, strings, Ready
<1>11. ASSUME NEW t \in Threads, TryIncRef(t) PROVE todo' \in [Actor -> Seq(Steps)]
  BY <1>11, TryIncRefShape, ListParts, NoneParts DEF TypeInv, TryIncRef, counts, claims, values,
      collector, reclaimer, strings, Bump
<1>12. ASSUME NEW t \in Threads, Recheck(t) PROVE todo' \in [Actor -> Seq(Steps)]
  BY <1>12, RecheckShape, ListParts, NoneParts DEF TypeInv, Recheck, counts, claims, values,
      collector, reclaimer, strings
<1>13. ASSUME NEW t \in Threads, Intern(t) PROVE todo' \in [Actor -> Seq(Steps)]
  BY <1>13, InternShape, ListParts, NoneParts DEF TypeInv, Intern, counts, claims, values,
      collector, reclaimer, strings, Ready
<1>14. ASSUME NEW t \in Threads, Lookup(t) PROVE todo' \in [Actor -> Seq(Steps)]
  BY <1>14, LookupShape, ListParts, NoneParts DEF TypeInv, Lookup, counts, claims, values,
      collector, reclaimer, strings, Bump
<1>15. ASSUME NEW t \in Threads, NEW s \in Strings, AllocString(t, s)
      PROVE  todo' \in [Actor -> Seq(Steps)]
  BY <1>15, AllocStringShape, ListParts, NoneParts DEF TypeInv, AllocString, counts, claims,
      values, collector, reclaimer, strings, Build
<1>16. ASSUME NEW t \in Threads, PublishString(t) PROVE todo' \in [Actor -> Seq(Steps)]
  BY <1>16, PublishStringShape, ListParts, NoneParts DEF TypeInv, PublishString, counts, claims,
      values, collector, reclaimer, strings
<1>17. ASSUME NEW t \in Threads, Own(t) PROVE todo' \in [Actor -> Seq(Steps)]
  BY <1>17, OwnShape, ListParts, NoneParts DEF TypeInv, Own, counts, claims, values, collector,
      reclaimer, strings, Bump
<1>18. ASSUME NEW a \in Actor, DecRef(a) PROVE todo' \in [Actor -> Seq(Steps)]
  BY <1>18, DecRefShape, ListParts, NoneParts DEF TypeInv, DecRef, counts, claims, values,
      collector, reclaimer, strings, Bump
<1>19. ASSUME NEW a \in Actor, Claim(a) PROVE todo' \in [Actor -> Seq(Steps)]
  BY <1>19, ClaimShape, ListParts, NoneParts DEF TypeInv, Claim, counts, claims, values,
      collector, reclaimer, strings
<1>20. ASSUME NEW a \in Actor, DropOnce(a) PROVE todo' \in [Actor -> Seq(Steps)]
  BY <1>20, DropOnceShape, ListParts, NoneParts DEF TypeInv, DropOnce, counts, claims, values,
      collector, reclaimer, strings
<1>21. ASSUME NEW a \in Actor, Null(a) PROVE todo' \in [Actor -> Seq(Steps)]
  BY <1>21, NullShape, ListParts, NoneParts DEF TypeInv, Null, counts, claims, values,
      collector, reclaimer, strings
<1>22. ASSUME NEW a \in Actor, Retire(a) PROVE todo' \in [Actor -> Seq(Steps)]
  BY <1>22, RetireShape, ListParts, NoneParts DEF TypeInv, Retire, counts, claims, values,
      collector, reclaimer, strings
<1>23. ASSUME Mark PROVE todo' \in [Actor -> Seq(Steps)]
  BY <1>23, ListParts, NoneParts DEF TypeInv, Mark, counts, claims, values, collector,
      reclaimer, strings
<1>24. ASSUME NEW o \in Objs, Trim(o) PROVE todo' \in [Actor -> Seq(Steps)]
  BY <1>24, TrimShape, ListParts, NoneParts DEF TypeInv, Trim, counts, claims, values,
      collector, reclaimer, strings
<1>25. ASSUME TrimDone PROVE todo' \in [Actor -> Seq(Steps)]
  BY <1>25, ListParts, NoneParts DEF TypeInv, TrimDone, counts, claims, values, collector,
      reclaimer, strings
<1>26. ASSUME Sweep PROVE todo' \in [Actor -> Seq(Steps)]
  BY <1>26, ListParts, NoneParts DEF TypeInv, Sweep, counts, claims, values, collector,
      reclaimer, strings
<1>27. ASSUME Publish PROVE todo' \in [Actor -> Seq(Steps)]
  BY <1>27, ListParts, NoneParts DEF TypeInv, Publish, counts, claims, values, collector,
      reclaimer, strings
<1>28. ASSUME Drain PROVE todo' \in [Actor -> Seq(Steps)]
  BY <1>28, ListParts, NoneParts DEF TypeInv, Drain, counts, claims, values, collector,
      reclaimer, strings
<1>29. ASSUME DropNext PROVE todo' \in [Actor -> Seq(Steps)]
  BY <1>29, DropNextShape, ListParts, NoneParts DEF TypeInv, DropNext, counts, claims, values,
      collector, reclaimer, strings
<1>30. ASSUME Hold PROVE todo' \in [Actor -> Seq(Steps)]
  BY <1>30, ListParts, NoneParts DEF TypeInv, Hold, counts, claims, values, collector,
      reclaimer, strings
<1>31. ASSUME DestroyNext PROVE todo' \in [Actor -> Seq(Steps)]
  BY <1>31, DestroyShape, ListParts, NoneParts DEF TypeInv, DestroyNext, counts, claims, values,
      collector, reclaimer, strings, Destroy, SelfErase
<1>32. ASSUME NEW a \in Actor, Unweak(a) PROVE todo' \in [Actor -> Seq(Steps)]
  BY <1>32, UnweakShape, ListParts, NoneParts DEF TypeInv, Unweak, counts, claims, values,
      collector, reclaimer, strings, FreedIfLast, Bump
<1>33. ASSUME ReleaseHolds PROVE todo' \in [Actor -> Seq(Steps)]
  BY <1>33, ListParts, NoneParts DEF TypeInv, ReleaseHolds, counts, claims, values, collector,
      reclaimer, strings
<1>34. ASSUME NEW o \in Actors, FinalizeActor(o) PROVE todo' \in [Actor -> Seq(Steps)]
  BY <1>34, ListParts, NoneParts DEF TypeInv, FinalizeActor, counts, claims, values, collector,
      reclaimer, strings, Bump
<1>35. ASSUME UNCHANGED vars PROVE todo' \in [Actor -> Seq(Steps)]
  BY <1>35, ListParts, NoneParts DEF TypeInv, vars, counts, claims, values, collector,
      reclaimer, strings
<1> QED
  BY <1>0, <1>1, <1>2, <1>3, <1>4, <1>5, <1>6, <1>7, <1>8, <1>9, <1>10, <1>11, <1>12, <1>13,
      <1>14, <1>15, <1>16, <1>17, <1>18, <1>19, <1>20, <1>21, <1>22, <1>23, <1>24, <1>25, <1>26,
      <1>27, <1>28, <1>29, <1>30, <1>31, <1>32, <1>33, <1>34, <1>35, StepKinds

(* The blocks of a program are objects. *)
LEMMA WorldObjs ==
  ASSUME TypeInv
  PROVE  world.objs \subseteq Objs
BY LifecycleAssumption DEF TypeInv

(* What the sweep lists: every object of the set, once. *)
LEMMA SetSeq ==
  ASSUME NEW S \in SUBSET Objs, NEW s \in SetToSeqs(S)
  PROVE  /\ s \in Seq(Objs) /\ ToSet(s) = S
         /\ \A i, j \in DOMAIN s : s[i] = s[j] => i = j
<1>1. IsFiniteSet(S) /\ Cardinality(S) \in Nat
  BY LifecycleAssumption, FS_Subset, FS_CardinalityType
<1>2. s \in [1 .. Cardinality(S) -> S] /\ \A i, j \in 1 .. Cardinality(S) : i # j => s[i] # s[j]
  BY DEF SetToSeqs
<1>3. s \in Injection(1 .. Cardinality(S), S)
  BY <1>2 DEF Injection, IsInjective
<1>4. Cardinality(1 .. Cardinality(S)) = Cardinality(S)
  BY <1>1, FS_Interval
<1>5. s \in Surjection(1 .. Cardinality(S), S)
  BY <1>1, <1>3, <1>4, FS_Injection
<1>6. ToSet(s) = S
  BY <1>2, <1>5 DEF Surjection, ToSet
<1>7. s \in Seq(Objs)
  BY <1>1, <1>2
<1> QED
  BY <1>2, <1>6, <1>7

(* What a store puts, and where. *)
LEMMA PutNow ==
  ASSUME TypeInv, NameInv, NEW t \in Threads, Doing(t, "put")
  PROVE  /\ Head(todo[t]).obj \in Objs /\ Head(todo[t]).into \in Objs
         /\ Head(todo[t]).slot \in {"edge", "hidden"}
<1>1. Now(t, "put") /\ Cnt(todo, t) \in 1 .. Cnt(todo, t) /\ t \in Actor
  BY DoingParts, ActorParts DEF Now
<1>2. Stp(todo, t, Cnt(todo, t)) = Head(todo[t])
  BY <1>1, DoingParts
<1> QED
  BY <1>1, <1>2 DEF NameInv, NameOK, Now, Step, Count

(* The step an actor is at, by its number. *)
LEMMA Here ==
  ASSUME TypeInv, NEW a \in Actor, NEW name, Doing(a, name)
  PROVE  /\ Count(a) \in Nat \ {0} /\ Count(a) \in 1 .. Count(a)
         /\ Step(a, Count(a)).op = name /\ Step(a, Count(a)).obj = Current(a)
BY DoingParts DEF Now, Count, Step

(* A string to be published is new. *)
LEMMA PublishNow ==
  ASSUME TypeInv, StringInv, NEW t \in Threads, Doing(t, "publish")
  PROVE  /\ Fresh(Current(t)) /\ table # Current(t) /\ Current(t) \in Strings
         /\ held[t] \cap Strings = {} /\ Count(t) = 1
<1>1. t \in Actor
  BY ActorParts
<1>2. StringOK(t, Count(t)) /\ Step(t, Count(t)).op = "publish" /\ Step(t, Count(t)).obj = Current(t)
  BY <1>1, Here DEF StringInv
<1> QED
  BY <1>2 DEF StringOK, Fresh

-----------------------------------------------------------------------------
(* What the actions do to references. *)

RefType == [Objs -> [Slots -> Objs \cup {None}]]

(* Going from r to s, only slot k of o is set. *)
Sets(s, r, o, k, x) ==
  /\ s \in RefType
  /\ \A q \in Objs, j \in Slots : s[q][j] = IF q = o /\ j = k THEN x ELSE r[q][j]

(* One slot is set. *)
LEMMA RefSet ==
  ASSUME NEW r \in RefType, NEW o \in Objs, NEW k \in Slots, NEW x \in Objs \cup {None}
  PROVE  Sets([r EXCEPT ![o][k] = x], r, o, k, x)
<1>1. [r[o] EXCEPT ![k] = x] \in [Slots -> Objs \cup {None}]
  BY DEF RefType
<1>2. [r EXCEPT ![o][k] = x] = [r EXCEPT ![o] = [r[o] EXCEPT ![k] = x]]
  BY DEF RefType
<1>3. [r EXCEPT ![o] = [r[o] EXCEPT ![k] = x]] \in RefType
  BY <1>1 DEF RefType
<1>4. ASSUME NEW q \in Objs, NEW j \in Slots
      PROVE  [r EXCEPT ![o] = [r[o] EXCEPT ![k] = x]][q][j] = IF q = o /\ j = k THEN x ELSE r[q][j]
  BY DEF RefType
<1> QED
  BY <1>2, <1>3, <1>4 DEF Sets

(* Put sets the slot of the step. *)
LEMMA PutRef ==
  ASSUME TypeInv, NameInv, NEW t \in Threads, Put(t)
  PROVE  Sets(ref', ref, Head(todo[t]).into, Head(todo[t]).slot, Head(todo[t]).obj)
<1>1. /\ Head(todo[t]).obj \in Objs \cup {None} /\ Head(todo[t]).into \in Objs
      /\ Head(todo[t]).slot \in Slots
  BY PutNow DEF Put, Slots
<1>2. ref \in RefType
  BY DEF TypeInv, RefType
<1> QED
  BY <1>1, <1>2, RefSet DEF Put

(* Store empties the slot. *)
LEMMA StoreRef ==
  ASSUME TypeInv, NEW t \in Threads, NEW o \in Objs, NEW k \in Slots, NEW p \in Objs,
         Store(t, o, k, p)
  PROVE  Sets(ref', ref, o, k, None)
<1>1. ref \in RefType
  BY DEF TypeInv, RefType
<1> QED
  BY <1>1, RefSet DEF Store

(* Trim empties the slot of the version chain. *)
LEMMA TrimRef ==
  ASSUME TypeInv, NEW o \in Objs, Trim(o)
  PROVE  Sets(ref', ref, o, "version", None)
<1>1. ref \in RefType /\ "version" \in Slots
  BY DEF TypeInv, RefType, Slots
<1> QED
  BY <1>1, RefSet DEF Trim

(* A destructor empties the slot of native state. *)
LEMMA DestroyRef ==
  ASSUME TypeInv, DestroyNext
  PROVE  /\ Head(rest) \in Objs
         /\ Head(rest) \in Actors => UNCHANGED ref
         /\ Head(rest) \notin Actors => Sets(ref', ref, Head(rest), "hidden", None)
<1>1. ref \in RefType /\ "hidden" \in Slots
  BY DEF TypeInv, RefType, Slots
<1>2. Head(rest) \in Objs
  BY ListParts DEF TypeInv, DestroyNext
<1>3. [ref EXCEPT ![Head(rest)]["hidden"] = None] = ref' \/ Head(rest) \in Actors
  BY DEF DestroyNext, Destroy
<1> QED
  BY <1>1, <1>2, <1>3, RefSet DEF DestroyNext

(* dropReferencesOnce empties two slots, once. *)
LEMMA DropOnceRef ==
  ASSUME TypeInv, NameInv, NEW a \in Actor, DropOnce(a)
  PROVE  /\ Current(a) \in Objs
         /\ dropClaimed[Current(a)] => UNCHANGED ref
         /\ ~dropClaimed[Current(a)] =>
              /\ ref' \in RefType
              /\ \A q \in Objs, j \in Slots :
                   ref'[q][j] = IF q = Current(a) /\ j \in {"edge", "version"} THEN None ELSE ref[q][j]
<1> DEFINE o == Current(a)
           r == [ref EXCEPT ![o]["edge"] = None]
<1>1. ref \in RefType /\ "edge" \in Slots /\ "version" \in Slots
  BY DEF TypeInv, RefType, Slots
<1>2. o \in Objs
  BY CurrentType DEF DropOnce
<1>3. dropClaimed[o] => UNCHANGED ref
  BY DEF DropOnce
<1>4. ~dropClaimed[o] => ref' = [r EXCEPT ![o]["version"] = None]
  BY DEF DropOnce
<1>5. Sets(r, ref, o, "edge", None)
  BY <1>1, <1>2, RefSet
<1> HIDE DEF r, o
<1>6. r \in RefType
  BY <1>5 DEF Sets
<1>7. ~dropClaimed[o] => Sets(ref', r, o, "version", None)
  BY <1>1, <1>2, <1>4, <1>6, RefSet
<1>8. ~dropClaimed[o] =>
        /\ ref' \in RefType
        /\ \A q \in Objs, j \in Slots :
             ref'[q][j] = IF q = o /\ j \in {"edge", "version"} THEN None ELSE ref[q][j]
  BY <1>5, <1>7 DEF Sets
<1> QED
  BY <1>2, <1>3, <1>8 DEF o

(* saveVersion gives the clone the edge and the object the clone. *)
LEMMA SaveRef ==
  ASSUME TypeInv, NEW t \in Threads, NEW o \in Objs, NEW v \in Versions, SaveVersion(t, o, v)
  PROVE  /\ v \in Objs /\ v # o /\ ref[o]["edge"] \in Objs \cup {None} /\ ref' \in RefType
         /\ \A q \in Objs, j \in Slots :
              ref'[q][j] = IF q = v /\ j = "edge" THEN ref[o]["edge"]
                           ELSE IF q = o /\ j = "version" THEN v ELSE ref[q][j]
<1> DEFINE e == ref[o]["edge"]
           r == [ref EXCEPT ![v]["edge"] = e]
<1>1. ref \in RefType /\ "edge" \in Slots /\ "version" \in Slots
  BY DEF TypeInv, RefType, Slots
<1>2. v \in Objs /\ v # o /\ e \in Objs \cup {None}
  BY <1>1, NoneParts DEF SaveVersion, RefType
<1>3. ref' = [r EXCEPT ![o]["version"] = v]
  BY DEF SaveVersion
<1>4. Sets(r, ref, v, "edge", e)
  BY <1>1, <1>2, RefSet
<1> HIDE DEF r
<1>5. Sets(ref', r, o, "version", v)
  <2>1. r \in RefType
    BY <1>4 DEF Sets
  <2> QED
    BY <2>1, <1>1, <1>2, <1>3, RefSet
<1> QED
  BY <1>2, <1>4, <1>5 DEF Sets

(* Every variable keeps its type. *)
LEMMA TypeStep ==
  ASSUME TypeInv, NameInv, StringInv, [Next]_vars
  PROVE  TypeInv'
<1>0. world.threads \subseteq Threads
  BY WorldThreads
<1>t. todo' \in [Actor -> Seq(Steps)]
  BY TypeTodo
<1>1. ASSUME NEW t \in Threads, NEW o \in Objs, New(t, o) PROVE TypeInv'
  BY <1>t, <1>1, ListParts, NoneParts DEF TypeInv, New, counts, claims, values, collector,
      reclaimer, strings, Build, Ready, Bump, Slots
<1>2. ASSUME NEW t \in Threads, NEW u \in Threads, NEW o \in Objs, Share(t, u, o) PROVE TypeInv'
  BY <1>t, <1>2, ListParts, NoneParts DEF TypeInv, Share, counts, claims, values, collector,
      reclaimer, strings, Ready, Bump, Slots
<1>3. ASSUME NEW t \in Threads, NEW o \in Objs, Drop(t, o) PROVE TypeInv'
  BY <1>t, <1>3, ListParts, NoneParts DEF TypeInv, Drop, counts, claims, values, collector,
      reclaimer, strings, Ready, Slots
<1>4. ASSUME NEW t \in Threads, NEW o \in Objs, NEW k \in Slots, NEW p \in Objs, Store(t, o, k, p)
      PROVE  TypeInv'
  BY <1>t, <1>4, ListParts, NoneParts DEF TypeInv, Store, counts, claims, values, collector,
      reclaimer, strings, Ready, Slots
<1>5. ASSUME NEW t \in Threads, Put(t) PROVE TypeInv'
  <2>1. /\ Head(todo[t]).obj \in Objs /\ Head(todo[t]).into \in Objs
        /\ Head(todo[t]).slot \in {"edge", "hidden"}
    BY <1>5, PutNow DEF Put
  <2>2. ref' \in RefType
    BY <1>5, PutRef DEF Sets
  <2>3. strong' \in [Objs -> Int]
    <3>1. strong' = [strong EXCEPT ![Head(todo[t]).obj] = strong[Head(todo[t]).obj] + 1]
      BY <1>5 DEF Put, Bump
    <3> QED
      BY <3>1, <2>1 DEF TypeInv
  <2> QED
    BY <1>t, <1>5, <2>2, <2>3 DEF TypeInv, RefType, Put, claims, collector, reclaimer, strings, Bump, Slots
<1>6. ASSUME NEW t \in Threads, NEW o \in Objs, NEW k \in Slots, Load(t, o, k) PROVE TypeInv'
  BY <1>t, <1>6, ListParts, NoneParts DEF TypeInv, Load, counts, claims, values, collector,
      reclaimer, strings, Ready, Bump, Slots
<1>7. ASSUME NEW t \in Threads, NEW o \in Objs, NEW v \in Versions, SaveVersion(t, o, v)
      PROVE  TypeInv'
  <2>1. ref[o]["edge"] \in Objs \cup {None} /\ v \in Objs
    BY NoneParts DEF TypeInv, Slots
  <2>2. ref' \in [Objs -> [Slots -> Objs \cup {None}]]
    BY <1>7, SaveRef DEF RefType
  <2>3. strong' \in [Objs -> Int]
    <3>1. strong' = [p \in Objs |-> strong[p] + (IF p = v THEN 1 ELSE 0)
                                  + (IF p = ref[o]["edge"] THEN 1 ELSE 0)]
      BY <1>7 DEF SaveVersion
    <3>2. \A p \in Objs : strong[p] + (IF p = v THEN 1 ELSE 0) + (IF p = ref[o]["edge"] THEN 1 ELSE 0) \in Int
      BY DEF TypeInv
    <3> QED
      BY <3>1, <3>2
  <2>4. /\ phase' \in [Objs -> {"none", "built", "destroyed", "freed"}] /\ weak' \in [Objs -> Int]
        /\ linked' \in [Objs -> BOOLEAN]
    BY <1>7, <2>1 DEF SaveVersion, Build, TypeInv
  <2> QED
    BY <1>t, <1>7, <2>2, <2>3, <2>4 DEF TypeInv, SaveVersion, collector, reclaimer, strings
<1>8. ASSUME NEW t \in Threads, NEW o \in Objs, WeakRef(t, o) PROVE TypeInv'
  BY <1>t, <1>8, ListParts, NoneParts DEF TypeInv, WeakRef, counts, claims, values, collector,
      reclaimer, strings, Ready, Bump, Slots
<1>9. ASSUME NEW t \in Threads, NEW o \in Objs, DropWeak(t, o) PROVE TypeInv'
  BY <1>t, <1>9, ListParts, NoneParts DEF TypeInv, DropWeak, counts, claims, values, collector,
      reclaimer, strings, FreedIfLast, Ready, Bump, Slots
<1>10. ASSUME NEW t \in Threads, NEW o \in Objs, StrongRef(t, o) PROVE TypeInv'
  BY <1>t, <1>10, ListParts, NoneParts DEF TypeInv, StrongRef, counts, claims, values,
      collector, reclaimer, strings, Ready, Slots
<1>11. ASSUME NEW t \in Threads, TryIncRef(t) PROVE TypeInv'
  <2>1. Current(t) \in Objs /\ t \in Actor
    BY <1>11, CurrentType, ActorParts DEF TryIncRef
  <2> QED
    BY <1>t, <1>11, <2>1, ListParts DEF TypeInv, TryIncRef, counts, claims, values, collector, reclaimer, strings, Bump, Slots
<1>12. ASSUME NEW t \in Threads, Recheck(t) PROVE TypeInv'
  <2>1. Current(t) \in Objs /\ t \in Actor
    BY <1>12, CurrentType, ActorParts DEF Recheck
  <2>2. held' \in [Threads -> SUBSET Objs]
    <3>1. held' = held \/ held' = [held EXCEPT ![t] = held[t] \cup {Current(t)}]
      BY <1>12 DEF Recheck
    <3>2. held[t] \cup {Current(t)} \in SUBSET Objs /\ held \in [Threads -> SUBSET Objs]
      BY <2>1 DEF TypeInv
    <3> QED
      BY <3>1, <3>2
  <2> QED
    BY <1>t, <1>12, <2>2 DEF TypeInv, Recheck, counts, claims, collector, reclaimer, strings
<1>13. ASSUME NEW t \in Threads, Intern(t) PROVE TypeInv'
  BY <1>t, <1>13, ListParts, NoneParts DEF TypeInv, Intern, counts, claims, values, collector,
      reclaimer, strings, Ready, Slots
<1>14. ASSUME NEW t \in Threads, Lookup(t) PROVE TypeInv'
  BY <1>t, <1>14, ListParts, NoneParts DEF TypeInv, Lookup, counts, claims, values, collector,
      reclaimer, strings, Bump, Slots
<1>15. ASSUME NEW t \in Threads, NEW s \in Strings, AllocString(t, s) PROVE TypeInv'
  BY <1>t, <1>15, ListParts, NoneParts DEF TypeInv, AllocString, counts, claims, values,
      collector, reclaimer, strings, Build, Slots
<1>16. ASSUME NEW t \in Threads, PublishString(t) PROVE TypeInv'
  <2>1. Current(t) \in Objs /\ t \in Actor
    BY <1>16, CurrentType, ActorParts DEF PublishString
  <2>2. strong' \in [Objs -> Int]
    <3>1. CASE table # None /\ strong[table] > 0
      <4>1. strong' = [strong EXCEPT ![table] = @ + 1, ![Current(t)] = @ + 1]
        BY <1>16, <3>1 DEF PublishString
      <4>2. [strong EXCEPT ![table] = @ + 1] \in [Objs -> Int]
        BY <3>1, TableType DEF TypeInv
      <4> QED
        BY <4>1, <4>2, <2>1
    <3>2. CASE ~(table # None /\ strong[table] > 0)
      BY <1>16, <3>2 DEF PublishString, TypeInv
    <3> QED
      BY <3>1, <3>2
  <2>3. table' \in Strings \cup {None} /\ interned' \subseteq Objs
    BY <1>16, <2>1, PublishNow DEF PublishString, TypeInv, strings
  <2> QED
    BY <1>t, <1>16, <2>2, <2>3 DEF TypeInv, PublishString, claims, values, collector, reclaimer, strings
<1>17. ASSUME NEW t \in Threads, Own(t) PROVE TypeInv'
  <2>1. Current(t) \in Objs /\ t \in Actor
    BY <1>17, CurrentType, ActorParts DEF Own
  <2> QED
    BY <1>t, <1>17, <2>1, ListParts DEF TypeInv, Own, counts, claims, values, collector, reclaimer, strings, Bump, Slots
<1>18. ASSUME NEW a \in Actor, DecRef(a) PROVE TypeInv'
  <2>1. Current(a) \in Objs /\ a \in Actor
    BY <1>18, CurrentType, ActorParts DEF DecRef
  <2> QED
    BY <1>t, <1>18, <2>1, ListParts DEF TypeInv, DecRef, counts, claims, values, collector, reclaimer, strings, Bump, Slots
<1>19. ASSUME NEW a \in Actor, Claim(a) PROVE TypeInv'
  <2>1. Current(a) \in Objs /\ a \in Actor
    BY <1>19, CurrentType, ActorParts DEF Claim
  <2> QED
    BY <1>t, <1>19, <2>1, ListParts DEF TypeInv, Claim, counts, claims, values, collector, reclaimer, strings, Slots
<1>20. ASSUME NEW a \in Actor, DropOnce(a) PROVE TypeInv'
  <2>1. Current(a) \in Objs /\ a \in Actor
    BY <1>20, CurrentType, ActorParts DEF DropOnce
  <2>2. ref' \in [Objs -> [Slots -> Objs \cup {None}]]
    BY <1>20, DropOnceRef DEF RefType, TypeInv
  <2>3. dropClaimed' \in [Objs -> BOOLEAN]
    BY <1>20, <2>1 DEF DropOnce, TypeInv
  <2> QED
    BY <1>t, <1>20, <2>2, <2>3 DEF TypeInv, DropOnce, counts, collector, reclaimer, strings
<1>21. ASSUME NEW a \in Actor, Null(a) PROVE TypeInv'
  <2>1. Current(a) \in Objs /\ a \in Actor
    BY <1>21, CurrentType, ActorParts DEF Null
  <2> QED
    BY <1>t, <1>21, <2>1, ListParts DEF TypeInv, Null, counts, claims, values, collector, reclaimer, strings, Slots
<1>22. ASSUME NEW a \in Actor, Retire(a) PROVE TypeInv'
  <2>1. Current(a) \in Objs /\ a \in Actor
    BY <1>22, CurrentType, ActorParts DEF Retire
  <2>2. queue' \in Seq(Objs)
    BY <1>22, <2>1 DEF Retire, TypeInv
  <2> QED
    BY <1>t, <1>22, <2>2 DEF TypeInv, Retire, counts, claims, values, collector, reclaimer, strings
<1>23. ASSUME Mark PROVE TypeInv'
  <2>1. Reach(Roots) \subseteq Objs
    BY WorldObjs DEF Reach
  <2> QED
    BY <1>t, <1>23, <2>1 DEF TypeInv, Mark, counts, claims, values, reclaimer, strings
<1>24. ASSUME NEW o \in Objs, Trim(o) PROVE TypeInv'
  BY <1>t, <1>24, ListParts, NoneParts DEF TypeInv, Trim, counts, claims, values, collector,
      reclaimer, strings, Slots
<1>25. ASSUME TrimDone PROVE TypeInv'
  BY <1>t, <1>25, ListParts, NoneParts DEF TypeInv, TrimDone, counts, claims, values, collector,
      reclaimer, strings, Slots
<1>26. ASSUME Sweep PROVE TypeInv'
  <2>1. Unmarked \in SUBSET Objs
    BY DEF Unmarked
  <2>2. swept' \in Seq(Objs)
    BY <1>26, <2>1, SetSeq DEF Sweep
  <2>3. table' \in Strings \cup {None}
    BY <1>26 DEF Sweep, TypeInv
  <2> QED
    BY <1>t, <1>26, <2>2, <2>3 DEF TypeInv, Sweep, counts, values, reclaimer
<1>27. ASSUME Publish PROVE TypeInv'
  <2>1. queue' \in Seq(Objs) /\ swept' \in Seq(Objs)
    BY <1>27, ListParts DEF Publish, TypeInv
  <2> QED
    BY <1>t, <1>27, <2>1 DEF TypeInv, Publish, counts, claims, values, reclaimer, strings
<1>28. ASSUME Drain PROVE TypeInv'
  <2>1. batch' \in Seq(Objs) /\ rest' \in Seq(Objs) /\ queue' \in Seq(Objs)
    BY <1>28 DEF Drain, TypeInv
  <2> QED
    BY <1>t, <1>28, <2>1 DEF TypeInv, Drain, counts, claims, values, collector, strings
<1>29. ASSUME DropNext PROVE TypeInv'
  BY <1>t, <1>29, ListParts, NoneParts DEF TypeInv, DropNext, counts, claims, values, collector,
      reclaimer, strings, Slots
<1>30. ASSUME Hold PROVE TypeInv'
  BY <1>t, <1>30, ListParts, NoneParts DEF TypeInv, Hold, counts, claims, values, collector,
      reclaimer, strings, Slots
<1>31. ASSUME DestroyNext PROVE TypeInv'
  <2>1. Head(rest) \in Objs /\ rest' \in Seq(Objs)
    BY <1>31, ListParts DEF DestroyNext, TypeInv
  <2>2. finalize' \subseteq Actors
    BY <1>31 DEF DestroyNext, TypeInv
  <2>3. phase' \in [Objs -> {"none", "built", "destroyed", "freed"}]
    BY <1>31, <2>1 DEF DestroyNext, Destroy, TypeInv
  <2>4. ref' \in [Objs -> [Slots -> Objs \cup {None}]]
    BY <1>31, DestroyRef DEF RefType, Sets, TypeInv
  <2>5. table' \in Strings \cup {None}
    BY <1>31 DEF DestroyNext, Destroy, SelfErase, TypeInv
  <2> QED
    BY <1>t, <1>31, <2>1, <2>2, <2>3, <2>4, <2>5 DEF TypeInv, DestroyNext, counts, claims, collector, strings
<1>32. ASSUME NEW a \in Actor, Unweak(a) PROVE TypeInv'
  <2>1. Current(a) \in Objs /\ a \in Actor
    BY <1>32, CurrentType, ActorParts DEF Unweak
  <2>2. phase' \in [Objs -> {"none", "built", "destroyed", "freed"}] /\ weak' \in [Objs -> Int]
    BY <1>32, <2>1 DEF Unweak, TypeInv, FreedIfLast, Bump
  <2> QED
    BY <1>t, <1>32, <2>2 DEF TypeInv, Unweak, claims, values, collector, reclaimer, strings
<1>33. ASSUME ReleaseHolds PROVE TypeInv'
  BY <1>t, <1>33, ListParts, NoneParts DEF TypeInv, ReleaseHolds, counts, claims, values,
      collector, reclaimer, strings, Slots
<1>34. ASSUME NEW o \in Actors, FinalizeActor(o) PROVE TypeInv'
  BY <1>t, <1>34, ListParts, NoneParts, SMTT(60) DEF TypeInv, FinalizeActor, counts, claims, values,
      collector, reclaimer, strings, Bump, Slots
<1>35. ASSUME UNCHANGED vars PROVE TypeInv'
  BY <1>t, <1>35, ListParts, NoneParts DEF TypeInv, vars, counts, claims, values, collector,
      reclaimer, strings, Slots
<1> QED
  BY <1>0, <1>1, <1>2, <1>3, <1>4, <1>5, <1>6, <1>7, <1>8, <1>9, <1>10, <1>11, <1>12, <1>13,
      <1>14, <1>15, <1>16, <1>17, <1>18, <1>19, <1>20, <1>21, <1>22, <1>23, <1>24, <1>25, <1>26,
      <1>27, <1>28, <1>29, <1>30, <1>31, <1>32, <1>33, <1>34, <1>35, StepKinds

(* Steps name what they work on. *)
LEMMA NameStep ==
  ASSUME TypeInv, NameInv, [Next]_vars
  PROVE  \A b \in Actor : \A m \in 1 .. Cnt(todo', b) : NameOK(b, m)'
<1> SUFFICES ASSUME NEW b \in Actor, NEW m \in 1 .. Cnt(todo', b)
             PROVE  NameOK(b, m)'
  OBVIOUS
<1>1. CASE Same(b, m)
  BY <1>1 DEF NameInv, NameOK, Step, Count, Same
<1>2. CASE NewDec(b, m)
  BY <1>2 DEF NewDec, Then1Is, PutOp, NameOK, Step
<1>3. CASE NewClaim(b, m)
  <2>1. Current(b) \in Objs
    BY <1>3, CurrentType DEF NewClaim, DecRef
  <2> QED
    BY <1>3, <2>1 DEF NewClaim, Then1Is, NameOK, Step
<1>4. CASE NewRetire(b, m)
  <2>1. Current(b) \in Objs
    BY <1>4, CurrentType DEF NewRetire, Claim
  <2> QED
    BY <1>4, <2>1 DEF NewRetire, Then1Is, NameOK, Step
<1>5. CASE NewNull(b, m)
  <2>1. Current(b) \in Objs
    BY <1>5, CurrentType DEF NewNull, Claim
  <2> QED
    BY <1>5, <2>1 DEF NewNull, Then1Is, NameOK, Step
<1>6. CASE NewDropOnce(b, m)
  <2>1. Claim(b) => Current(b) \in Objs
    BY CurrentType DEF Claim
  <2> QED
    BY <1>6, <2>1, DropNextType DEF NewDropOnce, Then1Is, NameOK, Step
<1>7. CASE NewPut(b, m)
  BY <1>7 DEF NewPut, Then1Is, PutOp, NameOK, Step
<1>8. CASE NewTry(b, m)
  BY <1>8 DEF NewTry, Then1Is, PutOp, NameOK, Step
<1>9. CASE NewRecheck(b, m)
  <2>1. Current(b) \in Objs
    BY <1>9, CurrentType DEF NewRecheck, TryIncRef
  <2> QED
    BY <1>9, <2>1 DEF NewRecheck, Then1Is, NameOK, Step
<1>10. CASE NewLookup(b, m)
  BY <1>10 DEF NewLookup, Then1Is, PutOp, NameOK, Step
<1>11. CASE NewAlloc(b, m)
  BY <1>11 DEF NewAlloc, Then1Is, PutOp, NameOK, Step
<1>12. CASE NewPublish(b, m)
  BY <1>12, NoneParts DEF NewPublish, Then1Is, NameOK, Step
<1>13. CASE NewOwn(b, m)
  <2>1. PublishString(b) => Current(b) \in Objs
    BY CurrentType DEF PublishString
  <2> QED
    BY <1>13, <2>1, TableType DEF NewOwn, Then1Is, NameOK, Step, Found
<1>14. CASE NewUnweak(b, m)
  BY <1>14, DestroyShape DEF NewUnweak, Then1Is, NameOK, Step
<1> QED
  BY Origin, <1>1, <1>2, <1>3, <1>4, <1>5, <1>6, <1>7, <1>8, <1>9, <1>10, <1>11, <1>12, <1>13,
      <1>14 DEF NewStep

-----------------------------------------------------------------------------
(* The strong count is the number of owners. *)

HeldGains(o, g) ==
  IsFiniteSet(HeldBy(o)) =>
    IsFiniteSet(HeldBy(o)') /\ Cardinality(HeldBy(o)') = Cardinality(HeldBy(o)) + g
RefGains(s, r, o, g) ==
  IsFiniteSet(RefIn(r, o)) =>
    IsFiniteSet(RefIn(s, o)) /\ Cardinality(RefIn(s, o)) = Cardinality(RefIn(r, o)) + g

(* A count that grows by what its parts grow by. *)
LEMMA StrongSum ==
  ASSUME StrongInv, NEW o \in Objs, NEW gh \in Int, NEW gr \in Int, NEW gd \in Int,
         HeldGains(o, gh), RefGains(ref', ref, o, gr), Gains(o, gd),
         strong'[o] = strong[o] + (gh + gr + gd)
  PROVE  StrongOK(o)'
<1>1. /\ IsFiniteSet(HeldBy(o)) /\ IsFiniteSet(RefIn(ref, o)) /\ IsFiniteSet(Due(todo, o))
      /\ strong[o] = Cardinality(HeldBy(o)) + Cardinality(RefIn(ref, o)) + Cardinality(Due(todo, o))
  BY DEF StrongInv, StrongOK, RefBy
<1>2. /\ Cardinality(HeldBy(o)) \in Nat /\ Cardinality(RefIn(ref, o)) \in Nat
      /\ Cardinality(Due(todo, o)) \in Nat
  BY <1>1, FS_CardinalityType
<1>3. IsFiniteSet(HeldBy(o)') /\ Cardinality(HeldBy(o)') = Cardinality(HeldBy(o)) + gh
  BY <1>1 DEF HeldGains
<1>4. /\ IsFiniteSet(RefIn(ref', o))
      /\ Cardinality(RefIn(ref', o)) = Cardinality(RefIn(ref, o)) + gr
  BY <1>1 DEF RefGains
<1>5. /\ IsFiniteSet(Due(todo', o))
      /\ Cardinality(Due(todo', o)) = Cardinality(Due(todo, o)) + gd
  BY <1>1 DEF Gains
<1>6. strong'[o] = Cardinality(HeldBy(o)') + Cardinality(RefIn(ref', o)) + Cardinality(Due(todo', o))
  BY <1>1, <1>2, <1>3, <1>4, <1>5
<1> QED
  BY <1>3, <1>4, <1>5, <1>6 DEF StrongOK, RefBy

(* Nothing changes. *)
LEMMA HeldSame ==
  ASSUME UNCHANGED held, NEW o
  PROVE  HeldGains(o, 0)
<1>1. HeldBy(o)' = HeldBy(o)
  BY DEF HeldBy
<1>2. IsFiniteSet(HeldBy(o)) => Cardinality(HeldBy(o)) \in Nat
  BY FS_CardinalityType
<1> QED
  BY <1>1, <1>2 DEF HeldGains

(* No reference changes. *)
LEMMA RefSame ==
  ASSUME NEW r, NEW o
  PROVE  RefGains(r, r, o, 0)
<1>1. IsFiniteSet(RefIn(r, o)) => Cardinality(RefIn(r, o)) \in Nat
  BY FS_CardinalityType
<1> QED
  BY <1>1 DEF RefGains

(* No step comes or goes. *)
LEMMA DueSame ==
  ASSUME UNCHANGED todo, NEW o
  PROVE  Gains(o, 0)
<1>1. IsFiniteSet(Due(todo, o)) => Cardinality(Due(todo, o)) \in Nat
  BY FS_CardinalityType
<1> QED
  BY <1>1 DEF Gains

(* A thread has one more Value. *)
LEMMA HeldAdd ==
  ASSUME held \in [Threads -> SUBSET Objs], NEW t \in Threads, NEW x, x \notin held[t],
         held' = [held EXCEPT ![t] = held[t] \cup {x}], NEW o
  PROVE  HeldGains(o, IF o = x THEN 1 ELSE 0)
<1>1. HeldBy(o)' = IF o = x THEN HeldBy(o) \cup {t} ELSE HeldBy(o)
  BY DEF HeldBy
<1>2. t \notin HeldBy(x)
  BY DEF HeldBy
<1>3. IsFiniteSet(HeldBy(o)) => Cardinality(HeldBy(o)) \in Nat
  BY FS_CardinalityType
<1>4. IsFiniteSet(HeldBy(x)) =>
        IsFiniteSet(HeldBy(x) \cup {t}) /\ Cardinality(HeldBy(x) \cup {t}) = Cardinality(HeldBy(x)) + 1
  BY <1>2, FS_AddElement
<1>5. CASE o = x
  <2>1. IsFiniteSet(HeldBy(o)) =>
          IsFiniteSet(HeldBy(o)') /\ Cardinality(HeldBy(o)') = Cardinality(HeldBy(o)) + 1
    BY <1>1, <1>4, <1>5
  <2> QED
    BY <1>3, <1>5, <2>1 DEF HeldGains
<1>6. CASE o # x
  <2>1. HeldBy(o)' = HeldBy(o)
    BY <1>1, <1>6
  <2> QED
    BY <1>3, <1>6, <2>1 DEF HeldGains
<1> QED
  BY <1>5, <1>6

(* A thread has one Value less. *)
LEMMA HeldRemove ==
  ASSUME held \in [Threads -> SUBSET Objs], NEW t \in Threads, NEW x, x \in held[t],
         held' = [held EXCEPT ![t] = held[t] \ {x}], NEW o
  PROVE  HeldGains(o, IF o = x THEN -1 ELSE 0)
<1>1. HeldBy(o)' = IF o = x THEN HeldBy(o) \ {t} ELSE HeldBy(o)
  BY DEF HeldBy
<1>2. t \in HeldBy(x)
  BY DEF HeldBy
<1>3. IsFiniteSet(HeldBy(o)) => Cardinality(HeldBy(o)) \in Nat
  BY FS_CardinalityType
<1>4. IsFiniteSet(HeldBy(x)) =>
        IsFiniteSet(HeldBy(x) \ {t}) /\ Cardinality(HeldBy(x) \ {t}) = Cardinality(HeldBy(x)) - 1
  BY <1>2, FS_RemoveElement
<1>5. CASE o = x
  <2>1. IsFiniteSet(HeldBy(o)) =>
          IsFiniteSet(HeldBy(o)') /\ Cardinality(HeldBy(o)') = Cardinality(HeldBy(o)) + (-1)
    BY <1>1, <1>4, <1>5
  <2> QED
    BY <1>3, <1>5, <2>1 DEF HeldGains
<1>6. CASE o # x
  <2>1. HeldBy(o)' = HeldBy(o)
    BY <1>1, <1>6
  <2> QED
    BY <1>3, <1>6, <2>1 DEF HeldGains
<1> QED
  BY <1>5, <1>6

(* One slot is set. *)
LEMMA RefCount ==
  ASSUME NEW r, NEW s, NEW q \in Objs, NEW k \in Slots, NEW x, Sets(s, r, q, k, x),
         NEW o \in Objs
  PROVE  RefGains(s, r, o, (IF x = o THEN 1 ELSE 0) - (IF r[q][k] = o THEN 1 ELSE 0))
<1> DEFINE y == <<q, k>>
<1>1. y \in RefIn(r, o) <=> r[q][k] = o
  BY DEF RefIn
<1>2. RefIn(s, o) = IF x = o THEN RefIn(r, o) \cup {y} ELSE RefIn(r, o) \ {y}
  <2>1. ASSUME NEW p \in Objs, NEW j \in Slots
        PROVE  <<p, j>> \in RefIn(s, o) <=> IF p = q /\ j = k THEN x = o ELSE <<p, j>> \in RefIn(r, o)
    BY DEF RefIn, Sets
  <2> QED
    BY <2>1 DEF RefIn
<1> HIDE DEF y
<1>3. IsFiniteSet(RefIn(r, o)) =>
        /\ IsFiniteSet(RefIn(r, o) \cup {y}) /\ IsFiniteSet(RefIn(r, o) \ {y})
        /\ Cardinality(RefIn(r, o)) \in Nat
        /\ Cardinality(RefIn(r, o) \cup {y}) = Cardinality(RefIn(r, o)) + (IF r[q][k] = o THEN 0 ELSE 1)
        /\ Cardinality(RefIn(r, o) \ {y}) = Cardinality(RefIn(r, o)) - (IF r[q][k] = o THEN 1 ELSE 0)
  <2> HAVE IsFiniteSet(RefIn(r, o))
  <2>1. /\ IsFiniteSet(RefIn(r, o) \cup {y})
        /\ Cardinality(RefIn(r, o) \cup {y})
             = IF y \in RefIn(r, o) THEN Cardinality(RefIn(r, o)) ELSE Cardinality(RefIn(r, o)) + 1
    BY FS_AddElement
  <2>2. /\ IsFiniteSet(RefIn(r, o) \ {y})
        /\ Cardinality(RefIn(r, o) \ {y})
             = IF y \in RefIn(r, o) THEN Cardinality(RefIn(r, o)) - 1 ELSE Cardinality(RefIn(r, o))
    BY FS_RemoveElement
  <2>3. Cardinality(RefIn(r, o)) \in Nat
    BY FS_CardinalityType
  <2> QED
    BY <1>1, <2>1, <2>2, <2>3
<1> QED
  BY <1>1, <1>2, <1>3 DEF RefGains

(* Two slots are set, one after the other. *)
LEMMA RefTwice ==
  ASSUME NEW r, NEW s, NEW u, NEW o, NEW g \in Int, NEW h \in Int, RefGains(s, r, o, g),
         RefGains(u, s, o, h)
  PROVE  RefGains(u, r, o, g + h)
<1>1. IsFiniteSet(RefIn(r, o)) => Cardinality(RefIn(r, o)) \in Nat
  BY FS_CardinalityType
<1> QED
  BY <1>1 DEF RefGains

(* What the steps an actor is at rest on. *)
LEMMA PutHere ==
  ASSUME TypeInv, NameInv, ThreadInv, NEW t \in Threads, Doing(t, "put")
  PROVE  /\ Head(todo[t]).obj \in held[t] /\ Head(todo[t]).into \in held[t] /\ t = Writer
         /\ ref[Head(todo[t]).into][Head(todo[t]).slot] = None
         /\ Head(todo[t]).slot = "hidden" => Head(todo[t]).into \in Natives
<1>1. t \in Actor /\ Count(t) \in 1 .. Count(t)
  BY ActorParts, Here
<1>2. Step(t, Count(t)) = Head(todo[t]) /\ Head(todo[t]).op = "put"
  BY <1>1, DoingParts DEF Step, Count
<1>3. ThreadOK(t, Count(t))
  BY <1>1 DEF ThreadInv
<1> QED
  BY <1>2, <1>3 DEF ThreadOK

(* The second look of strongRef is at a live object, by a thread that does not hold it. *)
LEMMA RecheckHere ==
  ASSUME TypeInv, DecInv, NEW t \in Threads, Doing(t, "recheck")
  PROVE  Live(Current(t)) /\ Current(t) \notin held[t] /\ Count(t) = 1
<1>1. t \in Actor
  BY ActorParts
<1>2. DecOK(t, Count(t)) /\ Step(t, Count(t)).op = "recheck" /\ Step(t, Count(t)).obj = Current(t)
  BY <1>1, Here DEF DecInv
<1> QED
  BY <1>2 DEF DecOK

(* A thread that takes a string of the table holds none; the string is protected, or its own. *)
LEMMA OwnHere ==
  ASSUME TypeInv, StringInv, NEW t \in Threads, Doing(t, "own")
  PROVE  /\ Current(t) \in Strings /\ held[t] \cap Strings = {}
         /\ (Count(t) = 2 /\ Has(t, 1, "dec", Current(t))) \/ (Count(t) = 1 /\ Fresh(Current(t)))
<1>1. t \in Actor
  BY ActorParts
<1>2. StringOK(t, Count(t)) /\ Step(t, Count(t)).op = "own" /\ Step(t, Count(t)).obj = Current(t)
  BY <1>1, Here DEF StringInv
<1> QED
  BY <1>2 DEF StringOK

(* Strong counts are kept right. *)
LEMMA StrongStep ==
  ASSUME TypeInv, NameInv, StrongInv, HeldInv, RefInv, ThreadInv, DecInv, StringInv,
         NEW x \in Objs, [Next]_vars
  PROVE  StrongOK(x)'
<1>0. world.threads \subseteq Threads
  BY WorldThreads
<1>1. ASSUME NEW t \in Threads, NEW o \in Objs, New(t, o) PROVE StrongOK(x)'
  <2>0. o \notin held[t]
    BY <1>1 DEF New, Build, HeldInv, Live
  <2>1. HeldGains(x, IF x = o THEN 1 ELSE 0)
    BY <1>1, HeldAdd, <2>0 DEF New, TypeInv
  <2>2. RefGains(ref', ref, x, 0)
    BY <1>1, RefSame DEF New, counts, claims, values, collector, reclaimer, strings, Build, Ready, Bump
  <2>3. Gains(x, 0)
    BY <1>1, DueSame DEF New, counts, claims, values, collector, reclaimer, strings, Build, Ready, Bump
  <2>4. strong'[x] = strong[x] + ((IF x = o THEN 1 ELSE 0) + (0) + (0))
    BY <1>1 DEF New, counts, claims, values, collector, reclaimer, strings, Build, Ready, Bump, TypeInv
  <2> QED
    BY <2>1, <2>2, <2>3, <2>4, StrongSum
<1>2. ASSUME NEW t \in Threads, NEW u \in Threads, NEW o \in Objs, Share(t, u, o)
      PROVE  StrongOK(x)'
  <2>1. HeldGains(x, IF x = o THEN 1 ELSE 0)
    BY <1>2, HeldAdd DEF Share, TypeInv
  <2>2. RefGains(ref', ref, x, 0)
    BY <1>2, RefSame DEF Share, counts, claims, values, collector, reclaimer, strings, Ready, Bump
  <2>3. Gains(x, 0)
    BY <1>2, DueSame DEF Share, counts, claims, values, collector, reclaimer, strings, Ready, Bump
  <2>4. strong'[x] = strong[x] + ((IF x = o THEN 1 ELSE 0) + (0) + (0))
    BY <1>2 DEF Share, counts, claims, values, collector, reclaimer, strings, Ready, Bump, TypeInv
  <2> QED
    BY <2>1, <2>2, <2>3, <2>4, StrongSum
<1>3. ASSUME NEW t \in Threads, NEW o \in Objs, Drop(t, o) PROVE StrongOK(x)'
  <2>1. HeldGains(x, IF x = o THEN -1 ELSE 0)
    BY <1>3, HeldRemove DEF Drop, TypeInv
  <2>2. RefGains(ref', ref, x, 0)
    BY <1>3, RefSame DEF Drop, counts, claims, values, collector, reclaimer, strings, Ready
  <2>3. Gains(x, IF x = o THEN 1 ELSE 0)
    BY <1>3, DropShape
  <2>4. strong'[x] = strong[x] + ((IF x = o THEN -1 ELSE 0) + (0) + (IF x = o THEN 1 ELSE 0))
    BY <1>3 DEF Drop, counts, claims, values, collector, reclaimer, strings, Ready, TypeInv
  <2> QED
    BY <2>1, <2>2, <2>3, <2>4, StrongSum
<1>4. ASSUME NEW t \in Threads, NEW o \in Objs, NEW k \in Slots, NEW p \in Objs, Store(t, o, k, p)
      PROVE  StrongOK(x)'
  <2>1. HeldGains(x, 0)
    BY <1>4, HeldSame DEF Store, counts, claims, values, collector, reclaimer, strings, Ready
  <2>2. RefGains(ref', ref, x, (IF None = x THEN 1 ELSE 0) - (IF ref[o][k] = x THEN 1 ELSE 0))
    BY <1>4, StoreRef, RefCount
  <2>3. Gains(x, IF x = ref[o][k] THEN 1 ELSE 0)
    BY <1>4, StoreShape
  <2>4. strong'[x] = strong[x] + ((0) + ((IF None = x THEN 1 ELSE 0) - (IF ref[o][k] = x THEN 1 ELSE 0)) + (IF x = ref[o][k] THEN 1 ELSE 0))
    BY <1>4, NoneParts, SMTT(60) DEF Store, counts, claims, values, collector, reclaimer, strings, Ready, TypeInv
  <2> QED
    BY <2>1, <2>2, <2>3, <2>4, StrongSum
<1>5. ASSUME NEW t \in Threads, Put(t) PROVE StrongOK(x)'
  <2> DEFINE p == Head(todo[t]).obj
             q == Head(todo[t]).into
             k == Head(todo[t]).slot
  <2>0. p \in Objs /\ q \in Objs /\ k \in Slots /\ ref[q][k] = None
    BY <1>5, PutNow, PutHere DEF Put, Slots
  <2>a. Sets(ref', ref, q, k, p)
    BY <1>5, PutRef
  <2>b. strong' = [strong EXCEPT ![p] = strong[p] + 1]
    BY <1>5 DEF Put, Bump
  <2>1. HeldGains(x, 0)
    BY <1>5, HeldSame DEF Put
  <2>3. Gains(x, 0)
    BY <1>5, PutShape
  <2> HIDE DEF p, q, k
  <2>2. RefGains(ref', ref, x, (IF p = x THEN 1 ELSE 0) - (IF ref[q][k] = x THEN 1 ELSE 0))
    BY <2>0, <2>a, RefCount
  <2>4. /\ strong'[x] = strong[x] + (0 + (IF p = x THEN 1 ELSE 0) + 0)
        /\ (IF p = x THEN 1 ELSE 0) - (IF ref[q][k] = x THEN 1 ELSE 0) = IF p = x THEN 1 ELSE 0
    BY <2>0, <2>b, NoneParts DEF TypeInv
  <2>5. PICK g \in Int : g = IF p = x THEN 1 ELSE 0
    OBVIOUS
  <2>6. RefGains(ref', ref, x, g)
    BY <2>2, <2>4, <2>5
  <2>7. strong'[x] = strong[x] + (0 + g + 0)
    BY <2>4, <2>5
  <2> QED
    BY <2>1, <2>3, <2>6, <2>7, StrongSum
<1>6. ASSUME NEW t \in Threads, NEW o \in Objs, NEW k \in Slots, Load(t, o, k) PROVE StrongOK(x)'
  <2>1. HeldGains(x, IF x = ref[o][k] THEN 1 ELSE 0)
    BY <1>6, HeldAdd DEF Load, TypeInv
  <2>2. RefGains(ref', ref, x, 0)
    BY <1>6, RefSame DEF Load, counts, claims, values, collector, reclaimer, strings, Ready, Bump
  <2>3. Gains(x, 0)
    BY <1>6, DueSame DEF Load, counts, claims, values, collector, reclaimer, strings, Ready, Bump
  <2>4. strong'[x] = strong[x] + ((IF x = ref[o][k] THEN 1 ELSE 0) + (0) + (0))
    BY <1>6 DEF Load, counts, claims, values, collector, reclaimer, strings, Ready, Bump, TypeInv
  <2> QED
    BY <2>1, <2>2, <2>3, <2>4, StrongSum
<1>7. ASSUME NEW t \in Threads, NEW o \in Objs, NEW v \in Versions, SaveVersion(t, o, v)
      PROVE  StrongOK(x)'
  <2> DEFINE r == [ref EXCEPT ![v]["edge"] = ref[o]["edge"]]
  <2>a. ref \in RefType /\ "edge" \in Slots /\ "version" \in Slots /\ v \in Objs /\ v # o /\ ref[o]["edge"] \in Objs \cup {None}
    BY <1>7, SaveRef DEF TypeInv, RefType, Slots
  <2>b. ref[v]["edge"] = None /\ ref[o]["version"] = None
    BY <1>7, <2>a DEF RefInv, RefOK, SaveVersion, Build
  <2>c. Sets(r, ref, v, "edge", ref[o]["edge"])
    BY <2>a, RefSet
  <2>e. ref' = [r EXCEPT ![o]["version"] = v]
    BY <1>7 DEF SaveVersion
  <2> HIDE DEF r
  <2>d. Sets(ref', r, o, "version", v)
    <3>1. r \in RefType
      BY <2>c DEF Sets
    <3> QED
      BY <3>1, <2>a, <2>e, RefSet
  <2>f. r[o]["version"] = None /\ v \in Objs
    BY <2>a, <2>b, <2>c DEF Sets
  <2>1. HeldGains(x, 0)
    BY <1>7, HeldSame DEF SaveVersion, counts, claims, values, collector, reclaimer, strings, Build, Ready
  <2>2. RefGains(ref', ref, x, ((IF ref[o]["edge"] = x THEN 1 ELSE 0) - (IF ref[v]["edge"] = x THEN 1 ELSE 0)) + ((IF v = x THEN 1 ELSE 0) - (IF r[o]["version"] = x THEN 1 ELSE 0)))
    <3> DEFINE g == (IF ref[o]["edge"] = x THEN 1 ELSE 0) - (IF ref[v]["edge"] = x THEN 1 ELSE 0)
               h == (IF v = x THEN 1 ELSE 0) - (IF r[o]["version"] = x THEN 1 ELSE 0)
    <3>1. RefGains(r, ref, x, g)
      BY <2>a, <2>c, RefCount
    <3>2. RefGains(ref', r, x, h)
      BY <2>a, <2>d, RefCount
    <3>3. g \in Int /\ h \in Int
      OBVIOUS
    <3> HIDE DEF g, h
    <3>4. RefGains(ref', ref, x, g + h)
      BY <3>1, <3>2, <3>3, RefTwice
    <3> QED
      BY <3>4 DEF g, h
  <2>3. Gains(x, 0)
    BY <1>7, DueSame DEF SaveVersion, counts, claims, values, collector, reclaimer, strings, Build, Ready
  <2>4. strong'[x] = strong[x] + ((0) + (((IF ref[o]["edge"] = x THEN 1 ELSE 0) - (IF ref[v]["edge"] = x THEN 1 ELSE 0)) + ((IF v = x THEN 1 ELSE 0) - (IF r[o]["version"] = x THEN 1 ELSE 0))) + (0))
    BY <1>7, <2>b, <2>f, NoneParts, SMTT(60) DEF SaveVersion, TypeInv
  <2> QED
    BY <2>1, <2>2, <2>3, <2>4, StrongSum
<1>8. ASSUME NEW t \in Threads, NEW o \in Objs, WeakRef(t, o) PROVE StrongOK(x)'
  <2>1. HeldGains(x, 0)
    BY <1>8, HeldSame DEF WeakRef, counts, claims, values, collector, reclaimer, strings, Ready, Bump
  <2>2. RefGains(ref', ref, x, 0)
    BY <1>8, RefSame DEF WeakRef, counts, claims, values, collector, reclaimer, strings, Ready, Bump
  <2>3. Gains(x, 0)
    BY <1>8, DueSame DEF WeakRef, counts, claims, values, collector, reclaimer, strings, Ready, Bump
  <2>4. strong'[x] = strong[x] + ((0) + (0) + (0))
    BY <1>8 DEF WeakRef, counts, claims, values, collector, reclaimer, strings, Ready, Bump, TypeInv
  <2> QED
    BY <2>1, <2>2, <2>3, <2>4, StrongSum
<1>9. ASSUME NEW t \in Threads, NEW o \in Objs, DropWeak(t, o) PROVE StrongOK(x)'
  <2>1. HeldGains(x, 0)
    BY <1>9, HeldSame DEF DropWeak, counts, claims, values, collector, reclaimer, strings, FreedIfLast, Ready, Bump
  <2>2. RefGains(ref', ref, x, 0)
    BY <1>9, RefSame DEF DropWeak, counts, claims, values, collector, reclaimer, strings, FreedIfLast, Ready, Bump
  <2>3. Gains(x, 0)
    BY <1>9, DueSame DEF DropWeak, counts, claims, values, collector, reclaimer, strings, FreedIfLast, Ready, Bump
  <2>4. strong'[x] = strong[x] + ((0) + (0) + (0))
    BY <1>9 DEF DropWeak, counts, claims, values, collector, reclaimer, strings, FreedIfLast, Ready, Bump, TypeInv
  <2> QED
    BY <2>1, <2>2, <2>3, <2>4, StrongSum
<1>10. ASSUME NEW t \in Threads, NEW o \in Objs, StrongRef(t, o) PROVE StrongOK(x)'
  <2>1. HeldGains(x, 0)
    BY <1>10, HeldSame DEF StrongRef, counts, claims, values, collector, reclaimer, strings, Ready
  <2>2. RefGains(ref', ref, x, 0)
    BY <1>10, RefSame DEF StrongRef, counts, claims, values, collector, reclaimer, strings, Ready
  <2>3. Gains(x, 0)
    BY <1>10, StrongRefShape
  <2>4. strong'[x] = strong[x] + ((0) + (0) + (0))
    BY <1>10 DEF StrongRef, counts, claims, values, collector, reclaimer, strings, Ready, TypeInv
  <2> QED
    BY <2>1, <2>2, <2>3, <2>4, StrongSum
<1>11. ASSUME NEW t \in Threads, TryIncRef(t) PROVE StrongOK(x)'
  <2>1. HeldGains(x, 0)
    BY <1>11, HeldSame DEF TryIncRef, counts, claims, values, collector, reclaimer, strings, Bump
  <2>2. RefGains(ref', ref, x, 0)
    BY <1>11, RefSame DEF TryIncRef, counts, claims, values, collector, reclaimer, strings, Bump
  <2>3. Gains(x, IF x = Current(t) /\ strong[x] > 0 THEN 1 ELSE 0)
    BY <1>11, TryIncRefShape
  <2>4. strong'[x] = strong[x] + ((0) + (0) + (IF x = Current(t) /\ strong[x] > 0 THEN 1 ELSE 0))
    BY <1>11 DEF TryIncRef, counts, claims, values, collector, reclaimer, strings, Bump, TypeInv
  <2> QED
    BY <2>1, <2>2, <2>3, <2>4, StrongSum
<1>12. ASSUME NEW t \in Threads, Recheck(t) PROVE StrongOK(x)'
  <2>1. HeldGains(x, IF x = Current(t) /\ linked[x] THEN 1 ELSE 0)
    <3>1. Current(t) \notin held[t]
      BY <1>12, RecheckHere DEF Recheck
    <3>2. CASE linked[Current(t)]
      <4>1. HeldGains(x, IF x = Current(t) THEN 1 ELSE 0)
        BY <1>12, <3>1, <3>2, HeldAdd DEF Recheck, TypeInv
      <4> QED
        BY <4>1, <3>2
    <3>3. CASE ~linked[Current(t)]
      <4>1. HeldGains(x, 0)
        BY <1>12, <3>3, HeldSame DEF Recheck
      <4> QED
        BY <4>1, <3>3
    <3> QED
      BY <3>2, <3>3
  <2>2. RefGains(ref', ref, x, 0)
    BY <1>12, RefSame DEF Recheck, counts, claims, values, collector, reclaimer, strings
  <2>3. Gains(x, IF x = Current(t) /\ linked[x] THEN -1 ELSE 0)
    BY <1>12, RecheckShape
  <2>4. strong'[x] = strong[x] + ((IF x = Current(t) /\ linked[x] THEN 1 ELSE 0) + (0) + (IF x = Current(t) /\ linked[x] THEN -1 ELSE 0))
    BY <1>12 DEF Recheck, counts, claims, values, collector, reclaimer, strings, TypeInv
  <2> QED
    BY <2>1, <2>2, <2>3, <2>4, StrongSum
<1>13. ASSUME NEW t \in Threads, Intern(t) PROVE StrongOK(x)'
  <2>1. HeldGains(x, 0)
    BY <1>13, HeldSame DEF Intern, counts, claims, values, collector, reclaimer, strings, Ready
  <2>2. RefGains(ref', ref, x, 0)
    BY <1>13, RefSame DEF Intern, counts, claims, values, collector, reclaimer, strings, Ready
  <2>3. Gains(x, 0)
    BY <1>13, InternShape
  <2>4. strong'[x] = strong[x] + ((0) + (0) + (0))
    BY <1>13 DEF Intern, counts, claims, values, collector, reclaimer, strings, Ready, TypeInv
  <2> QED
    BY <2>1, <2>2, <2>3, <2>4, StrongSum
<1>14. ASSUME NEW t \in Threads, Lookup(t) PROVE StrongOK(x)'
  <2>1. HeldGains(x, 0)
    BY <1>14, HeldSame DEF Lookup, counts, claims, values, collector, reclaimer, strings, Bump
  <2>2. RefGains(ref', ref, x, 0)
    BY <1>14, RefSame DEF Lookup, counts, claims, values, collector, reclaimer, strings, Bump
  <2>3. Gains(x, IF x = table /\ strong[table] > 0 THEN 1 ELSE 0)
    BY <1>14, LookupShape
  <2>4. strong'[x] = strong[x] + ((0) + (0) + (IF x = table /\ strong[table] > 0 THEN 1 ELSE 0))
    <3>1. CASE Found
      BY <1>14, <3>1, TableType DEF Lookup, Bump, Found, TypeInv
    <3>2. CASE ~Found
      BY <1>14, <3>2, NoneParts DEF Lookup, Found, TypeInv
    <3> QED
      BY <3>1, <3>2
  <2> QED
    BY <2>1, <2>2, <2>3, <2>4, StrongSum
<1>15. ASSUME NEW t \in Threads, NEW s \in Strings, AllocString(t, s) PROVE StrongOK(x)'
  <2>1. HeldGains(x, 0)
    BY <1>15, HeldSame DEF AllocString, counts, claims, values, collector, reclaimer, strings, Build
  <2>2. RefGains(ref', ref, x, 0)
    BY <1>15, RefSame DEF AllocString, counts, claims, values, collector, reclaimer, strings, Build
  <2>3. Gains(x, 0)
    BY <1>15, AllocStringShape
  <2>4. strong'[x] = strong[x] + ((0) + (0) + (0))
    BY <1>15 DEF AllocString, counts, claims, values, collector, reclaimer, strings, Build, TypeInv
  <2> QED
    BY <2>1, <2>2, <2>3, <2>4, StrongSum
<1>16. ASSUME NEW t \in Threads, PublishString(t) PROVE StrongOK(x)'
  <2>1. HeldGains(x, 0)
    BY <1>16, HeldSame DEF PublishString, counts, claims, values, collector, reclaimer, strings
  <2>2. RefGains(ref', ref, x, 0)
    BY <1>16, RefSame DEF PublishString, counts, claims, values, collector, reclaimer, strings
  <2>3. Gains(x, IF table # None /\ strong[table] > 0 THEN (IF x = Current(t) THEN 1 ELSE 0) + (IF x = table THEN 1 ELSE 0) ELSE 0)
    BY <1>16, PublishStringShape
  <2>4. strong'[x] = strong[x] + ((0) + (0) + (IF table # None /\ strong[table] > 0 THEN (IF x = Current(t) THEN 1 ELSE 0) + (IF x = table THEN 1 ELSE 0) ELSE 0))
    <3>1. CASE Found
      <4>1. strong' = [strong EXCEPT ![table] = @ + 1, ![Current(t)] = @ + 1]
        BY <1>16, <3>1 DEF PublishString, Found
      <4>2. table \in Objs /\ Current(t) \in Objs
        BY <1>16, <3>1, TableType, PublishStringShape DEF Found
      <4>3. Current(t) # table
        BY <1>16, PublishNow DEF PublishString
      <4> QED
        BY <4>1, <4>2, <4>3, <3>1, SMTT(60) DEF Found, TypeInv
    <3>2. CASE ~Found
      BY <1>16, <3>2 DEF PublishString, Found, TypeInv
    <3> QED
      BY <3>1, <3>2
  <2> QED
    BY <2>1, <2>2, <2>3, <2>4, StrongSum
<1>17. ASSUME NEW t \in Threads, Own(t) PROVE StrongOK(x)'
  <2>1. HeldGains(x, IF x = Current(t) THEN 1 ELSE 0)
    <3>1. Current(t) \notin held[t]
      BY <1>17, OwnHere DEF Own
    <3> QED
      BY <1>17, <3>1, HeldAdd DEF Own, TypeInv
  <2>2. RefGains(ref', ref, x, 0)
    BY <1>17, RefSame DEF Own, counts, claims, values, collector, reclaimer, strings, Bump
  <2>3. Gains(x, 0)
    BY <1>17, OwnShape
  <2>4. strong'[x] = strong[x] + ((IF x = Current(t) THEN 1 ELSE 0) + (0) + (0))
    BY <1>17 DEF Own, counts, claims, values, collector, reclaimer, strings, Bump, TypeInv
  <2> QED
    BY <2>1, <2>2, <2>3, <2>4, StrongSum
<1>18. ASSUME NEW a \in Actor, DecRef(a) PROVE StrongOK(x)'
  <2>1. HeldGains(x, 0)
    BY <1>18, HeldSame DEF DecRef, counts, claims, values, collector, reclaimer, strings, Bump
  <2>2. RefGains(ref', ref, x, 0)
    BY <1>18, RefSame DEF DecRef, counts, claims, values, collector, reclaimer, strings, Bump
  <2>3. Gains(x, IF x = Current(a) THEN -1 ELSE 0)
    BY <1>18, DecRefShape
  <2>4. strong'[x] = strong[x] + ((0) + (0) + (IF x = Current(a) THEN -1 ELSE 0))
    BY <1>18 DEF DecRef, counts, claims, values, collector, reclaimer, strings, Bump, TypeInv
  <2> QED
    BY <2>1, <2>2, <2>3, <2>4, StrongSum
<1>19. ASSUME NEW a \in Actor, Claim(a) PROVE StrongOK(x)'
  <2>1. HeldGains(x, 0)
    BY <1>19, HeldSame DEF Claim, counts, claims, values, collector, reclaimer, strings
  <2>2. RefGains(ref', ref, x, 0)
    BY <1>19, RefSame DEF Claim, counts, claims, values, collector, reclaimer, strings
  <2>3. Gains(x, 0)
    BY <1>19, ClaimShape
  <2>4. strong'[x] = strong[x] + ((0) + (0) + (0))
    BY <1>19 DEF Claim, counts, claims, values, collector, reclaimer, strings, TypeInv
  <2> QED
    BY <2>1, <2>2, <2>3, <2>4, StrongSum
<1>20. ASSUME NEW a \in Actor, DropOnce(a) PROVE StrongOK(x)'
  <2> DEFINE o == Current(a)
             r == [ref EXCEPT ![o]["edge"] = None]
  <2>a. o \in Objs /\ ref \in RefType /\ "edge" \in Slots /\ "version" \in Slots
    BY <1>20, DropOnceShape DEF TypeInv, RefType, Slots
  <2>b. HeldGains(x, 0)
    BY <1>20, HeldSame DEF DropOnce, counts, claims, values, collector, reclaimer, strings
  <2>c. strong'[x] = strong[x]
    BY <1>20 DEF DropOnce, counts
  <2>d. strong[x] \in Int
    BY DEF TypeInv
  <2>1. CASE dropClaimed[o]
    <3>1. Gains(x, 0)
      BY <1>20, <2>1, DropOnceShape
    <3>2. RefGains(ref', ref, x, 0)
      BY <1>20, <2>1, RefSame DEF DropOnce
    <3> QED
      BY <2>b, <2>c, <2>d, <3>1, <3>2, StrongSum
  <2>2. CASE ~dropClaimed[o]
    <3>0. ref' = [r EXCEPT ![o]["version"] = None]
      BY <1>20, <2>2 DEF DropOnce
    <3>1. Gains(x, (IF x = ref[o]["version"] THEN 1 ELSE 0) + (IF x = ref[o]["edge"] THEN 1 ELSE 0))
      BY <1>20, <2>2, DropOnceShape
    <3>2. Sets(r, ref, o, "edge", None)
      BY <2>a, RefSet
    <3> HIDE DEF r
    <3>3. Sets(ref', r, o, "version", None)
      <4>1. r \in RefType
        BY <3>2 DEF Sets
      <4> QED
        BY <4>1, <2>a, <3>0, RefSet
    <3>4. r[o]["version"] = ref[o]["version"]
      BY <3>2, <2>a DEF Sets
    <3> HIDE DEF o
    <3>5. RefGains(r, ref, x, (IF None = x THEN 1 ELSE 0) - (IF ref[o]["edge"] = x THEN 1 ELSE 0))
      BY <2>a, <3>2, RefCount
    <3>6. RefGains(ref', r, x, (IF None = x THEN 1 ELSE 0) - (IF r[o]["version"] = x THEN 1 ELSE 0))
      BY <2>a, <3>3, RefCount
    <3>7. RefGains(ref', ref, x, ((IF None = x THEN 1 ELSE 0) - (IF ref[o]["edge"] = x THEN 1 ELSE 0))
                                  + ((IF None = x THEN 1 ELSE 0) - (IF r[o]["version"] = x THEN 1 ELSE 0)))
      BY <3>5, <3>6, RefTwice
    <3> QED
      BY <2>b, <2>c, <2>d, <3>1, <3>4, <3>7, StrongSum, NoneParts
  <2> QED
    BY <2>1, <2>2
<1>21. ASSUME NEW a \in Actor, Null(a) PROVE StrongOK(x)'
  <2>1. HeldGains(x, 0)
    BY <1>21, HeldSame DEF Null, counts, claims, values, collector, reclaimer, strings
  <2>2. RefGains(ref', ref, x, 0)
    BY <1>21, RefSame DEF Null, counts, claims, values, collector, reclaimer, strings
  <2>3. Gains(x, 0)
    BY <1>21, NullShape
  <2>4. strong'[x] = strong[x] + ((0) + (0) + (0))
    BY <1>21 DEF Null, counts, claims, values, collector, reclaimer, strings, TypeInv
  <2> QED
    BY <2>1, <2>2, <2>3, <2>4, StrongSum
<1>22. ASSUME NEW a \in Actor, Retire(a) PROVE StrongOK(x)'
  <2>1. HeldGains(x, 0)
    BY <1>22, HeldSame DEF Retire, counts, claims, values, collector, reclaimer, strings
  <2>2. RefGains(ref', ref, x, 0)
    BY <1>22, RefSame DEF Retire, counts, claims, values, collector, reclaimer, strings
  <2>3. Gains(x, 0)
    BY <1>22, RetireShape
  <2>4. strong'[x] = strong[x] + ((0) + (0) + (0))
    BY <1>22 DEF Retire, counts, claims, values, collector, reclaimer, strings, TypeInv
  <2> QED
    BY <2>1, <2>2, <2>3, <2>4, StrongSum
<1>23. ASSUME Mark PROVE StrongOK(x)'
  <2>1. HeldGains(x, 0)
    BY <1>23, HeldSame DEF Mark, counts, claims, values, collector, reclaimer, strings
  <2>2. RefGains(ref', ref, x, 0)
    BY <1>23, RefSame DEF Mark, counts, claims, values, collector, reclaimer, strings
  <2>3. Gains(x, 0)
    BY <1>23, DueSame DEF Mark, counts, claims, values, collector, reclaimer, strings
  <2>4. strong'[x] = strong[x] + ((0) + (0) + (0))
    BY <1>23 DEF Mark, counts, claims, values, collector, reclaimer, strings, TypeInv
  <2> QED
    BY <2>1, <2>2, <2>3, <2>4, StrongSum
<1>24. ASSUME NEW o \in Objs, Trim(o) PROVE StrongOK(x)'
  <2>1. HeldGains(x, 0)
    BY <1>24, HeldSame DEF Trim, counts, claims, values, collector, reclaimer, strings
  <2>2. RefGains(ref', ref, x, (IF None = x THEN 1 ELSE 0) - (IF ref[o]["version"] = x THEN 1 ELSE 0))
    BY <1>24, TrimRef, RefCount DEF Slots
  <2>3. Gains(x, IF x = ref[o]["version"] THEN 1 ELSE 0)
    BY <1>24, TrimShape
  <2>4. strong'[x] = strong[x] + ((0) + ((IF None = x THEN 1 ELSE 0) - (IF ref[o]["version"] = x THEN 1 ELSE 0)) + (IF x = ref[o]["version"] THEN 1 ELSE 0))
    <3>1. strong'[x] = strong[x] /\ strong[x] \in Int
      BY <1>24 DEF Trim, counts, TypeInv
    <3> QED
      BY <3>1, NoneParts
  <2> QED
    BY <2>1, <2>2, <2>3, <2>4, StrongSum
<1>25. ASSUME TrimDone PROVE StrongOK(x)'
  <2>1. HeldGains(x, 0)
    BY <1>25, HeldSame DEF TrimDone, counts, claims, values, collector, reclaimer, strings
  <2>2. RefGains(ref', ref, x, 0)
    BY <1>25, RefSame DEF TrimDone, counts, claims, values, collector, reclaimer, strings
  <2>3. Gains(x, 0)
    BY <1>25, DueSame DEF TrimDone, counts, claims, values, collector, reclaimer, strings
  <2>4. strong'[x] = strong[x] + ((0) + (0) + (0))
    BY <1>25 DEF TrimDone, counts, claims, values, collector, reclaimer, strings, TypeInv
  <2> QED
    BY <2>1, <2>2, <2>3, <2>4, StrongSum
<1>26. ASSUME Sweep PROVE StrongOK(x)'
  <2>1. HeldGains(x, 0)
    BY <1>26, HeldSame DEF Sweep, counts, claims, values, collector, reclaimer, strings
  <2>2. RefGains(ref', ref, x, 0)
    BY <1>26, RefSame DEF Sweep, counts, claims, values, collector, reclaimer, strings
  <2>3. Gains(x, 0)
    BY <1>26, DueSame DEF Sweep, counts, claims, values, collector, reclaimer, strings
  <2>4. strong'[x] = strong[x] + ((0) + (0) + (0))
    BY <1>26 DEF Sweep, counts, claims, values, collector, reclaimer, strings, TypeInv
  <2> QED
    BY <2>1, <2>2, <2>3, <2>4, StrongSum
<1>27. ASSUME Publish PROVE StrongOK(x)'
  <2>1. HeldGains(x, 0)
    BY <1>27, HeldSame DEF Publish, counts, claims, values, collector, reclaimer, strings
  <2>2. RefGains(ref', ref, x, 0)
    BY <1>27, RefSame DEF Publish, counts, claims, values, collector, reclaimer, strings
  <2>3. Gains(x, 0)
    BY <1>27, DueSame DEF Publish, counts, claims, values, collector, reclaimer, strings
  <2>4. strong'[x] = strong[x] + ((0) + (0) + (0))
    BY <1>27 DEF Publish, counts, claims, values, collector, reclaimer, strings, TypeInv
  <2> QED
    BY <2>1, <2>2, <2>3, <2>4, StrongSum
<1>28. ASSUME Drain PROVE StrongOK(x)'
  <2>1. HeldGains(x, 0)
    BY <1>28, HeldSame DEF Drain, counts, claims, values, collector, reclaimer, strings
  <2>2. RefGains(ref', ref, x, 0)
    BY <1>28, RefSame DEF Drain, counts, claims, values, collector, reclaimer, strings
  <2>3. Gains(x, 0)
    BY <1>28, DueSame DEF Drain, counts, claims, values, collector, reclaimer, strings
  <2>4. strong'[x] = strong[x] + ((0) + (0) + (0))
    BY <1>28 DEF Drain, counts, claims, values, collector, reclaimer, strings, TypeInv
  <2> QED
    BY <2>1, <2>2, <2>3, <2>4, StrongSum
<1>29. ASSUME DropNext PROVE StrongOK(x)'
  <2>1. HeldGains(x, 0)
    BY <1>29, HeldSame DEF DropNext, counts, claims, values, collector, reclaimer, strings
  <2>2. RefGains(ref', ref, x, 0)
    BY <1>29, RefSame DEF DropNext, counts, claims, values, collector, reclaimer, strings
  <2>3. Gains(x, 0)
    BY <1>29, DropNextShape
  <2>4. strong'[x] = strong[x] + ((0) + (0) + (0))
    BY <1>29 DEF DropNext, counts, claims, values, collector, reclaimer, strings, TypeInv
  <2> QED
    BY <2>1, <2>2, <2>3, <2>4, StrongSum
<1>30. ASSUME Hold PROVE StrongOK(x)'
  <2>1. HeldGains(x, 0)
    BY <1>30, HeldSame DEF Hold, counts, claims, values, collector, reclaimer, strings
  <2>2. RefGains(ref', ref, x, 0)
    BY <1>30, RefSame DEF Hold, counts, claims, values, collector, reclaimer, strings
  <2>3. Gains(x, 0)
    BY <1>30, DueSame DEF Hold, counts, claims, values, collector, reclaimer, strings
  <2>4. strong'[x] = strong[x] + ((0) + (0) + (0))
    BY <1>30 DEF Hold, counts, claims, values, collector, reclaimer, strings, TypeInv
  <2> QED
    BY <2>1, <2>2, <2>3, <2>4, StrongSum
<1>31. ASSUME DestroyNext PROVE StrongOK(x)'
  <2>1. Head(rest) \in Objs /\ "hidden" \in Slots /\ strong[x] \in Int /\ strong'[x] = strong[x]
    BY <1>31, DestroyRef DEF Slots, TypeInv, DestroyNext, counts
  <2>2. HeldGains(x, 0)
    BY <1>31, HeldSame DEF DestroyNext
  <2>3. CASE Head(rest) \in Actors
    <3>1. Gains(x, 0) /\ RefGains(ref', ref, x, 0)
      BY <1>31, <2>3, DueSame, RefSame DEF DestroyNext
    <3> QED
      BY <2>1, <2>2, <3>1, StrongSum
  <2>4. CASE Head(rest) \notin Actors
    <3>1. Gains(x, IF x = ref[Head(rest)]["hidden"] THEN 1 ELSE 0)
      BY <1>31, <2>4, DestroyShape
    <3>2. RefGains(ref', ref, x, (IF None = x THEN 1 ELSE 0) - (IF ref[Head(rest)]["hidden"] = x THEN 1 ELSE 0))
      BY <1>31, <2>1, <2>4, DestroyRef, RefCount
    <3> QED
      BY <2>1, <2>2, <3>1, <3>2, StrongSum, NoneParts
  <2> QED
    BY <2>3, <2>4
<1>32. ASSUME NEW a \in Actor, Unweak(a) PROVE StrongOK(x)'
  <2>1. HeldGains(x, 0)
    BY <1>32, HeldSame DEF Unweak, counts, claims, values, collector, reclaimer, strings, FreedIfLast, Bump
  <2>2. RefGains(ref', ref, x, 0)
    BY <1>32, RefSame DEF Unweak, counts, claims, values, collector, reclaimer, strings, FreedIfLast, Bump
  <2>3. Gains(x, 0)
    BY <1>32, UnweakShape
  <2>4. strong'[x] = strong[x] + ((0) + (0) + (0))
    BY <1>32 DEF Unweak, counts, claims, values, collector, reclaimer, strings, FreedIfLast, Bump, TypeInv
  <2> QED
    BY <2>1, <2>2, <2>3, <2>4, StrongSum
<1>33. ASSUME ReleaseHolds PROVE StrongOK(x)'
  <2>1. HeldGains(x, 0)
    BY <1>33, HeldSame DEF ReleaseHolds, counts, claims, values, collector, reclaimer, strings
  <2>2. RefGains(ref', ref, x, 0)
    BY <1>33, RefSame DEF ReleaseHolds, counts, claims, values, collector, reclaimer, strings
  <2>3. Gains(x, 0)
    BY <1>33, DueSame DEF ReleaseHolds, counts, claims, values, collector, reclaimer, strings
  <2>4. strong'[x] = strong[x] + ((0) + (0) + (0))
    BY <1>33 DEF ReleaseHolds, counts, claims, values, collector, reclaimer, strings, TypeInv
  <2> QED
    BY <2>1, <2>2, <2>3, <2>4, StrongSum
<1>34. ASSUME NEW o \in Actors, FinalizeActor(o) PROVE StrongOK(x)'
  <2>1. HeldGains(x, 0)
    BY <1>34, HeldSame DEF FinalizeActor, counts, claims, values, collector, reclaimer, strings, Bump
  <2>2. RefGains(ref', ref, x, 0)
    BY <1>34, RefSame DEF FinalizeActor, counts, claims, values, collector, reclaimer, strings, Bump
  <2>3. Gains(x, 0)
    BY <1>34, DueSame DEF FinalizeActor, counts, claims, values, collector, reclaimer, strings, Bump
  <2>4. strong'[x] = strong[x] + ((0) + (0) + (0))
    BY <1>34 DEF FinalizeActor, counts, claims, values, collector, reclaimer, strings, Bump, TypeInv
  <2> QED
    BY <2>1, <2>2, <2>3, <2>4, StrongSum
<1>35. ASSUME UNCHANGED vars PROVE StrongOK(x)'
  <2>1. HeldGains(x, 0)
    BY <1>35, HeldSame DEF vars, counts, claims, values, collector, reclaimer, strings
  <2>2. RefGains(ref', ref, x, 0)
    BY <1>35, RefSame DEF vars, counts, claims, values, collector, reclaimer, strings
  <2>3. Gains(x, 0)
    BY <1>35, DueSame DEF vars, counts, claims, values, collector, reclaimer, strings
  <2>4. strong'[x] = strong[x] + ((0) + (0) + (0))
    BY <1>35 DEF vars, counts, claims, values, collector, reclaimer, strings, TypeInv
  <2> QED
    BY <2>1, <2>2, <2>3, <2>4, StrongSum
<1> QED
  BY <1>0, <1>1, <1>2, <1>3, <1>4, <1>5, <1>6, <1>7, <1>8, <1>9, <1>10, <1>11, <1>12, <1>13,
      <1>14, <1>15, <1>16, <1>17, <1>18, <1>19, <1>20, <1>21, <1>22, <1>23, <1>24, <1>25, <1>26,
      <1>27, <1>28, <1>29, <1>30, <1>31, <1>32, <1>33, <1>34, <1>35, StepKinds

-----------------------------------------------------------------------------
(* What the invariant says of a state. *)

(* Whoever has an owner has a count. *)
LEMMA Owned ==
  ASSUME TypeInv, StrongInv, NEW o \in Objs
  PROVE  /\ strong[o] \in Nat
         /\ \A t \in Threads : o \in held[t] => strong[o] >= 1
         /\ \A q \in Objs, k \in Slots : ref[q][k] = o => strong[o] >= 1
         /\ \A a \in Actor, n \in Nat : Owes(todo, a, n, o) => strong[o] >= 1
<1>1. /\ IsFiniteSet(HeldBy(o)) /\ IsFiniteSet(RefBy(o)) /\ IsFiniteSet(Due(todo, o))
      /\ strong[o] = Cardinality(HeldBy(o)) + Cardinality(RefBy(o)) + Cardinality(Due(todo, o))
  BY DEF StrongInv, StrongOK
<1>2. /\ Cardinality(HeldBy(o)) \in Nat /\ Cardinality(RefBy(o)) \in Nat
      /\ Cardinality(Due(todo, o)) \in Nat
  BY <1>1, FS_CardinalityType
<1>3. /\ Cardinality(HeldBy(o)) = 0 => HeldBy(o) = {}
      /\ Cardinality(RefBy(o)) = 0 => RefBy(o) = {}
      /\ Cardinality(Due(todo, o)) = 0 => Due(todo, o) = {}
  BY <1>1, FS_EmptySet
<1>4. ASSUME NEW t \in Threads, o \in held[t] PROVE strong[o] >= 1
  <2>1. HeldBy(o) # {}
    BY <1>4 DEF HeldBy
  <2> QED
    BY <2>1, <1>1, <1>2, <1>3
<1>5. ASSUME NEW q \in Objs, NEW k \in Slots, ref[q][k] = o PROVE strong[o] >= 1
  <2>1. <<q, k>> \in RefBy(o)
    BY <1>5 DEF RefBy, RefIn
  <2> QED
    BY <2>1, <1>1, <1>2, <1>3
<1>6. ASSUME NEW a \in Actor, NEW n \in Nat, Owes(todo, a, n, o) PROVE strong[o] >= 1
  <2>1. <<a, n>> \in Due(todo, o)
    BY <1>6, DueMember
  <2> QED
    BY <2>1, <1>1, <1>2, <1>3
<1> QED
  BY <1>1, <1>2, <1>4, <1>5, <1>6

(* A release still to come is an owner. *)
LEMMA OwnedBy ==
  ASSUME TypeInv, StrongInv, NEW a \in Actor, NEW n \in 1 .. Count(a), NEW o \in Objs,
         Step(a, n).op \in {"dec", "recheck"}, Step(a, n).obj = o
  PROVE  strong[o] >= 1
<1>1. Owes(todo, a, n, o) /\ n \in Nat
  BY CntType DEF Owes, Owning, Step, Count, TypeInv
<1> QED
  BY <1>1, Owned

(* Who has a count is live or on its way through the reclaimer. *)
LEMMA Unowned ==
  ASSUME TypeInv, StrongInv, HeldInv, RefInv, DecInv, NEW o \in Objs, strong[o] # 0
  PROVE  Live(o) \/ Waiting(o)
<1>1. /\ IsFiniteSet(HeldBy(o)) /\ IsFiniteSet(RefBy(o)) /\ IsFiniteSet(Due(todo, o))
      /\ strong[o] = Cardinality(HeldBy(o)) + Cardinality(RefBy(o)) + Cardinality(Due(todo, o))
  BY DEF StrongInv, StrongOK
<1>2. Cardinality({}) = 0
  BY FS_EmptySet
<1>3. HeldBy(o) # {} \/ RefBy(o) # {} \/ Due(todo, o) # {}
  BY <1>1, <1>2
<1>4. CASE HeldBy(o) # {}
  BY <1>4 DEF HeldBy, HeldInv
<1>5. CASE RefBy(o) # {}
  <2>1. PICK q \in Objs, k \in Slots : ref[q][k] = o
    BY <1>5 DEF RefBy, RefIn
  <2> QED
    BY <2>1, NoneParts DEF RefInv, RefOK
<1>6. CASE Due(todo, o) # {}
  <2>1. PICK a \in Actor, n \in Nat : Owes(todo, a, n, o)
    BY <1>6 DEF Due
  <2>2. n \in 1 .. Count(a) /\ Step(a, n).op \in {"dec", "recheck"} /\ Step(a, n).obj = o
    BY <2>1 DEF Owes, Owning, Step, Count
  <2>3. DecOK(a, n)
    BY <2>2 DEF DecInv
  <2> QED
    BY <2>2, <2>3 DEF DecOK
<1> QED
  BY <1>3, <1>4, <1>5, <1>6

(* Nobody owns what was not built. *)
LEMMA NotBuilt ==
  ASSUME TypeInv, StrongInv, HeldInv, RefInv, DecInv, LinkInv, NEW o \in Objs, phase[o] = "none"
  PROVE  strong[o] = 0 /\ ~collecting[o]
<1>1. ~collecting[o]
  BY DEF LinkInv, LinkOK
<1> QED
  BY <1>1, Unowned DEF Live, Waiting

(* A claim is about to be made. *)
LEMMA ClaimHere ==
  ASSUME TypeInv, NameInv, ClaimsInv, NEW a \in Actor, Doing(a, "claim")
  PROVE  /\ Current(a) \in Objs /\ strong[Current(a)] = 0
         /\ Live(Current(a)) \/ (a = Rec /\ Waiting(Current(a)))
         /\ \A b \in Actor : \A m \in 1 .. Count(b) : Has(b, m, "claim", Current(a)) => b = a
<1>1. ClaimOK(a, Count(a)) /\ Step(a, Count(a)).op = "claim" /\ Step(a, Count(a)).obj = Current(a)
  BY Here DEF ClaimsInv
<1>2. Current(a) \in Objs
  BY CurrentType
<1> QED
  BY <1>1, <1>2 DEF ClaimOK

(* A decrement is about to be made. *)
LEMMA DecHere ==
  ASSUME TypeInv, NameInv, StrongInv, DecInv, NEW a \in Actor, Doing(a, "dec")
  PROVE  /\ Current(a) \in Objs /\ strong[Current(a)] \in Nat /\ strong[Current(a)] >= 1
         /\ Live(Current(a)) \/ (a = Rec /\ Waiting(Current(a)))
<1>1. /\ Count(a) \in 1 .. Count(a) /\ DecOK(a, Count(a))
      /\ Step(a, Count(a)).op = "dec" /\ Step(a, Count(a)).obj = Current(a)
  BY Here DEF DecInv
<1>2. Current(a) \in Objs
  BY CurrentType
<1> QED
  BY <1>1, <1>2, Owned, OwnedBy DEF DecOK

(* An object is about to be retired. *)
LEMMA RetireHere ==
  ASSUME TypeInv, NameInv, RetireInv, NEW a \in Actor, Doing(a, "retire")
  PROVE  /\ Current(a) \in Objs /\ Dead(Current(a)) /\ strong[Current(a)] = 0 /\ Retiring(Current(a))
         /\ \A b \in Actor : \A m \in 1 .. Count(b) :
              Has(b, m, "retire", Current(a)) => b = a /\ m = Count(a)
<1>1. /\ RetireOK(a, Count(a)) /\ Step(a, Count(a)).op = "retire" /\ Step(a, Count(a)).obj = Current(a)
      /\ Count(a) \in 1 .. Count(a)
  BY Here DEF RetireInv
<1>2. Current(a) \in Objs
  BY CurrentType
<1> QED
  BY <1>1, <1>2 DEF RetireOK, Retiring, Has

(* Who is being retired is dead, has no owner, and is in no list. *)
LEMMA RetiringParts ==
  ASSUME TypeInv, RetireInv, PlaceInv, NEW o \in Objs, Retiring(o)
  PROVE  /\ Dead(o) /\ strong[o] = 0
         /\ ~Queued(o) /\ ~Swept(o) /\ ~InBatch(o) /\ o \notin finalize
<1>1. PICK a \in Actor : \E n \in 1 .. Count(a) : Has(a, n, "retire", o)
  BY DEF Retiring
<1>3. PICK n \in 1 .. Count(a) : Has(a, n, "retire", o)
  BY <1>1
<1>2. RetireOK(a, n) /\ Step(a, n).op = "retire" /\ Step(a, n).obj = o
  BY <1>3 DEF RetireInv, Has
<1> QED
  BY <1>2 DEF RetireOK, PlaceInv, PlaceOK

(* A pointer is about to be nulled. *)
LEMMA NullHere ==
  ASSUME TypeInv, NameInv, RetireInv, NEW a \in Actor, Doing(a, "null")
  PROVE  Current(a) \in Objs /\ Retiring(Current(a))
<1>1. /\ RetireOK(a, Count(a)) /\ Step(a, Count(a)).op = "null" /\ Step(a, Count(a)).obj = Current(a)
  BY Here DEF RetireInv
<1>2. Current(a) \in Objs
  BY CurrentType
<1> QED
  BY <1>1, <1>2 DEF RetireOK, Retiring, Has

(* References are about to be dropped. *)
LEMMA DropOnceHere ==
  ASSUME TypeInv, NameInv, RetireInv, NEW a \in Actor, Doing(a, "dropOnce")
  PROVE  /\ Current(a) \in Objs
         /\ \/ Retiring(Current(a))
            \/ /\ a = Rec /\ Count(a) = 1 /\ rec = "drop" /\ InBatch(Current(a)) /\ ~ToVisit(Current(a))
<1>1. /\ RetireOK(a, Count(a)) /\ Step(a, Count(a)).op = "dropOnce" /\ Step(a, Count(a)).obj = Current(a)
  BY Here DEF RetireInv
<1>2. Current(a) \in Objs
  BY CurrentType
<1>3. ASSUME Has(a, Count(a) - 1, "null", Current(a)) PROVE Retiring(Current(a))
  <2>1. /\ Count(a) - 1 \in 1 .. Count(a) /\ Step(a, Count(a) - 1).op = "null"
        /\ Step(a, Count(a) - 1).obj = Current(a)
    BY <1>3 DEF Has
  <2>2. Has(a, (Count(a) - 1) - 1, "retire", Current(a))
    BY <2>1 DEF RetireInv, RetireOK
  <2> QED
    BY <2>2 DEF Retiring, Has
<1> QED
  BY <1>1, <1>2, <1>3 DEF RetireOK

(* A destructor has run. *)
LEMMA UnweakHere ==
  ASSUME TypeInv, NameInv, UnweakInv, NEW a \in Actor, Doing(a, "unweak")
  PROVE  /\ Current(a) \in Objs /\ a = Rec /\ Count(a) = 1 /\ rec = "destroy"
         /\ phase[Current(a)] = "destroyed" /\ InBatch(Current(a))
<1>1. /\ UnweakOK(a, Count(a)) /\ Step(a, Count(a)).op = "unweak" /\ Step(a, Count(a)).obj = Current(a)
  BY Here DEF UnweakInv
<1>2. Current(a) \in Objs
  BY CurrentType
<1> QED
  BY <1>1, <1>2 DEF UnweakOK

(* A weak Value is about to be promoted. *)
LEMMA TryHere ==
  ASSUME TypeInv, NameInv, ThreadInv, NEW t \in Threads, Doing(t, "try")
  PROVE  /\ Current(t) \in Objs /\ Count(t) = 1 /\ Current(t) \in weakHeld[t]
         /\ Current(t) \notin held[t]
         /\ Live(Current(t)) \/ strong[Current(t)] = 0
<1>0. t \in Actor
  BY ActorParts
<1>1. /\ ThreadOK(t, Count(t)) /\ Step(t, Count(t)).op = "try" /\ Step(t, Count(t)).obj = Current(t)
  BY <1>0, Here DEF ThreadInv
<1>2. Current(t) \in Objs
  BY <1>0, CurrentType
<1> QED
  BY <1>1, <1>2 DEF ThreadOK

(* Who has a weak Value is not freed, and does not own the last count of a *)
(* built block.                                                            *)
LEMMA WeakParts ==
  ASSUME TypeInv, WeakInv, NEW t \in Threads, NEW o \in weakHeld[t]
  PROVE  /\ o \in Objs /\ weak[o] >= 1 /\ weak[o] = Cardinality(WeakBy(o)) + Shared(o) + Kept(o)
         /\ Cardinality(WeakBy(o)) \in Nat \ {0} /\ phase[o] \notin {"none", "freed"}
<1>1. o \in Objs
  BY DEF TypeInv
<1>2. WeakOK(o)
  BY <1>1 DEF WeakInv
<1>3. WeakBy(o) # {}
  BY DEF WeakBy
<1>4. Cardinality(WeakBy(o)) \in Nat \ {0}
  BY <1>2, <1>3, FS_CardinalityType, FS_EmptySet DEF WeakOK
<1> QED
  BY <1>1, <1>2, <1>4 DEF WeakOK, Shared, Kept

(* The string found in the table is live. *)
LEMMA FoundLive ==
  ASSUME TypeInv, TableInv, Found
  PROVE  table \in Strings /\ table \in Objs /\ Live(table)
BY NoneParts DEF Found, TableInv, Live, TypeInv

-----------------------------------------------------------------------------
(* What a step may do to one object. *)

Ends(x) ==
  \/ phase[x] = "built" /\ phase'[x] = "destroyed" /\ DestroyNext /\ x = Head(rest) /\ x \notin Actors
  \/ phase[x] = "built" /\ phase'[x] \in {"destroyed", "freed"} /\ x \in Actors /\ FinalizeActor(x)
  \/ phase[x] = "destroyed" /\ phase'[x] = "freed" /\ weak[x] = 1

Born(x) == phase[x] = "none" /\ phase'[x] = "built"

Dies(x) ==
  /\ ~collecting[x] /\ collecting'[x]
  /\ (\E a \in Actor : Claim(a) /\ x = Current(a)) \/ (Sweep /\ x \in Unmarked)

(* What a block was before its last weak count went. *)
LEMMA LastWeak ==
  ASSUME TypeInv, WeakInv, NEW o \in Objs, weak[o] = 1
  PROVE  /\ \A t \in Threads : o \in weakHeld[t] => phase[o] = "destroyed"
         /\ Unweaking(o) => phase[o] \notin {"none", "freed"}
<1>1. ASSUME NEW t \in Threads, o \in weakHeld[t] PROVE phase[o] = "destroyed"
  <2>1. /\ 1 = Cardinality(WeakBy(o)) + Shared(o) + Kept(o)
        /\ Cardinality(WeakBy(o)) \in Nat \ {0} /\ phase[o] \notin {"none", "freed"}
    BY <1>1, WeakParts
  <2> QED
    BY <2>1 DEF Shared, Kept, TypeInv
<1>2. phase[o] \notin {"none", "freed"}
  BY DEF WeakInv, WeakOK
<1> QED
  BY <1>1, <1>2

(* Members of lists. *)
LEMMA HeadIn ==
  ASSUME NEW s \in Seq(Objs), s # <<>>
  PROVE  Head(s) \in ToSet(s) /\ ToSet(Tail(s)) \subseteq ToSet(s) /\ ToSet(s) = {Head(s)} \cup ToSet(Tail(s))
<1>1. Len(s) \in Nat \ {0} /\ Head(s) = s[1] /\ DOMAIN s = 1 .. Len(s)
  OBVIOUS
<1>2. /\ DOMAIN Tail(s) = 1 .. Len(s) - 1
      /\ \A i \in 1 .. Len(s) - 1 : Tail(s)[i] = s[i + 1]
  OBVIOUS
<1>3. \A i \in 1 .. Len(s) : i = 1 \/ (i - 1 \in 1 .. Len(s) - 1 /\ s[i] = Tail(s)[i - 1])
  BY <1>1, <1>2
<1>4. ToSet(Tail(s)) \subseteq ToSet(s)
  BY <1>1, <1>2 DEF ToSet
<1>5. ToSet(s) \subseteq {Head(s)} \cup ToSet(Tail(s))
  <2>1. ASSUME NEW i \in 1 .. Len(s) PROVE s[i] \in {Head(s)} \cup ToSet(Tail(s))
    <3>1. CASE i = 1
      BY <3>1, <1>1
    <3>2. CASE i - 1 \in 1 .. Len(s) - 1 /\ s[i] = Tail(s)[i - 1]
      <4>1. Tail(s)[i - 1] \in ToSet(Tail(s))
        BY <3>2, <1>2 DEF ToSet
      <4> QED
        BY <4>1, <3>2
    <3> QED
      BY <1>3, <3>1, <3>2
  <2> QED
    BY <2>1, <1>1 DEF ToSet
<1>6. Head(s) \in ToSet(s)
  BY <1>1 DEF ToSet
<1> QED
  BY <1>4, <1>5, <1>6

(* The members of two lists joined. *)
LEMMA JoinIn ==
  ASSUME NEW s \in Seq(Objs), NEW t \in Seq(Objs)
  PROVE  ToSet(s \o t) = ToSet(s) \cup ToSet(t)
<1>1. /\ DOMAIN s = 1 .. Len(s) /\ DOMAIN t = 1 .. Len(t) /\ Len(s) \in Nat /\ Len(t) \in Nat
      /\ DOMAIN (s \o t) = 1 .. Len(s) + Len(t)
  OBVIOUS
<1>2. \A i \in 1 .. Len(s) + Len(t) : (s \o t)[i] = IF i <= Len(s) THEN s[i] ELSE t[i - Len(s)]
  OBVIOUS
<1>3. ToSet(s \o t) \subseteq ToSet(s) \cup ToSet(t)
  BY <1>1, <1>2 DEF ToSet
<1>4. ToSet(s) \subseteq ToSet(s \o t)
  BY <1>1, <1>2 DEF ToSet
<1>5. ASSUME NEW i \in 1 .. Len(t) PROVE t[i] \in ToSet(s \o t)
  <2>1. i + Len(s) \in 1 .. Len(s) + Len(t) /\ (s \o t)[i + Len(s)] = t[i]
    BY <1>1, <1>2
  <2> QED
    BY <2>1, <1>1 DEF ToSet
<1> QED
  BY <1>1, <1>3, <1>4, <1>5 DEF ToSet

(* The members of a list with one more at its end. *)
LEMMA AppendIn ==
  ASSUME NEW s \in Seq(Objs), NEW o \in Objs
  PROVE  ToSet(Append(s, o)) = ToSet(s) \cup {o}
<1>1. /\ DOMAIN s = 1 .. Len(s) /\ Len(s) \in Nat /\ DOMAIN Append(s, o) = 1 .. Len(s) + 1
  OBVIOUS
<1>2. \A i \in 1 .. Len(s) + 1 : Append(s, o)[i] = IF i <= Len(s) THEN s[i] ELSE o
  OBVIOUS
<1>3. Append(s, o)[Len(s) + 1] = o
  BY <1>1, <1>2
<1> QED
  BY <1>1, <1>2, <1>3 DEF ToSet

(* The empty list has no members. *)
LEMMA EmptyIn ==
  ToSet(<<>>) = {}
BY DEF ToSet

(* Lists in which nothing is twice. *)
Once(s) == \A i, j \in DOMAIN s : s[i] = s[j] => i = j

(* A list without repetition, without its head. *)
LEMMA TailOnce ==
  ASSUME NEW s \in Seq(Objs), s # <<>>, Once(s)
  PROVE  Once(Tail(s)) /\ Head(s) \notin ToSet(Tail(s))
<1>1. Len(s) \in Nat \ {0} /\ Head(s) = s[1] /\ DOMAIN s = 1 .. Len(s)
  OBVIOUS
<1>2. /\ DOMAIN Tail(s) = 1 .. Len(s) - 1
      /\ \A i \in 1 .. Len(s) - 1 : Tail(s)[i] = s[i + 1] /\ i + 1 \in 1 .. Len(s) /\ i + 1 # 1
  OBVIOUS
<1>3. Head(s) \notin ToSet(Tail(s))
  BY <1>1, <1>2 DEF Once, ToSet
<1>4. Once(Tail(s))
  BY <1>1, <1>2 DEF Once
<1> QED
  BY <1>3, <1>4

(* Two lists without repetition and without common members, joined. *)
LEMMA JoinOnce ==
  ASSUME NEW s \in Seq(Objs), NEW t \in Seq(Objs), Once(s), Once(t), ToSet(s) \cap ToSet(t) = {}
  PROVE  Once(s \o t)
<1>1. /\ DOMAIN s = 1 .. Len(s) /\ DOMAIN t = 1 .. Len(t) /\ Len(s) \in Nat /\ Len(t) \in Nat
      /\ DOMAIN (s \o t) = 1 .. Len(s) + Len(t)
  OBVIOUS
<1>2. \A i \in 1 .. Len(s) + Len(t) : (s \o t)[i] = IF i <= Len(s) THEN s[i] ELSE t[i - Len(s)]
  OBVIOUS
<1>3. \A i \in 1 .. Len(s) : s[i] \in ToSet(s)
  BY <1>1 DEF ToSet
<1>4. \A i \in 1 .. Len(t) : t[i] \in ToSet(t)
  BY <1>1 DEF ToSet
<1>5. ASSUME NEW i \in 1 .. Len(s) + Len(t), NEW j \in 1 .. Len(s) + Len(t), (s \o t)[i] = (s \o t)[j]
      PROVE  i = j
  <2>1. CASE i <= Len(s) /\ j <= Len(s)
    BY <2>1, <1>1, <1>2, <1>5 DEF Once
  <2>2. CASE i > Len(s) /\ j > Len(s)
    <3>1. i - Len(s) \in 1 .. Len(t) /\ j - Len(s) \in 1 .. Len(t)
      BY <2>2, <1>1
    <3>2. t[i - Len(s)] = t[j - Len(s)]
      BY <2>2, <1>1, <1>2, <1>5
    <3> QED
      BY <3>1, <3>2, <1>1 DEF Once
  <2>3. CASE i <= Len(s) /\ j > Len(s)
    BY <2>3, <1>1, <1>2, <1>3, <1>4, <1>5
  <2>4. CASE i > Len(s) /\ j <= Len(s)
    BY <2>4, <1>1, <1>2, <1>3, <1>4, <1>5
  <2> QED
    BY <1>1, <2>1, <2>2, <2>3, <2>4
<1> QED
  BY <1>1, <1>5 DEF Once

(* A list without repetition, with a new member at its end. *)
LEMMA AppendOnce ==
  ASSUME NEW s \in Seq(Objs), NEW o \in Objs, Once(s), o \notin ToSet(s)
  PROVE  Once(Append(s, o))
<1>1. /\ DOMAIN s = 1 .. Len(s) /\ Len(s) \in Nat /\ DOMAIN Append(s, o) = 1 .. Len(s) + 1
  OBVIOUS
<1>2. \A i \in 1 .. Len(s) + 1 : Append(s, o)[i] = IF i <= Len(s) THEN s[i] ELSE o
  OBVIOUS
<1>3. \A i \in 1 .. Len(s) : s[i] # o
  BY <1>1 DEF ToSet
<1> QED
  BY <1>1, <1>2, <1>3 DEF Once

(* Blocks are built, destroyed and freed, in this order. *)
LEMMA PhaseStep ==
  ASSUME TypeInv, NameInv, StrongInv, WeakInv, LinkInv, PlaceInv, BatchInv, RefInv, HeldInv,
         DecInv, ClaimsInv, RetireInv, ThreadInv, StringInv, UnweakInv, MarkInv, PhaseInv,
         TableInv, NEW x \in Objs, [Next]_vars
  PROVE  phase'[x] = phase[x] \/ Born(x) \/ Ends(x)
<1>0. world.threads \subseteq Threads
  BY WorldThreads
<1>1. ASSUME NEW t \in Threads, NEW o \in Objs, New(t, o)
      PROVE  phase'[x] = phase[x] \/ Born(x) \/ Ends(x)
  BY <1>1, NoneParts DEF New, Build, Born, TypeInv
<1>2. ASSUME NEW t \in Threads, NEW u \in Threads, NEW o \in Objs, Share(t, u, o)
      PROVE  phase'[x] = phase[x] \/ Born(x) \/ Ends(x)
  BY <1>2 DEF Share
<1>3. ASSUME NEW t \in Threads, NEW o \in Objs, Drop(t, o)
      PROVE  phase'[x] = phase[x] \/ Born(x) \/ Ends(x)
  BY <1>3 DEF Drop
<1>4. ASSUME NEW t \in Threads, NEW o \in Objs, NEW k \in Slots, NEW p \in Objs, Store(t, o, k, p)
      PROVE  phase'[x] = phase[x] \/ Born(x) \/ Ends(x)
  BY <1>4 DEF Store
<1>5. ASSUME NEW t \in Threads, Put(t) PROVE phase'[x] = phase[x] \/ Born(x) \/ Ends(x)
  BY <1>5 DEF Put
<1>6. ASSUME NEW t \in Threads, NEW o \in Objs, NEW k \in Slots, Load(t, o, k)
      PROVE  phase'[x] = phase[x] \/ Born(x) \/ Ends(x)
  BY <1>6 DEF Load
<1>7. ASSUME NEW t \in Threads, NEW o \in Objs, NEW v \in Versions, SaveVersion(t, o, v)
      PROVE  phase'[x] = phase[x] \/ Born(x) \/ Ends(x)
  BY <1>7, NoneParts DEF SaveVersion, Build, Born, TypeInv
<1>8. ASSUME NEW t \in Threads, NEW o \in Objs, WeakRef(t, o)
      PROVE  phase'[x] = phase[x] \/ Born(x) \/ Ends(x)
  BY <1>8 DEF WeakRef
<1>9. ASSUME NEW t \in Threads, NEW o \in Objs, DropWeak(t, o)
      PROVE  phase'[x] = phase[x] \/ Born(x) \/ Ends(x)
  BY <1>9, LastWeak DEF DropWeak, FreedIfLast, Ends, TypeInv
<1>10. ASSUME NEW t \in Threads, NEW o \in Objs, StrongRef(t, o)
      PROVE  phase'[x] = phase[x] \/ Born(x) \/ Ends(x)
  BY <1>10 DEF StrongRef
<1>11. ASSUME NEW t \in Threads, TryIncRef(t) PROVE phase'[x] = phase[x] \/ Born(x) \/ Ends(x)
  BY <1>11 DEF TryIncRef
<1>12. ASSUME NEW t \in Threads, Recheck(t) PROVE phase'[x] = phase[x] \/ Born(x) \/ Ends(x)
  BY <1>12 DEF Recheck
<1>13. ASSUME NEW t \in Threads, Intern(t) PROVE phase'[x] = phase[x] \/ Born(x) \/ Ends(x)
  BY <1>13 DEF Intern
<1>14. ASSUME NEW t \in Threads, Lookup(t) PROVE phase'[x] = phase[x] \/ Born(x) \/ Ends(x)
  BY <1>14 DEF Lookup
<1>15. ASSUME NEW t \in Threads, NEW s \in Strings, AllocString(t, s)
      PROVE  phase'[x] = phase[x] \/ Born(x) \/ Ends(x)
  BY <1>15, NoneParts DEF AllocString, Build, Born, TypeInv
<1>16. ASSUME NEW t \in Threads, PublishString(t) PROVE phase'[x] = phase[x] \/ Born(x) \/ Ends(x)
  BY <1>16 DEF PublishString
<1>17. ASSUME NEW t \in Threads, Own(t) PROVE phase'[x] = phase[x] \/ Born(x) \/ Ends(x)
  BY <1>17 DEF Own
<1>18. ASSUME NEW a \in Actor, DecRef(a) PROVE phase'[x] = phase[x] \/ Born(x) \/ Ends(x)
  BY <1>18 DEF DecRef
<1>19. ASSUME NEW a \in Actor, Claim(a) PROVE phase'[x] = phase[x] \/ Born(x) \/ Ends(x)
  BY <1>19 DEF Claim
<1>20. ASSUME NEW a \in Actor, DropOnce(a) PROVE phase'[x] = phase[x] \/ Born(x) \/ Ends(x)
  BY <1>20 DEF DropOnce
<1>21. ASSUME NEW a \in Actor, Null(a) PROVE phase'[x] = phase[x] \/ Born(x) \/ Ends(x)
  BY <1>21 DEF Null
<1>22. ASSUME NEW a \in Actor, Retire(a) PROVE phase'[x] = phase[x] \/ Born(x) \/ Ends(x)
  BY <1>22 DEF Retire
<1>23. ASSUME Mark PROVE phase'[x] = phase[x] \/ Born(x) \/ Ends(x)
  BY <1>23 DEF Mark
<1>24. ASSUME NEW o \in Objs, Trim(o) PROVE phase'[x] = phase[x] \/ Born(x) \/ Ends(x)
  BY <1>24 DEF Trim
<1>25. ASSUME TrimDone PROVE phase'[x] = phase[x] \/ Born(x) \/ Ends(x)
  BY <1>25 DEF TrimDone
<1>26. ASSUME Sweep PROVE phase'[x] = phase[x] \/ Born(x) \/ Ends(x)
  BY <1>26 DEF Sweep
<1>27. ASSUME Publish PROVE phase'[x] = phase[x] \/ Born(x) \/ Ends(x)
  BY <1>27 DEF Publish
<1>28. ASSUME Drain PROVE phase'[x] = phase[x] \/ Born(x) \/ Ends(x)
  BY <1>28 DEF Drain
<1>29. ASSUME DropNext PROVE phase'[x] = phase[x] \/ Born(x) \/ Ends(x)
  BY <1>29 DEF DropNext
<1>30. ASSUME Hold PROVE phase'[x] = phase[x] \/ Born(x) \/ Ends(x)
  BY <1>30 DEF Hold
<1>31. ASSUME DestroyNext PROVE phase'[x] = phase[x] \/ Born(x) \/ Ends(x)
  <2>1. Head(rest) \in Objs /\ ToVisit(Head(rest))
    BY <1>31, HeadIn DEF DestroyNext, ToVisit, TypeInv
  <2>2. phase[Head(rest)] = "built"
    BY <2>1 DEF BatchInv, BatchOK, Dead
  <2> QED
    BY <1>31, <2>1, <2>2 DEF DestroyNext, Destroy, Ends, TypeInv
<1>32. ASSUME NEW a \in Actor, Unweak(a) PROVE phase'[x] = phase[x] \/ Born(x) \/ Ends(x)
  BY <1>32, UnweakHere DEF Unweak, FreedIfLast, Ends, TypeInv
<1>33. ASSUME ReleaseHolds PROVE phase'[x] = phase[x] \/ Born(x) \/ Ends(x)
  <2>1. CASE InBatch(x) /\ weak[x] = 1
    <3>1. phase[x] # "built"
      <4> SUFFICES ASSUME phase[x] = "built" PROVE FALSE
        OBVIOUS
      <4>1. WeakOK(x)
        BY DEF WeakInv
      <4>2. Cardinality(WeakBy(x)) \in Nat
        BY <4>1, FS_CardinalityType DEF WeakOK
      <4> QED
        BY <1>33, <2>1, <4>1, <4>2 DEF WeakOK, Shared, Kept, ReleaseHolds
    <3>2. phase[x] \notin {"none", "freed"}
      BY <2>1 DEF BatchInv, BatchOK, WeakInv, WeakOK
    <3> QED
      BY <1>33, <2>1, <3>1, <3>2 DEF ReleaseHolds, Ends, TypeInv, InBatch
  <2>2. CASE ~(InBatch(x) /\ weak[x] = 1)
    BY <1>33, <2>2 DEF ReleaseHolds, InBatch, TypeInv
  <2> QED
    BY <2>1, <2>2
<1>34. ASSUME NEW o \in Actors, FinalizeActor(o) PROVE phase'[x] = phase[x] \/ Born(x) \/ Ends(x)
  <2>1. phase[o] = "built" /\ o \in Objs
    BY <1>34, NoneParts DEF FinalizeActor, BatchInv, BatchOK, Dead
  <2> QED
    BY <1>34, <2>1 DEF FinalizeActor, Ends, TypeInv
<1>35. ASSUME UNCHANGED vars PROVE phase'[x] = phase[x] \/ Born(x) \/ Ends(x)
  BY <1>35 DEF vars
<1> QED
  BY <1>0, <1>1, <1>2, <1>3, <1>4, <1>5, <1>6, <1>7, <1>8, <1>9, <1>10, <1>11, <1>12, <1>13,
      <1>14, <1>15, <1>16, <1>17, <1>18, <1>19, <1>20, <1>21, <1>22, <1>23, <1>24, <1>25, <1>26,
      <1>27, <1>28, <1>29, <1>30, <1>31, <1>32, <1>33, <1>34, <1>35, StepKinds

(* An object dies by a claim or by the sweep. *)
LEMMA CollectStep ==
  ASSUME TypeInv, NameInv, StrongInv, WeakInv, LinkInv, PlaceInv, BatchInv, RefInv, HeldInv,
         DecInv, ClaimsInv, RetireInv, ThreadInv, StringInv, UnweakInv, MarkInv, PhaseInv,
         TableInv, NEW x \in Objs, [Next]_vars
  PROVE  collecting'[x] = collecting[x] \/ Dies(x)
<1>0. world.threads \subseteq Threads
  BY WorldThreads
<1>1. ASSUME NEW t \in Threads, NEW o \in Objs, New(t, o)
      PROVE  collecting'[x] = collecting[x] \/ Dies(x)
  BY <1>1 DEF New, counts, claims, values, collector, reclaimer, strings, Build, Ready, Bump
<1>2. ASSUME NEW t \in Threads, NEW u \in Threads, NEW o \in Objs, Share(t, u, o)
      PROVE  collecting'[x] = collecting[x] \/ Dies(x)
  BY <1>2 DEF Share, counts, claims, values, collector, reclaimer, strings, Ready, Bump
<1>3. ASSUME NEW t \in Threads, NEW o \in Objs, Drop(t, o)
      PROVE  collecting'[x] = collecting[x] \/ Dies(x)
  BY <1>3 DEF Drop, counts, claims, values, collector, reclaimer, strings, Ready
<1>4. ASSUME NEW t \in Threads, NEW o \in Objs, NEW k \in Slots, NEW p \in Objs, Store(t, o, k, p)
      PROVE  collecting'[x] = collecting[x] \/ Dies(x)
  BY <1>4 DEF Store, counts, claims, values, collector, reclaimer, strings, Ready
<1>5. ASSUME NEW t \in Threads, Put(t) PROVE collecting'[x] = collecting[x] \/ Dies(x)
  BY <1>5 DEF Put, counts, claims, values, collector, reclaimer, strings, Bump
<1>6. ASSUME NEW t \in Threads, NEW o \in Objs, NEW k \in Slots, Load(t, o, k)
      PROVE  collecting'[x] = collecting[x] \/ Dies(x)
  BY <1>6 DEF Load, counts, claims, values, collector, reclaimer, strings, Ready, Bump
<1>7. ASSUME NEW t \in Threads, NEW o \in Objs, NEW v \in Versions, SaveVersion(t, o, v)
      PROVE  collecting'[x] = collecting[x] \/ Dies(x)
  BY <1>7 DEF SaveVersion, counts, claims, values, collector, reclaimer, strings, Build, Ready
<1>8. ASSUME NEW t \in Threads, NEW o \in Objs, WeakRef(t, o)
      PROVE  collecting'[x] = collecting[x] \/ Dies(x)
  BY <1>8 DEF WeakRef, counts, claims, values, collector, reclaimer, strings, Ready, Bump
<1>9. ASSUME NEW t \in Threads, NEW o \in Objs, DropWeak(t, o)
      PROVE  collecting'[x] = collecting[x] \/ Dies(x)
  BY <1>9 DEF DropWeak, counts, claims, values, collector, reclaimer, strings, FreedIfLast,
      Ready, Bump
<1>10. ASSUME NEW t \in Threads, NEW o \in Objs, StrongRef(t, o)
      PROVE  collecting'[x] = collecting[x] \/ Dies(x)
  BY <1>10 DEF StrongRef, counts, claims, values, collector, reclaimer, strings, Ready
<1>11. ASSUME NEW t \in Threads, TryIncRef(t) PROVE collecting'[x] = collecting[x] \/ Dies(x)
  BY <1>11 DEF TryIncRef, counts, claims, values, collector, reclaimer, strings, Bump
<1>12. ASSUME NEW t \in Threads, Recheck(t) PROVE collecting'[x] = collecting[x] \/ Dies(x)
  BY <1>12 DEF Recheck, counts, claims, values, collector, reclaimer, strings
<1>13. ASSUME NEW t \in Threads, Intern(t) PROVE collecting'[x] = collecting[x] \/ Dies(x)
  BY <1>13 DEF Intern, counts, claims, values, collector, reclaimer, strings, Ready
<1>14. ASSUME NEW t \in Threads, Lookup(t) PROVE collecting'[x] = collecting[x] \/ Dies(x)
  BY <1>14 DEF Lookup, counts, claims, values, collector, reclaimer, strings, Bump
<1>15. ASSUME NEW t \in Threads, NEW s \in Strings, AllocString(t, s)
      PROVE  collecting'[x] = collecting[x] \/ Dies(x)
  BY <1>15 DEF AllocString, counts, claims, values, collector, reclaimer, strings, Build
<1>16. ASSUME NEW t \in Threads, PublishString(t) PROVE collecting'[x] = collecting[x] \/ Dies(x)
  BY <1>16 DEF PublishString, counts, claims, values, collector, reclaimer, strings
<1>17. ASSUME NEW t \in Threads, Own(t) PROVE collecting'[x] = collecting[x] \/ Dies(x)
  BY <1>17 DEF Own, counts, claims, values, collector, reclaimer, strings, Bump
<1>18. ASSUME NEW a \in Actor, DecRef(a) PROVE collecting'[x] = collecting[x] \/ Dies(x)
  BY <1>18 DEF DecRef, counts, claims, values, collector, reclaimer, strings, Bump
<1>19. ASSUME NEW a \in Actor, Claim(a) PROVE collecting'[x] = collecting[x] \/ Dies(x)
  <2>1. Current(a) \in Objs
    BY <1>19, ClaimHere DEF Claim
  <2> QED
    BY <1>19, <2>1 DEF Claim, Dies, TypeInv
<1>20. ASSUME NEW a \in Actor, DropOnce(a) PROVE collecting'[x] = collecting[x] \/ Dies(x)
  BY <1>20 DEF DropOnce, counts, claims, values, collector, reclaimer, strings
<1>21. ASSUME NEW a \in Actor, Null(a) PROVE collecting'[x] = collecting[x] \/ Dies(x)
  BY <1>21 DEF Null, counts, claims, values, collector, reclaimer, strings
<1>22. ASSUME NEW a \in Actor, Retire(a) PROVE collecting'[x] = collecting[x] \/ Dies(x)
  BY <1>22 DEF Retire, counts, claims, values, collector, reclaimer, strings
<1>23. ASSUME Mark PROVE collecting'[x] = collecting[x] \/ Dies(x)
  BY <1>23 DEF Mark, counts, claims, values, collector, reclaimer, strings
<1>24. ASSUME NEW o \in Objs, Trim(o) PROVE collecting'[x] = collecting[x] \/ Dies(x)
  BY <1>24 DEF Trim, counts, claims, values, collector, reclaimer, strings
<1>25. ASSUME TrimDone PROVE collecting'[x] = collecting[x] \/ Dies(x)
  BY <1>25 DEF TrimDone, counts, claims, values, collector, reclaimer, strings
<1>26. ASSUME Sweep PROVE collecting'[x] = collecting[x] \/ Dies(x)
  BY <1>26 DEF Sweep, Dies, TypeInv
<1>27. ASSUME Publish PROVE collecting'[x] = collecting[x] \/ Dies(x)
  BY <1>27 DEF Publish, counts, claims, values, collector, reclaimer, strings
<1>28. ASSUME Drain PROVE collecting'[x] = collecting[x] \/ Dies(x)
  BY <1>28 DEF Drain, counts, claims, values, collector, reclaimer, strings
<1>29. ASSUME DropNext PROVE collecting'[x] = collecting[x] \/ Dies(x)
  BY <1>29 DEF DropNext, counts, claims, values, collector, reclaimer, strings
<1>30. ASSUME Hold PROVE collecting'[x] = collecting[x] \/ Dies(x)
  BY <1>30 DEF Hold, counts, claims, values, collector, reclaimer, strings
<1>31. ASSUME DestroyNext PROVE collecting'[x] = collecting[x] \/ Dies(x)
  BY <1>31 DEF DestroyNext, counts, claims, values, collector, reclaimer, strings, Destroy,
      SelfErase
<1>32. ASSUME NEW a \in Actor, Unweak(a) PROVE collecting'[x] = collecting[x] \/ Dies(x)
  BY <1>32 DEF Unweak, counts, claims, values, collector, reclaimer, strings, FreedIfLast, Bump
<1>33. ASSUME ReleaseHolds PROVE collecting'[x] = collecting[x] \/ Dies(x)
  BY <1>33 DEF ReleaseHolds, counts, claims, values, collector, reclaimer, strings
<1>34. ASSUME NEW o \in Actors, FinalizeActor(o) PROVE collecting'[x] = collecting[x] \/ Dies(x)
  BY <1>34 DEF FinalizeActor, counts, claims, values, collector, reclaimer, strings, Bump
<1>35. ASSUME UNCHANGED vars PROVE collecting'[x] = collecting[x] \/ Dies(x)
  BY <1>35 DEF vars, counts, claims, values, collector, reclaimer, strings
<1> QED
  BY <1>0, <1>1, <1>2, <1>3, <1>4, <1>5, <1>6, <1>7, <1>8, <1>9, <1>10, <1>11, <1>12, <1>13,
      <1>14, <1>15, <1>16, <1>17, <1>18, <1>19, <1>20, <1>21, <1>22, <1>23, <1>24, <1>25, <1>26,
      <1>27, <1>28, <1>29, <1>30, <1>31, <1>32, <1>33, <1>34, <1>35, StepKinds

(* Who is about to be claimed has no owner. *)
LEMMA ClaimingParts ==
  ASSUME TypeInv, ClaimsInv, NEW o \in Objs, Claiming(o)
  PROVE  strong[o] = 0 /\ (Live(o) \/ Waiting(o))
<1>1. PICK a \in Actor : \E n \in 1 .. Count(a) : Has(a, n, "claim", o)
  BY DEF Claiming
<1>2. PICK n \in 1 .. Count(a) : Has(a, n, "claim", o)
  BY <1>1
<1>3. ClaimOK(a, n) /\ Step(a, n).op = "claim" /\ Step(a, n).obj = o
  BY <1>2 DEF ClaimsInv, Has
<1> QED
  BY <1>3 DEF ClaimOK

(* What the live refer to is live. *)
LEMMA LiveTarget ==
  ASSUME TypeInv, RefInv, NEW q \in Objs, NEW k \in Slots, Live(q), ref[q][k] # None
  PROVE  ref[q][k] \in Objs /\ Live(ref[q][k])
BY DEF TypeInv, RefInv, RefOK, Dead, Live

(* The string a thread is about to own. *)
LEMMA OwnLive ==
  ASSUME TypeInv, NameInv, StrongInv, DecInv, ClaimsInv, StringInv, NEW t \in Threads,
         Doing(t, "own")
  PROVE  /\ Current(t) \in Objs /\ Live(Current(t)) /\ ~Claiming(Current(t))
         /\ (Count(t) = 2 /\ Has(t, 1, "dec", Current(t)) /\ strong[Current(t)] >= 1) \/ Count(t) = 1
<1>1. t \in Actor /\ Current(t) \in Objs /\ t # Rec
  BY ActorParts, CurrentType
<1>2. CASE Count(t) = 2 /\ Has(t, 1, "dec", Current(t))
  <2>1. 1 \in 1 .. Count(t) /\ Step(t, 1).op = "dec" /\ Step(t, 1).obj = Current(t)
    BY <1>2 DEF Has
  <2>2. DecOK(t, 1)
    BY <1>1, <2>1 DEF DecInv
  <2>3. strong[Current(t)] >= 1 /\ strong[Current(t)] \in Nat
    BY <1>1, <2>1, OwnedBy, Owned
  <2> QED
    BY <1>1, <1>2, <2>1, <2>2, <2>3, ClaimingParts DEF DecOK
<1>3. CASE Count(t) = 1 /\ Fresh(Current(t))
  BY <1>1, <1>3 DEF Fresh
<1> QED
  BY <1>2, <1>3, OwnHere

(* A count goes up when a block is built, or on a live object. *)
Rises(x) ==
  \/ strong'[x] <= strong[x]
  \/ Born(x) /\ ~collecting'[x]
  \/ /\ Live(x) /\ Live(x)' /\ ~Claiming(x)
     /\ strong[x] >= 1 \/ \E t \in Threads : (Own(t) \/ PublishString(t)) /\ x = Current(t)

(* A count goes up only on what is live. *)
LEMMA RiseStep ==
  ASSUME TypeInv, NameInv, StrongInv, WeakInv, LinkInv, PlaceInv, BatchInv, RefInv, HeldInv,
         DecInv, ClaimsInv, RetireInv, ThreadInv, StringInv, UnweakInv, MarkInv, PhaseInv,
         TableInv, NEW x \in Objs, [Next]_vars
  PROVE  Rises(x)
<1>0. world.threads \subseteq Threads
  BY WorldThreads
<1>n. strong[x] \in Nat
  BY Owned
<1>1. ASSUME NEW t \in Threads, NEW o \in Objs, New(t, o) PROVE Rises(x)
  BY <1>1, <1>n, NotBuilt DEF New, Build, Bump, Born, Rises, TypeInv
<1>2. ASSUME NEW t \in Threads, NEW u \in Threads, NEW o \in Objs, Share(t, u, o) PROVE Rises(x)
  <2>1. o \in Objs /\ strong[o] >= 1 /\ Live(o)
    BY <1>2, Owned DEF Share, HeldInv, TypeInv
  <2>2. strong'[x] = strong[x] \/ x = o
    BY <1>2, <2>1 DEF Share, Bump, TypeInv
  <2>3. ASSUME x = o PROVE Rises(x)
    <3>1. ~Claiming(x)
      BY <2>1, <2>3, ClaimingParts
    <3>2. Live(x)'
      BY <1>2, <2>1, <2>3 DEF Share, Live, claims
    <3> QED
      BY <2>1, <2>3, <3>1, <3>2 DEF Rises
  <2> QED
    BY <1>n, <2>2, <2>3 DEF Rises
<1>3. ASSUME NEW t \in Threads, NEW o \in Objs, Drop(t, o) PROVE Rises(x)
  BY <1>3, <1>n DEF Drop, counts, claims, values, collector, reclaimer, strings, Ready, Rises
<1>4. ASSUME NEW t \in Threads, NEW o \in Objs, NEW k \in Slots, NEW p \in Objs, Store(t, o, k, p)
      PROVE  Rises(x)
  BY <1>4, <1>n DEF Store, counts, claims, values, collector, reclaimer, strings, Ready, Rises
<1>5. ASSUME NEW t \in Threads, Put(t) PROVE Rises(x)
  <2>1. Head(todo[t]).obj \in Objs /\ strong[Head(todo[t]).obj] >= 1 /\ Live(Head(todo[t]).obj)
    <3>1. Head(todo[t]).obj \in Objs /\ Head(todo[t]).obj \in held[t]
      BY <1>5, PutNow, PutHere DEF Put
    <3> QED
      BY <3>1, Owned DEF HeldInv
  <2>2. strong'[x] = strong[x] \/ x = Head(todo[t]).obj
    BY <1>5, <2>1 DEF Put, Bump, TypeInv
  <2>3. ASSUME x = Head(todo[t]).obj PROVE Rises(x)
    <3>1. ~Claiming(x)
      BY <2>1, <2>3, ClaimingParts
    <3>2. Live(x)'
      BY <1>5, <2>1, <2>3 DEF Put, Live, claims
    <3> QED
      BY <2>1, <2>3, <3>1, <3>2 DEF Rises
  <2> QED
    BY <1>n, <2>2, <2>3 DEF Rises
<1>6. ASSUME NEW t \in Threads, NEW o \in Objs, NEW k \in Slots, Load(t, o, k) PROVE Rises(x)
  <2>1. ref[o][k] \in Objs /\ strong[ref[o][k]] >= 1 /\ Live(ref[o][k])
    <3>1. o \in Objs /\ Live(o) /\ ref[o][k] # None
      BY <1>6 DEF Load, HeldInv, TypeInv
    <3>2. ref[o][k] \in Objs /\ Live(ref[o][k])
      BY <3>1, LiveTarget
    <3> QED
      BY <3>2, Owned
  <2>2. strong'[x] = strong[x] \/ x = ref[o][k]
    BY <1>6, <2>1 DEF Load, Bump, TypeInv
  <2>3. ASSUME x = ref[o][k] PROVE Rises(x)
    <3>1. ~Claiming(x)
      BY <2>1, <2>3, ClaimingParts
    <3>2. Live(x)'
      BY <1>6, <2>1, <2>3 DEF Load, Live, claims
    <3> QED
      BY <2>1, <2>3, <3>1, <3>2 DEF Rises
  <2> QED
    BY <1>n, <2>2, <2>3 DEF Rises
<1>7. ASSUME NEW t \in Threads, NEW o \in Objs, NEW v \in Versions, SaveVersion(t, o, v)
      PROVE  Rises(x)
  <2>1. o \in Objs /\ Live(o) /\ v \in Objs /\ ref[o]["edge"] \in Objs \cup {None}
    BY <1>7, SaveRef DEF SaveVersion, HeldInv
  <2>2. CASE x = v
    BY <1>7, <2>1, <2>2, NotBuilt DEF SaveVersion, Build, Born, Rises, TypeInv
  <2>3. CASE x # v /\ x = ref[o]["edge"]
    <3>1. Live(x) /\ strong[x] >= 1
      BY <2>1, <2>3, LiveTarget, Owned, NoneParts DEF Slots
    <3>2. ~Claiming(x)
      BY <3>1, ClaimingParts
    <3>3. Live(x)'
      BY <1>7, <2>1, <2>3, <3>1 DEF SaveVersion, Build, Live, TypeInv
    <3> QED
      BY <3>1, <3>2, <3>3 DEF Rises
  <2>4. CASE x # v /\ x # ref[o]["edge"]
    BY <1>7, <1>n, <2>4 DEF SaveVersion, Rises
  <2> QED
    BY <2>2, <2>3, <2>4
<1>8. ASSUME NEW t \in Threads, NEW o \in Objs, WeakRef(t, o) PROVE Rises(x)
  BY <1>8, <1>n DEF WeakRef, counts, claims, values, collector, reclaimer, strings, Ready, Bump,
      Rises
<1>9. ASSUME NEW t \in Threads, NEW o \in Objs, DropWeak(t, o) PROVE Rises(x)
  BY <1>9, <1>n DEF DropWeak, counts, claims, values, collector, reclaimer, strings,
      FreedIfLast, Ready, Bump, Rises
<1>10. ASSUME NEW t \in Threads, NEW o \in Objs, StrongRef(t, o) PROVE Rises(x)
  BY <1>10, <1>n DEF StrongRef, counts, claims, values, collector, reclaimer, strings, Ready,
      Rises
<1>11. ASSUME NEW t \in Threads, TryIncRef(t) PROVE Rises(x)
  <2>1. Current(t) \in Objs /\ (Live(Current(t)) \/ strong[Current(t)] = 0)
    BY <1>11, TryHere DEF TryIncRef
  <2>2. strong'[x] = strong[x] \/ (x = Current(t) /\ strong[x] > 0)
    BY <1>11, <2>1 DEF TryIncRef, Bump, TypeInv
  <2>3. ASSUME x = Current(t), strong[x] > 0 PROVE Rises(x)
    <3>1. ~Claiming(x)
      BY <2>3, <1>n, ClaimingParts
    <3>2. Live(x) /\ Live(x)'
      BY <1>11, <1>n, <2>1, <2>3 DEF TryIncRef, Live, claims
    <3> QED
      BY <1>n, <2>3, <3>1, <3>2 DEF Rises
  <2> QED
    BY <1>n, <2>2, <2>3 DEF Rises
<1>12. ASSUME NEW t \in Threads, Recheck(t) PROVE Rises(x)
  BY <1>12, <1>n DEF Recheck, counts, claims, values, collector, reclaimer, strings, Rises
<1>13. ASSUME NEW t \in Threads, Intern(t) PROVE Rises(x)
  BY <1>13, <1>n DEF Intern, counts, claims, values, collector, reclaimer, strings, Ready, Rises
<1>14. ASSUME NEW t \in Threads, Lookup(t) PROVE Rises(x)
  <2>1. CASE Found
    <3>1. table \in Objs /\ Live(table) /\ strong[table] >= 1
      BY <2>1, FoundLive, Owned DEF Found
    <3>2. strong'[x] = strong[x] \/ x = table
      BY <1>14, <2>1, <3>1 DEF Lookup, Bump, TypeInv, Found
    <3>3. ASSUME x = table PROVE Rises(x)
      <4>1. ~Claiming(x)
        BY <3>1, <3>3, ClaimingParts
      <4>2. Live(x)'
        BY <1>14, <3>1, <3>3 DEF Lookup, Live, claims
      <4> QED
        BY <3>1, <3>3, <4>1, <4>2 DEF Rises
    <3> QED
      BY <1>n, <3>2, <3>3 DEF Rises
  <2>2. CASE ~Found
    BY <1>14, <1>n, <2>2 DEF Lookup, Found, Rises
  <2> QED
    BY <2>1, <2>2
<1>15. ASSUME NEW t \in Threads, NEW s \in Strings, AllocString(t, s) PROVE Rises(x)
  BY <1>15, <1>n DEF AllocString, counts, claims, values, collector, reclaimer, strings, Build,
      Rises
<1>16. ASSUME NEW t \in Threads, PublishString(t) PROVE Rises(x)
  <2>0. Current(t) \in Objs /\ Live(Current(t)) /\ ~Claiming(Current(t)) /\ strong[Current(t)] = 0
    BY <1>16, PublishNow, NoneParts DEF PublishString, Fresh
  <2>1. CASE Found
    <3>1. table \in Objs /\ Live(table) /\ strong[table] >= 1
      BY <2>1, FoundLive, Owned DEF Found
    <3>2. strong'[x] = strong[x] \/ x = table \/ x = Current(t)
      BY <1>16, <2>0, <2>1, <3>1 DEF PublishString, TypeInv, Found
    <3>3. ASSUME x = table \/ x = Current(t) PROVE Rises(x)
      <4>1. ~Claiming(x)
        BY <2>0, <3>1, <3>3, ClaimingParts
      <4>2. Live(x) /\ Live(x)'
        BY <1>16, <2>0, <3>1, <3>3 DEF PublishString, Live, claims
      <4> QED
        BY <1>16, <3>1, <3>3, <4>1, <4>2 DEF Rises
    <3> QED
      BY <1>n, <3>2, <3>3 DEF Rises
  <2>2. CASE ~Found
    BY <1>16, <1>n, <2>2 DEF PublishString, Found, Rises
  <2> QED
    BY <2>1, <2>2
<1>17. ASSUME NEW t \in Threads, Own(t) PROVE Rises(x)
  <2>1. Current(t) \in Objs /\ Live(Current(t)) /\ ~Claiming(Current(t))
    BY <1>17, OwnLive DEF Own
  <2>2. strong'[x] = strong[x] \/ x = Current(t)
    BY <1>17, <2>1 DEF Own, Bump, TypeInv
  <2>3. ASSUME x = Current(t) PROVE Rises(x)
    <3>1. Live(x)'
      BY <1>17, <2>1, <2>3 DEF Own, Live, claims
    <3> QED
      BY <1>17, <2>1, <2>3, <3>1 DEF Rises
  <2> QED
    BY <1>n, <2>2, <2>3 DEF Rises
<1>18. ASSUME NEW a \in Actor, DecRef(a) PROVE Rises(x)
  BY <1>18, <1>n, DecRefShape DEF DecRef, Bump, Rises, TypeInv
<1>19. ASSUME NEW a \in Actor, Claim(a) PROVE Rises(x)
  BY <1>19, <1>n DEF Claim, counts, claims, values, collector, reclaimer, strings, Rises
<1>20. ASSUME NEW a \in Actor, DropOnce(a) PROVE Rises(x)
  BY <1>20, <1>n DEF DropOnce, counts, claims, values, collector, reclaimer, strings, Rises
<1>21. ASSUME NEW a \in Actor, Null(a) PROVE Rises(x)
  BY <1>21, <1>n DEF Null, counts, claims, values, collector, reclaimer, strings, Rises
<1>22. ASSUME NEW a \in Actor, Retire(a) PROVE Rises(x)
  BY <1>22, <1>n DEF Retire, counts, claims, values, collector, reclaimer, strings, Rises
<1>23. ASSUME Mark PROVE Rises(x)
  BY <1>23, <1>n DEF Mark, counts, claims, values, collector, reclaimer, strings, Rises
<1>24. ASSUME NEW o \in Objs, Trim(o) PROVE Rises(x)
  BY <1>24, <1>n DEF Trim, counts, claims, values, collector, reclaimer, strings, Rises
<1>25. ASSUME TrimDone PROVE Rises(x)
  BY <1>25, <1>n DEF TrimDone, counts, claims, values, collector, reclaimer, strings, Rises
<1>26. ASSUME Sweep PROVE Rises(x)
  BY <1>26, <1>n DEF Sweep, counts, claims, values, collector, reclaimer, strings, Rises
<1>27. ASSUME Publish PROVE Rises(x)
  BY <1>27, <1>n DEF Publish, counts, claims, values, collector, reclaimer, strings, Rises
<1>28. ASSUME Drain PROVE Rises(x)
  BY <1>28, <1>n DEF Drain, counts, claims, values, collector, reclaimer, strings, Rises
<1>29. ASSUME DropNext PROVE Rises(x)
  BY <1>29, <1>n DEF DropNext, counts, claims, values, collector, reclaimer, strings, Rises
<1>30. ASSUME Hold PROVE Rises(x)
  BY <1>30, <1>n DEF Hold, counts, claims, values, collector, reclaimer, strings, Rises
<1>31. ASSUME DestroyNext PROVE Rises(x)
  BY <1>31, <1>n DEF DestroyNext, counts, claims, values, collector, reclaimer, strings,
      Destroy, SelfErase, Rises
<1>32. ASSUME NEW a \in Actor, Unweak(a) PROVE Rises(x)
  BY <1>32, <1>n DEF Unweak, counts, claims, values, collector, reclaimer, strings, FreedIfLast,
      Bump, Rises
<1>33. ASSUME ReleaseHolds PROVE Rises(x)
  BY <1>33, <1>n DEF ReleaseHolds, counts, claims, values, collector, reclaimer, strings, Rises
<1>34. ASSUME NEW o \in Actors, FinalizeActor(o) PROVE Rises(x)
  BY <1>34, <1>n DEF FinalizeActor, counts, claims, values, collector, reclaimer, strings, Bump,
      Rises
<1>35. ASSUME UNCHANGED vars PROVE Rises(x)
  BY <1>35, <1>n DEF vars, counts, claims, values, collector, reclaimer, strings, Rises
<1> QED
  BY <1>0, <1>1, <1>2, <1>3, <1>4, <1>5, <1>6, <1>7, <1>8, <1>9, <1>10, <1>11, <1>12, <1>13,
      <1>14, <1>15, <1>16, <1>17, <1>18, <1>19, <1>20, <1>21, <1>22, <1>23, <1>24, <1>25, <1>26,
      <1>27, <1>28, <1>29, <1>30, <1>31, <1>32, <1>33, <1>34, <1>35, StepKinds

(* A count goes down by a decrement only. *)
Falls(x) ==
  strong'[x] >= strong[x] \/ \E a \in Actor : DecRef(a) /\ x = Current(a) /\ strong'[x] = strong[x] - 1

(* A count goes down by a decrement. *)
LEMMA FallStep ==
  ASSUME TypeInv, NameInv, StrongInv, WeakInv, LinkInv, PlaceInv, BatchInv, RefInv, HeldInv,
         DecInv, ClaimsInv, RetireInv, ThreadInv, StringInv, UnweakInv, MarkInv, PhaseInv,
         TableInv, NEW x \in Objs, [Next]_vars
  PROVE  Falls(x)
<1>0. world.threads \subseteq Threads
  BY WorldThreads
<1>n. strong[x] \in Nat
  BY Owned
<1>1. ASSUME NEW t \in Threads, NEW o \in Objs, New(t, o) PROVE Falls(x)
  BY <1>1, <1>n, SMTT(60) DEF New, counts, claims, values, collector, reclaimer, strings, Build, Ready,
      Bump, Falls, TypeInv
<1>2. ASSUME NEW t \in Threads, NEW u \in Threads, NEW o \in Objs, Share(t, u, o) PROVE Falls(x)
  BY <1>2, <1>n DEF Share, counts, claims, values, collector, reclaimer, strings, Ready, Bump,
      Falls, TypeInv
<1>3. ASSUME NEW t \in Threads, NEW o \in Objs, Drop(t, o) PROVE Falls(x)
  BY <1>3, <1>n DEF Drop, counts, claims, values, collector, reclaimer, strings, Ready, Falls,
      TypeInv
<1>4. ASSUME NEW t \in Threads, NEW o \in Objs, NEW k \in Slots, NEW p \in Objs, Store(t, o, k, p)
      PROVE  Falls(x)
  BY <1>4, <1>n DEF Store, counts, claims, values, collector, reclaimer, strings, Ready, Falls,
      TypeInv
<1>5. ASSUME NEW t \in Threads, Put(t) PROVE Falls(x)
  BY <1>5, <1>n, PutNow, SMTT(60) DEF Put, Bump, Falls, TypeInv
<1>6. ASSUME NEW t \in Threads, NEW o \in Objs, NEW k \in Slots, Load(t, o, k) PROVE Falls(x)
  BY <1>6, <1>n DEF Load, counts, claims, values, collector, reclaimer, strings, Ready, Bump,
      Falls, TypeInv
<1>7. ASSUME NEW t \in Threads, NEW o \in Objs, NEW v \in Versions, SaveVersion(t, o, v)
      PROVE  Falls(x)
  BY <1>7, <1>n DEF SaveVersion, Falls, TypeInv
<1>8. ASSUME NEW t \in Threads, NEW o \in Objs, WeakRef(t, o) PROVE Falls(x)
  BY <1>8, <1>n DEF WeakRef, counts, claims, values, collector, reclaimer, strings, Ready, Bump,
      Falls, TypeInv
<1>9. ASSUME NEW t \in Threads, NEW o \in Objs, DropWeak(t, o) PROVE Falls(x)
  BY <1>9, <1>n DEF DropWeak, counts, claims, values, collector, reclaimer, strings,
      FreedIfLast, Ready, Bump, Falls, TypeInv
<1>10. ASSUME NEW t \in Threads, NEW o \in Objs, StrongRef(t, o) PROVE Falls(x)
  BY <1>10, <1>n DEF StrongRef, counts, claims, values, collector, reclaimer, strings, Ready,
      Falls, TypeInv
<1>11. ASSUME NEW t \in Threads, TryIncRef(t) PROVE Falls(x)
  <2>1. Current(t) \in Objs
    BY <1>11, TryIncRefShape
  <2>2. strong' = [strong EXCEPT ![Current(t)] = strong[Current(t)] + 1] \/ strong' = strong
    BY <1>11 DEF TryIncRef, Bump
  <2>3. strong'[x] = strong[x] \/ strong'[x] = strong[x] + 1
    BY <2>1, <2>2 DEF TypeInv
  <2> QED
    BY <1>n, <2>3 DEF Falls
<1>12. ASSUME NEW t \in Threads, Recheck(t) PROVE Falls(x)
  BY <1>12, <1>n DEF Recheck, counts, claims, values, collector, reclaimer, strings, Falls,
      TypeInv
<1>13. ASSUME NEW t \in Threads, Intern(t) PROVE Falls(x)
  BY <1>13, <1>n DEF Intern, counts, claims, values, collector, reclaimer, strings, Ready,
      Falls, TypeInv
<1>14. ASSUME NEW t \in Threads, Lookup(t) PROVE Falls(x)
  <2>1. CASE Found
    <3>1. strong' = [strong EXCEPT ![table] = strong[table] + 1] /\ table \in Objs
      BY <1>14, <2>1, TableType DEF Lookup, Bump, Found
    <3>2. strong'[x] >= strong[x]
      BY <1>n, <3>1 DEF TypeInv
    <3> QED
      BY <3>2 DEF Falls
  <2>2. CASE ~Found
    BY <1>14, <1>n, <2>2 DEF Lookup, Found, Falls
  <2> QED
    BY <2>1, <2>2
<1>15. ASSUME NEW t \in Threads, NEW s \in Strings, AllocString(t, s) PROVE Falls(x)
  BY <1>15, <1>n DEF AllocString, counts, claims, values, collector, reclaimer, strings, Build,
      Falls, TypeInv
<1>16. ASSUME NEW t \in Threads, PublishString(t) PROVE Falls(x)
  <2>1. CASE Found
    <3>1. table \in Objs /\ Current(t) \in Objs
      BY <1>16, <2>1, TableType, PublishStringShape DEF Found
    <3>2. strong' = [strong EXCEPT ![table] = @ + 1, ![Current(t)] = @ + 1]
      BY <1>16, <2>1 DEF PublishString, Found
    <3>3. strong'[x] = strong[x] \/ strong'[x] = strong[x] + 1
      <4>1. table # Current(t)
        BY <1>16, PublishNow DEF PublishString
      <4> QED
        BY <4>1, <3>1, <3>2 DEF TypeInv
    <3> QED
      BY <1>n, <3>3 DEF Falls
  <2>2. CASE ~Found
    BY <1>16, <1>n, <2>2 DEF PublishString, Found, Falls
  <2> QED
    BY <2>1, <2>2
<1>17. ASSUME NEW t \in Threads, Own(t) PROVE Falls(x)
  BY <1>17, <1>n, OwnLive DEF Own, Bump, Falls, TypeInv
<1>18. ASSUME NEW a \in Actor, DecRef(a) PROVE Falls(x)
  <2>1. Current(a) \in Objs
    BY <1>18, DecRefShape
  <2>2. strong' = [strong EXCEPT ![Current(a)] = strong[Current(a)] + (-1)]
    BY <1>18 DEF DecRef, Bump
  <2>3. strong'[x] = strong[x] \/ (x = Current(a) /\ strong'[x] = strong[x] - 1)
    BY <1>n, <2>1, <2>2 DEF TypeInv
  <2> QED
    BY <1>18, <1>n, <2>3 DEF Falls
<1>19. ASSUME NEW a \in Actor, Claim(a) PROVE Falls(x)
  BY <1>19, <1>n DEF Claim, counts, claims, values, collector, reclaimer, strings, Falls,
      TypeInv
<1>20. ASSUME NEW a \in Actor, DropOnce(a) PROVE Falls(x)
  BY <1>20, <1>n DEF DropOnce, counts, claims, values, collector, reclaimer, strings, Falls,
      TypeInv
<1>21. ASSUME NEW a \in Actor, Null(a) PROVE Falls(x)
  BY <1>21, <1>n DEF Null, counts, claims, values, collector, reclaimer, strings, Falls, TypeInv
<1>22. ASSUME NEW a \in Actor, Retire(a) PROVE Falls(x)
  BY <1>22, <1>n DEF Retire, counts, claims, values, collector, reclaimer, strings, Falls,
      TypeInv
<1>23. ASSUME Mark PROVE Falls(x)
  BY <1>23, <1>n DEF Mark, counts, claims, values, collector, reclaimer, strings, Falls, TypeInv
<1>24. ASSUME NEW o \in Objs, Trim(o) PROVE Falls(x)
  BY <1>24, <1>n DEF Trim, counts, claims, values, collector, reclaimer, strings, Falls, TypeInv
<1>25. ASSUME TrimDone PROVE Falls(x)
  BY <1>25, <1>n DEF TrimDone, counts, claims, values, collector, reclaimer, strings, Falls,
      TypeInv
<1>26. ASSUME Sweep PROVE Falls(x)
  BY <1>26, <1>n DEF Sweep, counts, claims, values, collector, reclaimer, strings, Falls,
      TypeInv
<1>27. ASSUME Publish PROVE Falls(x)
  BY <1>27, <1>n DEF Publish, counts, claims, values, collector, reclaimer, strings, Falls,
      TypeInv
<1>28. ASSUME Drain PROVE Falls(x)
  BY <1>28, <1>n DEF Drain, counts, claims, values, collector, reclaimer, strings, Falls,
      TypeInv
<1>29. ASSUME DropNext PROVE Falls(x)
  BY <1>29, <1>n DEF DropNext, counts, claims, values, collector, reclaimer, strings, Falls,
      TypeInv
<1>30. ASSUME Hold PROVE Falls(x)
  BY <1>30, <1>n DEF Hold, counts, claims, values, collector, reclaimer, strings, Falls, TypeInv
<1>31. ASSUME DestroyNext PROVE Falls(x)
  BY <1>31, <1>n DEF DestroyNext, counts, claims, values, collector, reclaimer, strings,
      Destroy, SelfErase, Falls, TypeInv
<1>32. ASSUME NEW a \in Actor, Unweak(a) PROVE Falls(x)
  BY <1>32, <1>n DEF Unweak, counts, claims, values, collector, reclaimer, strings, FreedIfLast,
      Bump, Falls, TypeInv
<1>33. ASSUME ReleaseHolds PROVE Falls(x)
  BY <1>33, <1>n DEF ReleaseHolds, counts, claims, values, collector, reclaimer, strings, Falls,
      TypeInv
<1>34. ASSUME NEW o \in Actors, FinalizeActor(o) PROVE Falls(x)
  BY <1>34, <1>n DEF FinalizeActor, counts, claims, values, collector, reclaimer, strings, Bump,
      Falls, TypeInv
<1>35. ASSUME UNCHANGED vars PROVE Falls(x)
  BY <1>35, <1>n DEF vars, counts, claims, values, collector, reclaimer, strings, Falls, TypeInv
<1> QED
  BY <1>0, <1>1, <1>2, <1>3, <1>4, <1>5, <1>6, <1>7, <1>8, <1>9, <1>10, <1>11, <1>12, <1>13,
      <1>14, <1>15, <1>16, <1>17, <1>18, <1>19, <1>20, <1>21, <1>22, <1>23, <1>24, <1>25, <1>26,
      <1>27, <1>28, <1>29, <1>30, <1>31, <1>32, <1>33, <1>34, <1>35, StepKinds

(* A Value is added to an idle thread, or by the step the thread takes. *)
Gets(t, x) ==
  /\ Live(x) \/ (Born(x) /\ ~collecting'[x])
  /\ Idle(t) \/ Recheck(t) \/ Own(t)

(* Where the Values of a thread come from. *)
LEMMA HeldStep ==
  ASSUME TypeInv, NameInv, StrongInv, WeakInv, LinkInv, PlaceInv, BatchInv, RefInv, HeldInv,
         DecInv, ClaimsInv, RetireInv, ThreadInv, StringInv, UnweakInv, MarkInv, PhaseInv,
         TableInv, NEW x \in Objs, NEW w \in Threads, [Next]_vars
  PROVE  x \in held'[w] => x \in held[w] \/ Gets(w, x)
<1>0. world.threads \subseteq Threads
  BY WorldThreads
<1>1. ASSUME NEW t \in Threads, NEW o \in Objs, New(t, o)
      PROVE  x \in held'[w] => x \in held[w] \/ Gets(w, x)
  BY <1>1, NotBuilt DEF New, Build, Born, Gets, Ready, TypeInv
<1>2. ASSUME NEW t \in Threads, NEW u \in Threads, NEW o \in Objs, Share(t, u, o)
      PROVE  x \in held'[w] => x \in held[w] \/ Gets(w, x)
  BY <1>2 DEF Share, Gets, HeldInv, TypeInv
<1>3. ASSUME NEW t \in Threads, NEW o \in Objs, Drop(t, o)
      PROVE  x \in held'[w] => x \in held[w] \/ Gets(w, x)
  BY <1>3 DEF Drop, TypeInv
<1>4. ASSUME NEW t \in Threads, NEW o \in Objs, NEW k \in Slots, NEW p \in Objs, Store(t, o, k, p)
      PROVE  x \in held'[w] => x \in held[w] \/ Gets(w, x)
  BY <1>4 DEF Store, counts, claims, values, collector, reclaimer, strings, Ready
<1>5. ASSUME NEW t \in Threads, Put(t) PROVE x \in held'[w] => x \in held[w] \/ Gets(w, x)
  BY <1>5 DEF Put, counts, claims, values, collector, reclaimer, strings, Bump
<1>6. ASSUME NEW t \in Threads, NEW o \in Objs, NEW k \in Slots, Load(t, o, k)
      PROVE  x \in held'[w] => x \in held[w] \/ Gets(w, x)
  <2>1. ref[o][k] \in Objs /\ Live(ref[o][k])
    BY <1>6, LiveTarget DEF Load, HeldInv
  <2> QED
    BY <1>6, <2>1 DEF Load, Gets, Ready, TypeInv
<1>7. ASSUME NEW t \in Threads, NEW o \in Objs, NEW v \in Versions, SaveVersion(t, o, v)
      PROVE  x \in held'[w] => x \in held[w] \/ Gets(w, x)
  BY <1>7 DEF SaveVersion, counts, claims, values, collector, reclaimer, strings, Build, Ready
<1>8. ASSUME NEW t \in Threads, NEW o \in Objs, WeakRef(t, o)
      PROVE  x \in held'[w] => x \in held[w] \/ Gets(w, x)
  BY <1>8 DEF WeakRef, counts, claims, values, collector, reclaimer, strings, Ready, Bump
<1>9. ASSUME NEW t \in Threads, NEW o \in Objs, DropWeak(t, o)
      PROVE  x \in held'[w] => x \in held[w] \/ Gets(w, x)
  BY <1>9 DEF DropWeak, counts, claims, values, collector, reclaimer, strings, FreedIfLast,
      Ready, Bump
<1>10. ASSUME NEW t \in Threads, NEW o \in Objs, StrongRef(t, o)
      PROVE  x \in held'[w] => x \in held[w] \/ Gets(w, x)
  BY <1>10 DEF StrongRef, counts, claims, values, collector, reclaimer, strings, Ready
<1>11. ASSUME NEW t \in Threads, TryIncRef(t) PROVE x \in held'[w] => x \in held[w] \/ Gets(w, x)
  BY <1>11 DEF TryIncRef, counts, claims, values, collector, reclaimer, strings, Bump
<1>12. ASSUME NEW t \in Threads, Recheck(t) PROVE x \in held'[w] => x \in held[w] \/ Gets(w, x)
  <2>1. Live(Current(t))
    BY <1>12, RecheckHere DEF Recheck
  <2>2. held' = held \/ held' = [held EXCEPT ![t] = held[t] \cup {Current(t)}]
    BY <1>12 DEF Recheck
  <2>3. x \in held'[w] => x \in held[w] \/ (w = t /\ x = Current(t))
    BY <2>2 DEF TypeInv
  <2> QED
    BY <1>12, <2>1, <2>3 DEF Gets
<1>13. ASSUME NEW t \in Threads, Intern(t) PROVE x \in held'[w] => x \in held[w] \/ Gets(w, x)
  BY <1>13 DEF Intern, counts, claims, values, collector, reclaimer, strings, Ready
<1>14. ASSUME NEW t \in Threads, Lookup(t) PROVE x \in held'[w] => x \in held[w] \/ Gets(w, x)
  BY <1>14 DEF Lookup, counts, claims, values, collector, reclaimer, strings, Bump
<1>15. ASSUME NEW t \in Threads, NEW s \in Strings, AllocString(t, s)
      PROVE  x \in held'[w] => x \in held[w] \/ Gets(w, x)
  BY <1>15 DEF AllocString, counts, claims, values, collector, reclaimer, strings, Build
<1>16. ASSUME NEW t \in Threads, PublishString(t)
      PROVE  x \in held'[w] => x \in held[w] \/ Gets(w, x)
  BY <1>16 DEF PublishString, counts, claims, values, collector, reclaimer, strings
<1>17. ASSUME NEW t \in Threads, Own(t) PROVE x \in held'[w] => x \in held[w] \/ Gets(w, x)
  BY <1>17, OwnLive DEF Own, Gets, TypeInv
<1>18. ASSUME NEW a \in Actor, DecRef(a) PROVE x \in held'[w] => x \in held[w] \/ Gets(w, x)
  BY <1>18 DEF DecRef, counts, claims, values, collector, reclaimer, strings, Bump
<1>19. ASSUME NEW a \in Actor, Claim(a) PROVE x \in held'[w] => x \in held[w] \/ Gets(w, x)
  BY <1>19 DEF Claim, counts, claims, values, collector, reclaimer, strings
<1>20. ASSUME NEW a \in Actor, DropOnce(a) PROVE x \in held'[w] => x \in held[w] \/ Gets(w, x)
  BY <1>20 DEF DropOnce, counts, claims, values, collector, reclaimer, strings
<1>21. ASSUME NEW a \in Actor, Null(a) PROVE x \in held'[w] => x \in held[w] \/ Gets(w, x)
  BY <1>21 DEF Null, counts, claims, values, collector, reclaimer, strings
<1>22. ASSUME NEW a \in Actor, Retire(a) PROVE x \in held'[w] => x \in held[w] \/ Gets(w, x)
  BY <1>22 DEF Retire, counts, claims, values, collector, reclaimer, strings
<1>23. ASSUME Mark PROVE x \in held'[w] => x \in held[w] \/ Gets(w, x)
  BY <1>23 DEF Mark, counts, claims, values, collector, reclaimer, strings
<1>24. ASSUME NEW o \in Objs, Trim(o) PROVE x \in held'[w] => x \in held[w] \/ Gets(w, x)
  BY <1>24 DEF Trim, counts, claims, values, collector, reclaimer, strings
<1>25. ASSUME TrimDone PROVE x \in held'[w] => x \in held[w] \/ Gets(w, x)
  BY <1>25 DEF TrimDone, counts, claims, values, collector, reclaimer, strings
<1>26. ASSUME Sweep PROVE x \in held'[w] => x \in held[w] \/ Gets(w, x)
  BY <1>26 DEF Sweep, counts, claims, values, collector, reclaimer, strings
<1>27. ASSUME Publish PROVE x \in held'[w] => x \in held[w] \/ Gets(w, x)
  BY <1>27 DEF Publish, counts, claims, values, collector, reclaimer, strings
<1>28. ASSUME Drain PROVE x \in held'[w] => x \in held[w] \/ Gets(w, x)
  BY <1>28 DEF Drain, counts, claims, values, collector, reclaimer, strings
<1>29. ASSUME DropNext PROVE x \in held'[w] => x \in held[w] \/ Gets(w, x)
  BY <1>29 DEF DropNext, counts, claims, values, collector, reclaimer, strings
<1>30. ASSUME Hold PROVE x \in held'[w] => x \in held[w] \/ Gets(w, x)
  BY <1>30 DEF Hold, counts, claims, values, collector, reclaimer, strings
<1>31. ASSUME DestroyNext PROVE x \in held'[w] => x \in held[w] \/ Gets(w, x)
  BY <1>31 DEF DestroyNext, counts, claims, values, collector, reclaimer, strings, Destroy,
      SelfErase
<1>32. ASSUME NEW a \in Actor, Unweak(a) PROVE x \in held'[w] => x \in held[w] \/ Gets(w, x)
  BY <1>32 DEF Unweak, counts, claims, values, collector, reclaimer, strings, FreedIfLast, Bump
<1>33. ASSUME ReleaseHolds PROVE x \in held'[w] => x \in held[w] \/ Gets(w, x)
  BY <1>33 DEF ReleaseHolds, counts, claims, values, collector, reclaimer, strings
<1>34. ASSUME NEW o \in Actors, FinalizeActor(o)
      PROVE  x \in held'[w] => x \in held[w] \/ Gets(w, x)
  BY <1>34 DEF FinalizeActor, counts, claims, values, collector, reclaimer, strings, Bump
<1>35. ASSUME UNCHANGED vars PROVE x \in held'[w] => x \in held[w] \/ Gets(w, x)
  BY <1>35 DEF vars, counts, claims, values, collector, reclaimer, strings
<1> QED
  BY <1>0, <1>1, <1>2, <1>3, <1>4, <1>5, <1>6, <1>7, <1>8, <1>9, <1>10, <1>11, <1>12, <1>13,
      <1>14, <1>15, <1>16, <1>17, <1>18, <1>19, <1>20, <1>21, <1>22, <1>23, <1>24, <1>25, <1>26,
      <1>27, <1>28, <1>29, <1>30, <1>31, <1>32, <1>33, <1>34, <1>35, StepKinds

(* A thread gives up a Value at the beginning of an operation. *)
LEMMA HeldLoss ==
  ASSUME TypeInv, NEW x \in Objs, NEW w \in Threads, [Next]_vars
  PROVE  x \in held[w] => x \in held'[w] \/ Idle(w)
<1>0. world.threads \subseteq Threads
  BY WorldThreads
<1>1. ASSUME NEW t \in Threads, NEW o \in Objs, New(t, o)
      PROVE  x \in held[w] => x \in held'[w] \/ Idle(w)
  BY <1>1 DEF New, Ready, TypeInv
<1>2. ASSUME NEW t \in Threads, NEW u \in Threads, NEW o \in Objs, Share(t, u, o)
      PROVE  x \in held[w] => x \in held'[w] \/ Idle(w)
  BY <1>2 DEF Share, Ready, TypeInv
<1>3. ASSUME NEW t \in Threads, NEW o \in Objs, Drop(t, o)
      PROVE  x \in held[w] => x \in held'[w] \/ Idle(w)
  BY <1>3 DEF Drop, Ready, TypeInv
<1>4. ASSUME NEW t \in Threads, NEW o \in Objs, NEW k \in Slots, NEW p \in Objs, Store(t, o, k, p)
      PROVE  x \in held[w] => x \in held'[w] \/ Idle(w)
  BY <1>4 DEF Store, counts, claims, values, collector, reclaimer, strings, Ready
<1>5. ASSUME NEW t \in Threads, Put(t) PROVE x \in held[w] => x \in held'[w] \/ Idle(w)
  BY <1>5 DEF Put, counts, claims, values, collector, reclaimer, strings, Bump
<1>6. ASSUME NEW t \in Threads, NEW o \in Objs, NEW k \in Slots, Load(t, o, k)
      PROVE  x \in held[w] => x \in held'[w] \/ Idle(w)
  BY <1>6 DEF Load, Ready, TypeInv
<1>7. ASSUME NEW t \in Threads, NEW o \in Objs, NEW v \in Versions, SaveVersion(t, o, v)
      PROVE  x \in held[w] => x \in held'[w] \/ Idle(w)
  BY <1>7 DEF SaveVersion, counts, claims, values, collector, reclaimer, strings, Build, Ready
<1>8. ASSUME NEW t \in Threads, NEW o \in Objs, WeakRef(t, o)
      PROVE  x \in held[w] => x \in held'[w] \/ Idle(w)
  BY <1>8 DEF WeakRef, counts, claims, values, collector, reclaimer, strings, Ready, Bump
<1>9. ASSUME NEW t \in Threads, NEW o \in Objs, DropWeak(t, o)
      PROVE  x \in held[w] => x \in held'[w] \/ Idle(w)
  BY <1>9 DEF DropWeak, counts, claims, values, collector, reclaimer, strings, FreedIfLast,
      Ready, Bump
<1>10. ASSUME NEW t \in Threads, NEW o \in Objs, StrongRef(t, o)
      PROVE  x \in held[w] => x \in held'[w] \/ Idle(w)
  BY <1>10 DEF StrongRef, counts, claims, values, collector, reclaimer, strings, Ready
<1>11. ASSUME NEW t \in Threads, TryIncRef(t) PROVE x \in held[w] => x \in held'[w] \/ Idle(w)
  BY <1>11 DEF TryIncRef, counts, claims, values, collector, reclaimer, strings, Bump
<1>12. ASSUME NEW t \in Threads, Recheck(t) PROVE x \in held[w] => x \in held'[w] \/ Idle(w)
  BY <1>12 DEF Recheck, Ready, TypeInv
<1>13. ASSUME NEW t \in Threads, Intern(t) PROVE x \in held[w] => x \in held'[w] \/ Idle(w)
  BY <1>13 DEF Intern, counts, claims, values, collector, reclaimer, strings, Ready
<1>14. ASSUME NEW t \in Threads, Lookup(t) PROVE x \in held[w] => x \in held'[w] \/ Idle(w)
  BY <1>14 DEF Lookup, counts, claims, values, collector, reclaimer, strings, Bump
<1>15. ASSUME NEW t \in Threads, NEW s \in Strings, AllocString(t, s)
      PROVE  x \in held[w] => x \in held'[w] \/ Idle(w)
  BY <1>15 DEF AllocString, counts, claims, values, collector, reclaimer, strings, Build
<1>16. ASSUME NEW t \in Threads, PublishString(t) PROVE x \in held[w] => x \in held'[w] \/ Idle(w)
  BY <1>16 DEF PublishString, counts, claims, values, collector, reclaimer, strings
<1>17. ASSUME NEW t \in Threads, Own(t) PROVE x \in held[w] => x \in held'[w] \/ Idle(w)
  BY <1>17 DEF Own, Ready, TypeInv
<1>18. ASSUME NEW a \in Actor, DecRef(a) PROVE x \in held[w] => x \in held'[w] \/ Idle(w)
  BY <1>18 DEF DecRef, counts, claims, values, collector, reclaimer, strings, Bump
<1>19. ASSUME NEW a \in Actor, Claim(a) PROVE x \in held[w] => x \in held'[w] \/ Idle(w)
  BY <1>19 DEF Claim, counts, claims, values, collector, reclaimer, strings
<1>20. ASSUME NEW a \in Actor, DropOnce(a) PROVE x \in held[w] => x \in held'[w] \/ Idle(w)
  BY <1>20 DEF DropOnce, counts, claims, values, collector, reclaimer, strings
<1>21. ASSUME NEW a \in Actor, Null(a) PROVE x \in held[w] => x \in held'[w] \/ Idle(w)
  BY <1>21 DEF Null, counts, claims, values, collector, reclaimer, strings
<1>22. ASSUME NEW a \in Actor, Retire(a) PROVE x \in held[w] => x \in held'[w] \/ Idle(w)
  BY <1>22 DEF Retire, counts, claims, values, collector, reclaimer, strings
<1>23. ASSUME Mark PROVE x \in held[w] => x \in held'[w] \/ Idle(w)
  BY <1>23 DEF Mark, counts, claims, values, collector, reclaimer, strings
<1>24. ASSUME NEW o \in Objs, Trim(o) PROVE x \in held[w] => x \in held'[w] \/ Idle(w)
  BY <1>24 DEF Trim, counts, claims, values, collector, reclaimer, strings
<1>25. ASSUME TrimDone PROVE x \in held[w] => x \in held'[w] \/ Idle(w)
  BY <1>25 DEF TrimDone, counts, claims, values, collector, reclaimer, strings
<1>26. ASSUME Sweep PROVE x \in held[w] => x \in held'[w] \/ Idle(w)
  BY <1>26 DEF Sweep, counts, claims, values, collector, reclaimer, strings
<1>27. ASSUME Publish PROVE x \in held[w] => x \in held'[w] \/ Idle(w)
  BY <1>27 DEF Publish, counts, claims, values, collector, reclaimer, strings
<1>28. ASSUME Drain PROVE x \in held[w] => x \in held'[w] \/ Idle(w)
  BY <1>28 DEF Drain, counts, claims, values, collector, reclaimer, strings
<1>29. ASSUME DropNext PROVE x \in held[w] => x \in held'[w] \/ Idle(w)
  BY <1>29 DEF DropNext, counts, claims, values, collector, reclaimer, strings
<1>30. ASSUME Hold PROVE x \in held[w] => x \in held'[w] \/ Idle(w)
  BY <1>30 DEF Hold, counts, claims, values, collector, reclaimer, strings
<1>31. ASSUME DestroyNext PROVE x \in held[w] => x \in held'[w] \/ Idle(w)
  BY <1>31 DEF DestroyNext, counts, claims, values, collector, reclaimer, strings, Destroy,
      SelfErase
<1>32. ASSUME NEW a \in Actor, Unweak(a) PROVE x \in held[w] => x \in held'[w] \/ Idle(w)
  BY <1>32 DEF Unweak, counts, claims, values, collector, reclaimer, strings, FreedIfLast, Bump
<1>33. ASSUME ReleaseHolds PROVE x \in held[w] => x \in held'[w] \/ Idle(w)
  BY <1>33 DEF ReleaseHolds, counts, claims, values, collector, reclaimer, strings
<1>34. ASSUME NEW o \in Actors, FinalizeActor(o) PROVE x \in held[w] => x \in held'[w] \/ Idle(w)
  BY <1>34 DEF FinalizeActor, counts, claims, values, collector, reclaimer, strings, Bump
<1>35. ASSUME UNCHANGED vars PROVE x \in held[w] => x \in held'[w] \/ Idle(w)
  BY <1>35 DEF vars, counts, claims, values, collector, reclaimer, strings
<1> QED
  BY <1>0, <1>1, <1>2, <1>3, <1>4, <1>5, <1>6, <1>7, <1>8, <1>9, <1>10, <1>11, <1>12, <1>13,
      <1>14, <1>15, <1>16, <1>17, <1>18, <1>19, <1>20, <1>21, <1>22, <1>23, <1>24, <1>25, <1>26,
      <1>27, <1>28, <1>29, <1>30, <1>31, <1>32, <1>33, <1>34, <1>35, StepKinds

(* A slot is emptied, or set by the writer. *)
Filled(q, j) ==
  \/ \E t \in Threads :
       Put(t) /\ q = Head(todo[t]).into /\ j = Head(todo[t]).slot /\ ref'[q][j] = Head(todo[t]).obj
  \/ \E t \in Threads, o \in Objs, v \in Versions :
       /\ SaveVersion(t, o, v)
       /\ \/ q = v /\ j = "edge" /\ ref'[q][j] = ref[o]["edge"]
          \/ q = o /\ j = "version" /\ ref'[q][j] = v

(* Where references come from. *)
LEMMA RefStep ==
  ASSUME TypeInv, NameInv, NEW x \in Objs, NEW j \in Slots, [Next]_vars
  PROVE  ref'[x][j] = ref[x][j] \/ ref'[x][j] = None \/ Filled(x, j)
<1>0. world.threads \subseteq Threads
  BY WorldThreads
<1>1. ASSUME NEW t \in Threads, NEW o \in Objs, New(t, o)
      PROVE  ref'[x][j] = ref[x][j] \/ ref'[x][j] = None \/ Filled(x, j)
  BY <1>1 DEF New, counts, claims, values, collector, reclaimer, strings, Build, Ready, Bump
<1>2. ASSUME NEW t \in Threads, NEW u \in Threads, NEW o \in Objs, Share(t, u, o)
      PROVE  ref'[x][j] = ref[x][j] \/ ref'[x][j] = None \/ Filled(x, j)
  BY <1>2 DEF Share, counts, claims, values, collector, reclaimer, strings, Ready, Bump
<1>3. ASSUME NEW t \in Threads, NEW o \in Objs, Drop(t, o)
      PROVE  ref'[x][j] = ref[x][j] \/ ref'[x][j] = None \/ Filled(x, j)
  BY <1>3 DEF Drop, counts, claims, values, collector, reclaimer, strings, Ready
<1>4. ASSUME NEW t \in Threads, NEW o \in Objs, NEW k \in Slots, NEW p \in Objs, Store(t, o, k, p)
      PROVE  ref'[x][j] = ref[x][j] \/ ref'[x][j] = None \/ Filled(x, j)
  BY <1>4, StoreRef DEF Sets
<1>5. ASSUME NEW t \in Threads, Put(t)
      PROVE  ref'[x][j] = ref[x][j] \/ ref'[x][j] = None \/ Filled(x, j)
  BY <1>5, PutRef DEF Sets, Filled
<1>6. ASSUME NEW t \in Threads, NEW o \in Objs, NEW k \in Slots, Load(t, o, k)
      PROVE  ref'[x][j] = ref[x][j] \/ ref'[x][j] = None \/ Filled(x, j)
  BY <1>6 DEF Load, counts, claims, values, collector, reclaimer, strings, Ready, Bump
<1>7. ASSUME NEW t \in Threads, NEW o \in Objs, NEW v \in Versions, SaveVersion(t, o, v)
      PROVE  ref'[x][j] = ref[x][j] \/ ref'[x][j] = None \/ Filled(x, j)
  BY <1>7, SaveRef DEF Filled
<1>8. ASSUME NEW t \in Threads, NEW o \in Objs, WeakRef(t, o)
      PROVE  ref'[x][j] = ref[x][j] \/ ref'[x][j] = None \/ Filled(x, j)
  BY <1>8 DEF WeakRef, counts, claims, values, collector, reclaimer, strings, Ready, Bump
<1>9. ASSUME NEW t \in Threads, NEW o \in Objs, DropWeak(t, o)
      PROVE  ref'[x][j] = ref[x][j] \/ ref'[x][j] = None \/ Filled(x, j)
  BY <1>9 DEF DropWeak, counts, claims, values, collector, reclaimer, strings, FreedIfLast,
      Ready, Bump
<1>10. ASSUME NEW t \in Threads, NEW o \in Objs, StrongRef(t, o)
      PROVE  ref'[x][j] = ref[x][j] \/ ref'[x][j] = None \/ Filled(x, j)
  BY <1>10 DEF StrongRef, counts, claims, values, collector, reclaimer, strings, Ready
<1>11. ASSUME NEW t \in Threads, TryIncRef(t)
      PROVE  ref'[x][j] = ref[x][j] \/ ref'[x][j] = None \/ Filled(x, j)
  BY <1>11 DEF TryIncRef, counts, claims, values, collector, reclaimer, strings, Bump
<1>12. ASSUME NEW t \in Threads, Recheck(t)
      PROVE  ref'[x][j] = ref[x][j] \/ ref'[x][j] = None \/ Filled(x, j)
  BY <1>12 DEF Recheck, counts, claims, values, collector, reclaimer, strings
<1>13. ASSUME NEW t \in Threads, Intern(t)
      PROVE  ref'[x][j] = ref[x][j] \/ ref'[x][j] = None \/ Filled(x, j)
  BY <1>13 DEF Intern, counts, claims, values, collector, reclaimer, strings, Ready
<1>14. ASSUME NEW t \in Threads, Lookup(t)
      PROVE  ref'[x][j] = ref[x][j] \/ ref'[x][j] = None \/ Filled(x, j)
  BY <1>14 DEF Lookup, counts, claims, values, collector, reclaimer, strings, Bump
<1>15. ASSUME NEW t \in Threads, NEW s \in Strings, AllocString(t, s)
      PROVE  ref'[x][j] = ref[x][j] \/ ref'[x][j] = None \/ Filled(x, j)
  BY <1>15 DEF AllocString, counts, claims, values, collector, reclaimer, strings, Build
<1>16. ASSUME NEW t \in Threads, PublishString(t)
      PROVE  ref'[x][j] = ref[x][j] \/ ref'[x][j] = None \/ Filled(x, j)
  BY <1>16 DEF PublishString, counts, claims, values, collector, reclaimer, strings
<1>17. ASSUME NEW t \in Threads, Own(t)
      PROVE  ref'[x][j] = ref[x][j] \/ ref'[x][j] = None \/ Filled(x, j)
  BY <1>17 DEF Own, counts, claims, values, collector, reclaimer, strings, Bump
<1>18. ASSUME NEW a \in Actor, DecRef(a)
      PROVE  ref'[x][j] = ref[x][j] \/ ref'[x][j] = None \/ Filled(x, j)
  BY <1>18 DEF DecRef, counts, claims, values, collector, reclaimer, strings, Bump
<1>19. ASSUME NEW a \in Actor, Claim(a)
      PROVE  ref'[x][j] = ref[x][j] \/ ref'[x][j] = None \/ Filled(x, j)
  BY <1>19 DEF Claim, counts, claims, values, collector, reclaimer, strings
<1>20. ASSUME NEW a \in Actor, DropOnce(a)
      PROVE  ref'[x][j] = ref[x][j] \/ ref'[x][j] = None \/ Filled(x, j)
  BY <1>20, DropOnceRef DEF Sets
<1>21. ASSUME NEW a \in Actor, Null(a)
      PROVE  ref'[x][j] = ref[x][j] \/ ref'[x][j] = None \/ Filled(x, j)
  BY <1>21 DEF Null, counts, claims, values, collector, reclaimer, strings
<1>22. ASSUME NEW a \in Actor, Retire(a)
      PROVE  ref'[x][j] = ref[x][j] \/ ref'[x][j] = None \/ Filled(x, j)
  BY <1>22 DEF Retire, counts, claims, values, collector, reclaimer, strings
<1>23. ASSUME Mark PROVE ref'[x][j] = ref[x][j] \/ ref'[x][j] = None \/ Filled(x, j)
  BY <1>23 DEF Mark, counts, claims, values, collector, reclaimer, strings
<1>24. ASSUME NEW o \in Objs, Trim(o)
      PROVE  ref'[x][j] = ref[x][j] \/ ref'[x][j] = None \/ Filled(x, j)
  BY <1>24, TrimRef DEF Sets
<1>25. ASSUME TrimDone PROVE ref'[x][j] = ref[x][j] \/ ref'[x][j] = None \/ Filled(x, j)
  BY <1>25 DEF TrimDone, counts, claims, values, collector, reclaimer, strings
<1>26. ASSUME Sweep PROVE ref'[x][j] = ref[x][j] \/ ref'[x][j] = None \/ Filled(x, j)
  BY <1>26 DEF Sweep, counts, claims, values, collector, reclaimer, strings
<1>27. ASSUME Publish PROVE ref'[x][j] = ref[x][j] \/ ref'[x][j] = None \/ Filled(x, j)
  BY <1>27 DEF Publish, counts, claims, values, collector, reclaimer, strings
<1>28. ASSUME Drain PROVE ref'[x][j] = ref[x][j] \/ ref'[x][j] = None \/ Filled(x, j)
  BY <1>28 DEF Drain, counts, claims, values, collector, reclaimer, strings
<1>29. ASSUME DropNext PROVE ref'[x][j] = ref[x][j] \/ ref'[x][j] = None \/ Filled(x, j)
  BY <1>29 DEF DropNext, counts, claims, values, collector, reclaimer, strings
<1>30. ASSUME Hold PROVE ref'[x][j] = ref[x][j] \/ ref'[x][j] = None \/ Filled(x, j)
  BY <1>30 DEF Hold, counts, claims, values, collector, reclaimer, strings
<1>31. ASSUME DestroyNext PROVE ref'[x][j] = ref[x][j] \/ ref'[x][j] = None \/ Filled(x, j)
  BY <1>31, DestroyRef DEF Sets
<1>32. ASSUME NEW a \in Actor, Unweak(a)
      PROVE  ref'[x][j] = ref[x][j] \/ ref'[x][j] = None \/ Filled(x, j)
  BY <1>32 DEF Unweak, counts, claims, values, collector, reclaimer, strings, FreedIfLast, Bump
<1>33. ASSUME ReleaseHolds PROVE ref'[x][j] = ref[x][j] \/ ref'[x][j] = None \/ Filled(x, j)
  BY <1>33 DEF ReleaseHolds, counts, claims, values, collector, reclaimer, strings
<1>34. ASSUME NEW o \in Actors, FinalizeActor(o)
      PROVE  ref'[x][j] = ref[x][j] \/ ref'[x][j] = None \/ Filled(x, j)
  BY <1>34 DEF FinalizeActor, counts, claims, values, collector, reclaimer, strings, Bump
<1>35. ASSUME UNCHANGED vars PROVE ref'[x][j] = ref[x][j] \/ ref'[x][j] = None \/ Filled(x, j)
  BY <1>35 DEF vars, counts, claims, values, collector, reclaimer, strings
<1> QED
  BY <1>0, <1>1, <1>2, <1>3, <1>4, <1>5, <1>6, <1>7, <1>8, <1>9, <1>10, <1>11, <1>12, <1>13,
      <1>14, <1>15, <1>16, <1>17, <1>18, <1>19, <1>20, <1>21, <1>22, <1>23, <1>24, <1>25, <1>26,
      <1>27, <1>28, <1>29, <1>30, <1>31, <1>32, <1>33, <1>34, <1>35, StepKinds

(* A step that is taken does not stay. *)
LEMMA TakenGone ==
  ASSUME TypeInv, NameInv, NEW b \in Actor, Takes(b), Same(b, Cnt(todo, b))
  PROVE  FALSE
<1>0. Cnt(todo, b) \in Nat
  BY CntType DEF TypeInv
<1>1. ASSUME DecRef(b) PROVE FALSE
  <2>1. Cnt(todo, b) \in Nat \ {0} /\ Stp(todo, b, Cnt(todo, b)).op = "dec"
    BY <1>1, DecRefShape DEF Now
  <2>2. CASE strong[Current(b)] <= 1
    <3>1. After1(b, Op("claim", Current(b)))
      BY <1>1, <2>2, DecRefShape
    <3> QED
      BY <2>1, <3>1 DEF After1, Same, Op
  <2>3. CASE ~(strong[Current(b)] <= 1)
    <3>1. After0(b)
      BY <1>1, <2>3, DecRefShape
    <3> QED
      BY <2>1, <3>1 DEF After0, Same, Op
  <2> QED
    BY <2>2, <2>3
<1>2. ASSUME Claim(b) PROVE FALSE
  <2>1. Cnt(todo, b) \in Nat \ {0} /\ Stp(todo, b, Cnt(todo, b)).op = "claim"
    BY <1>2, ClaimShape DEF Now
  <2>2. CASE collecting[Current(b)]
    <3>1. After0(b)
      BY <1>2, <2>2, ClaimShape
    <3> QED
      BY <2>1, <3>1 DEF After0, Same, Op
  <2>3. CASE ~collecting[Current(b)] /\ InProgress
    <3>1. After3(b, Op("dropOnce", Current(b)), Op("null", Current(b)), Op("retire", Current(b)))
      BY <1>2, <2>3, ClaimShape
    <3> QED
      BY <2>1, <3>1 DEF After3, Same, Op
  <2>4. CASE ~collecting[Current(b)] /\ ~InProgress
    <3>1. After2(b, Op("null", Current(b)), Op("retire", Current(b)))
      BY <1>2, <2>4, ClaimShape
    <3> QED
      BY <2>1, <3>1 DEF After2, Same, Op
  <2> QED
    BY <2>2, <2>3, <2>4
<1>3. ASSUME DropOnce(b) PROVE FALSE
  <2>1. Cnt(todo, b) \in Nat \ {0} /\ Stp(todo, b, Cnt(todo, b)).op = "dropOnce"
    BY <1>3, DropOnceShape DEF Now
  <2>2. CASE dropClaimed[Current(b)]
    <3>1. After0(b)
      BY <1>3, <2>2, DropOnceShape
    <3> QED
      BY <2>1, <3>1 DEF After0, Same, Op
  <2>3. CASE ~dropClaimed[Current(b)] /\ ref[Current(b)]["version"] = None /\ ref[Current(b)]["edge"] = None
    <3>1. After0(b)
      BY <1>3, <2>3, DropOnceShape
    <3> QED
      BY <2>1, <3>1 DEF After0, Same, Op
  <2>4. CASE ~dropClaimed[Current(b)] /\ ref[Current(b)]["version"] # None /\ ref[Current(b)]["edge"] = None
    <3>1. After1(b, Op("dec", ref[Current(b)]["version"]))
      BY <1>3, <2>4, DropOnceShape
    <3> QED
      BY <2>1, <3>1 DEF After1, Same, Op
  <2>5. CASE ~dropClaimed[Current(b)] /\ ref[Current(b)]["version"] = None /\ ref[Current(b)]["edge"] # None
    <3>1. After1(b, Op("dec", ref[Current(b)]["edge"]))
      BY <1>3, <2>5, DropOnceShape
    <3> QED
      BY <2>1, <3>1 DEF After1, Same, Op
  <2>6. CASE ~dropClaimed[Current(b)] /\ ref[Current(b)]["version"] # None /\ ref[Current(b)]["edge"] # None
    <3>1. After2(b, Op("dec", ref[Current(b)]["version"]), Op("dec", ref[Current(b)]["edge"]))
      BY <1>3, <2>6, DropOnceShape
    <3> QED
      BY <2>1, <3>1 DEF After2, Same, Op
  <2> QED
    BY <2>2, <2>3, <2>4, <2>5, <2>6
<1>4. ASSUME Null(b) PROVE FALSE
  <2>1. Cnt(todo, b) \in Nat \ {0} /\ Stp(todo, b, Cnt(todo, b)).op = "null"
    BY <1>4, NullShape DEF Now
  <2>2. CASE TRUE
    <3>1. After0(b)
      BY <1>4, <2>2, NullShape
    <3> QED
      BY <2>1, <3>1 DEF After0, Same, Op
  <2> QED
    BY <2>2
<1>5. ASSUME Retire(b) PROVE FALSE
  <2>1. Cnt(todo, b) \in Nat \ {0} /\ Stp(todo, b, Cnt(todo, b)).op = "retire"
    BY <1>5, RetireShape DEF Now
  <2>2. CASE TRUE
    <3>1. After0(b)
      BY <1>5, <2>2, RetireShape
    <3> QED
      BY <2>1, <3>1 DEF After0, Same, Op
  <2> QED
    BY <2>2
<1>6. ASSUME Unweak(b) PROVE FALSE
  <2>1. Cnt(todo, b) \in Nat \ {0} /\ Stp(todo, b, Cnt(todo, b)).op = "unweak"
    BY <1>6, UnweakShape DEF Now
  <2>2. CASE TRUE
    <3>1. After0(b)
      BY <1>6, <2>2, UnweakShape
    <3> QED
      BY <2>1, <3>1 DEF After0, Same, Op
  <2> QED
    BY <2>2
<1>7. ASSUME b \in Threads, Put(b) PROVE FALSE
  <2>1. Cnt(todo, b) \in Nat \ {0} /\ Stp(todo, b, Cnt(todo, b)).op = "put"
    BY <1>7, PutShape DEF Now
  <2>2. CASE TRUE
    <3>1. After0(b)
      BY <1>7, <2>2, PutShape
    <3> QED
      BY <2>1, <3>1 DEF After0, Same, Op
  <2> QED
    BY <2>2
<1>8. ASSUME b \in Threads, TryIncRef(b) PROVE FALSE
  <2>1. Cnt(todo, b) \in Nat \ {0} /\ Stp(todo, b, Cnt(todo, b)).op = "try"
    BY <1>8, TryIncRefShape DEF Now
  <2>2. CASE strong[Current(b)] > 0
    <3>1. After1(b, Op("recheck", Current(b)))
      BY <1>8, <2>2, TryIncRefShape
    <3> QED
      BY <2>1, <3>1 DEF After1, Same, Op
  <2>3. CASE ~(strong[Current(b)] > 0)
    <3>1. After0(b)
      BY <1>8, <2>3, TryIncRefShape
    <3> QED
      BY <2>1, <3>1 DEF After0, Same, Op
  <2> QED
    BY <2>2, <2>3
<1>9. ASSUME b \in Threads, Recheck(b) PROVE FALSE
  <2>1. Cnt(todo, b) \in Nat \ {0} /\ Stp(todo, b, Cnt(todo, b)).op = "recheck"
    BY <1>9, RecheckShape DEF Now
  <2>2. CASE linked[Current(b)]
    <3>1. After0(b)
      BY <1>9, <2>2, RecheckShape
    <3> QED
      BY <2>1, <3>1 DEF After0, Same, Op
  <2>3. CASE ~linked[Current(b)]
    <3>1. After1(b, Op("dec", Current(b)))
      BY <1>9, <2>3, RecheckShape
    <3> QED
      BY <2>1, <3>1 DEF After1, Same, Op
  <2> QED
    BY <2>2, <2>3
<1>10. ASSUME b \in Threads, Lookup(b) PROVE FALSE
  <2>1. Cnt(todo, b) \in Nat \ {0} /\ Stp(todo, b, Cnt(todo, b)).op = "lookup"
    BY <1>10, LookupShape DEF Now
  <2>2. CASE Found
    <3>1. After2(b, Op("own", table), Op("dec", table))
      BY <1>10, <2>2, LookupShape DEF Found
    <3> QED
      BY <2>1, <3>1 DEF After2, Same, Op
  <2>3. CASE ~Found
    <3>1. After1(b, Op("alloc", None))
      BY <1>10, <2>3, LookupShape DEF Found
    <3> QED
      BY <2>1, <3>1 DEF After1, Same, Op
  <2> QED
    BY <2>2, <2>3
<1>11. ASSUME b \in Threads, PublishString(b) PROVE FALSE
  <2>1. Cnt(todo, b) \in Nat \ {0} /\ Stp(todo, b, Cnt(todo, b)).op = "publish"
    BY <1>11, PublishStringShape DEF Now
  <2>2. CASE Found
    <3>1. After3(b, Op("dec", Current(b)), Op("own", table), Op("dec", table))
      BY <1>11, <2>2, PublishStringShape DEF Found
    <3> QED
      BY <2>1, <3>1 DEF After3, Same, Op
  <2>3. CASE ~Found
    <3>1. After1(b, Op("own", Current(b)))
      BY <1>11, <2>3, PublishStringShape DEF Found
    <3> QED
      BY <2>1, <3>1 DEF After1, Same, Op
  <2> QED
    BY <2>2, <2>3
<1>12. ASSUME b \in Threads, Own(b) PROVE FALSE
  <2>1. Cnt(todo, b) \in Nat \ {0} /\ Stp(todo, b, Cnt(todo, b)).op = "own"
    BY <1>12, OwnShape DEF Now
  <2>2. CASE TRUE
    <3>1. After0(b)
      BY <1>12, <2>2, OwnShape
    <3> QED
      BY <2>1, <3>1 DEF After0, Same, Op
  <2> QED
    BY <2>2
<1>13. ASSUME b \in Threads, NEW s \in Strings, AllocString(b, s) PROVE FALSE
  <2>1. Cnt(todo, b) \in Nat \ {0} /\ Stp(todo, b, Cnt(todo, b)).op = "alloc"
    BY <1>13, AllocStringShape DEF Now
  <2>2. CASE TRUE
    <3>1. After1(b, Op("publish", s))
      BY <1>13, <2>2, AllocStringShape
    <3> QED
      BY <2>1, <3>1 DEF After1, Same, Op
  <2> QED
    BY <2>2
<1> QED
  BY <1>1, <1>2, <1>3, <1>4, <1>5, <1>6, <1>7, <1>8, <1>9, <1>10, <1>11, <1>12, <1>13 DEF Takes

(* The live stay live until they die. *)
LEMMA LiveStep ==
  ASSUME TypeInv, NameInv, StrongInv, WeakInv, LinkInv, PlaceInv, BatchInv, RefInv, HeldInv,
         DecInv, ClaimsInv, RetireInv, ThreadInv, StringInv, UnweakInv, MarkInv, PhaseInv,
         TableInv, NEW x \in Objs, [Next]_vars
  PROVE  Live(x) => Live(x)' \/ Dies(x)
<1> SUFFICES ASSUME Live(x) PROVE Live(x)' \/ Dies(x)
  OBVIOUS
<1>1. phase'[x] = phase[x] \/ Born(x) \/ Ends(x)
  BY PhaseStep
<1>2. collecting'[x] = collecting[x] \/ Dies(x)
  BY CollectStep
<1>3. ~Born(x)
  BY DEF Born, Live
<1>4. ~Ends(x)
  <2>1. ~(DestroyNext /\ x = Head(rest))
    <3> SUFFICES ASSUME DestroyNext, x = Head(rest) PROVE FALSE
      OBVIOUS
    <3>1. ToVisit(x)
      BY HeadIn DEF DestroyNext, ToVisit, TypeInv
    <3> QED
      BY <3>1 DEF BatchInv, BatchOK, Live, Dead
  <2>2. ~FinalizeActor(x)
    BY DEF FinalizeActor, BatchInv, BatchOK, Live, Dead
  <2> QED
    BY <2>1, <2>2 DEF Ends, Live
<1> QED
  BY <1>1, <1>2, <1>3, <1>4 DEF Live

(* Who dies was live, and no thread can reach it. *)
LEMMA DiesParts ==
  ASSUME TypeInv, NameInv, StrongInv, WeakInv, LinkInv, PlaceInv, BatchInv, RefInv, HeldInv,
         DecInv, ClaimsInv, RetireInv, ThreadInv, StringInv, UnweakInv, MarkInv, PhaseInv,
         TableInv, NEW x \in Objs, [Next]_vars, Dies(x)
  PROVE  /\ Live(x) /\ phase'[x] = phase[x]
         /\ \/ strong[x] = 0 /\ \E a \in Actor : Claim(a) /\ x = Current(a)
            \/ Sweep /\ x \in Unmarked /\ x \notin marked
<1>1. CASE \E a \in Actor : Claim(a) /\ x = Current(a)
  <2>1. PICK a \in Actor : Claim(a) /\ x = Current(a)
    BY <1>1
  <2>2. strong[x] = 0 /\ (Live(x) \/ Waiting(x))
    BY <2>1, ClaimHere DEF Claim
  <2>3. Live(x)
    BY <2>2 DEF Waiting, Dies
  <2> QED
    BY <2>1, <2>2, <2>3 DEF Claim
<1>2. CASE Sweep /\ x \in Unmarked
  BY <1>2 DEF Sweep, Unmarked, Live
<1> QED
  BY <1>1, <1>2 DEF Dies

(* An object with an owner stays live, but for the sweep. *)
LEMMA LiveKept ==
  ASSUME TypeInv, NameInv, StrongInv, WeakInv, LinkInv, PlaceInv, BatchInv, RefInv, HeldInv,
         DecInv, ClaimsInv, RetireInv, ThreadInv, StringInv, UnweakInv, MarkInv, PhaseInv,
         TableInv, NEW x \in Objs, [Next]_vars, Live(x), strong[x] >= 1
  PROVE  Live(x)' \/ (Sweep /\ x \in Unmarked)
<1>1. strong[x] \in Nat
  BY Owned
<1> QED
  BY <1>1, LiveStep, DiesParts

(* What waits for the reclaimer waits until its batch is done. *)
LEMMA WaitingStep ==
  ASSUME TypeInv, NameInv, StrongInv, WeakInv, LinkInv, PlaceInv, BatchInv, RefInv, HeldInv,
         DecInv, ClaimsInv, RetireInv, ThreadInv, StringInv, UnweakInv, MarkInv, PhaseInv,
         TableInv, NEW x \in Objs, [Next]_vars
  PROVE  Waiting(x) => Waiting(x)' \/ (ReleaseHolds /\ InBatch(x))
<1>0. world.threads \subseteq Threads
  BY WorldThreads
<1>1. ASSUME NEW t \in Threads, NEW o \in Objs, New(t, o)
      PROVE  Waiting(x) => Waiting(x)' \/ (ReleaseHolds /\ InBatch(x))
  BY <1>1, NoneParts DEF New, Build, TypeInv, Waiting, InBatch, Queued, Swept, collector,
      reclaimer, strings, values
<1>2. ASSUME NEW t \in Threads, NEW u \in Threads, NEW o \in Objs, Share(t, u, o)
      PROVE  Waiting(x) => Waiting(x)' \/ (ReleaseHolds /\ InBatch(x))
  BY <1>2 DEF Share, counts, claims, values, collector, reclaimer, strings, Ready, Bump,
      Waiting, InBatch, Queued, Swept
<1>3. ASSUME NEW t \in Threads, NEW o \in Objs, Drop(t, o)
      PROVE  Waiting(x) => Waiting(x)' \/ (ReleaseHolds /\ InBatch(x))
  BY <1>3 DEF Drop, counts, claims, values, collector, reclaimer, strings, Ready, Waiting,
      InBatch, Queued, Swept
<1>4. ASSUME NEW t \in Threads, NEW o \in Objs, NEW k \in Slots, NEW p \in Objs, Store(t, o, k, p)
      PROVE  Waiting(x) => Waiting(x)' \/ (ReleaseHolds /\ InBatch(x))
  BY <1>4 DEF Store, counts, claims, values, collector, reclaimer, strings, Ready, Waiting,
      InBatch, Queued, Swept
<1>5. ASSUME NEW t \in Threads, Put(t)
      PROVE  Waiting(x) => Waiting(x)' \/ (ReleaseHolds /\ InBatch(x))
  BY <1>5 DEF Put, counts, claims, values, collector, reclaimer, strings, Bump, Waiting,
      InBatch, Queued, Swept
<1>6. ASSUME NEW t \in Threads, NEW o \in Objs, NEW k \in Slots, Load(t, o, k)
      PROVE  Waiting(x) => Waiting(x)' \/ (ReleaseHolds /\ InBatch(x))
  BY <1>6 DEF Load, counts, claims, values, collector, reclaimer, strings, Ready, Bump, Waiting,
      InBatch, Queued, Swept
<1>7. ASSUME NEW t \in Threads, NEW o \in Objs, NEW v \in Versions, SaveVersion(t, o, v)
      PROVE  Waiting(x) => Waiting(x)' \/ (ReleaseHolds /\ InBatch(x))
  BY <1>7, NoneParts DEF SaveVersion, Build, TypeInv, Waiting, InBatch, Queued, Swept,
      collector, reclaimer, strings, values
<1>8. ASSUME NEW t \in Threads, NEW o \in Objs, WeakRef(t, o)
      PROVE  Waiting(x) => Waiting(x)' \/ (ReleaseHolds /\ InBatch(x))
  BY <1>8 DEF WeakRef, counts, claims, values, collector, reclaimer, strings, Ready, Bump,
      Waiting, InBatch, Queued, Swept
<1>9. ASSUME NEW t \in Threads, NEW o \in Objs, DropWeak(t, o)
      PROVE  Waiting(x) => Waiting(x)' \/ (ReleaseHolds /\ InBatch(x))
  BY <1>9, LastWeak DEF DropWeak, FreedIfLast, TypeInv, claims, collector, reclaimer, Waiting,
      InBatch, Queued, Swept
<1>10. ASSUME NEW t \in Threads, NEW o \in Objs, StrongRef(t, o)
      PROVE  Waiting(x) => Waiting(x)' \/ (ReleaseHolds /\ InBatch(x))
  BY <1>10 DEF StrongRef, counts, claims, values, collector, reclaimer, strings, Ready, Waiting,
      InBatch, Queued, Swept
<1>11. ASSUME NEW t \in Threads, TryIncRef(t)
      PROVE  Waiting(x) => Waiting(x)' \/ (ReleaseHolds /\ InBatch(x))
  BY <1>11 DEF TryIncRef, counts, claims, values, collector, reclaimer, strings, Bump, Waiting,
      InBatch, Queued, Swept
<1>12. ASSUME NEW t \in Threads, Recheck(t)
      PROVE  Waiting(x) => Waiting(x)' \/ (ReleaseHolds /\ InBatch(x))
  BY <1>12 DEF Recheck, counts, claims, values, collector, reclaimer, strings, Waiting, InBatch,
      Queued, Swept
<1>13. ASSUME NEW t \in Threads, Intern(t)
      PROVE  Waiting(x) => Waiting(x)' \/ (ReleaseHolds /\ InBatch(x))
  BY <1>13 DEF Intern, counts, claims, values, collector, reclaimer, strings, Ready, Waiting,
      InBatch, Queued, Swept
<1>14. ASSUME NEW t \in Threads, Lookup(t)
      PROVE  Waiting(x) => Waiting(x)' \/ (ReleaseHolds /\ InBatch(x))
  BY <1>14 DEF Lookup, counts, claims, values, collector, reclaimer, strings, Bump, Waiting,
      InBatch, Queued, Swept
<1>15. ASSUME NEW t \in Threads, NEW s \in Strings, AllocString(t, s)
      PROVE  Waiting(x) => Waiting(x)' \/ (ReleaseHolds /\ InBatch(x))
  BY <1>15, NoneParts DEF AllocString, Build, TypeInv, Waiting, InBatch, Queued, Swept,
      collector, reclaimer, strings, values
<1>16. ASSUME NEW t \in Threads, PublishString(t)
      PROVE  Waiting(x) => Waiting(x)' \/ (ReleaseHolds /\ InBatch(x))
  BY <1>16 DEF PublishString, counts, claims, values, collector, reclaimer, strings, Waiting,
      InBatch, Queued, Swept
<1>17. ASSUME NEW t \in Threads, Own(t)
      PROVE  Waiting(x) => Waiting(x)' \/ (ReleaseHolds /\ InBatch(x))
  BY <1>17 DEF Own, counts, claims, values, collector, reclaimer, strings, Bump, Waiting,
      InBatch, Queued, Swept
<1>18. ASSUME NEW a \in Actor, DecRef(a)
      PROVE  Waiting(x) => Waiting(x)' \/ (ReleaseHolds /\ InBatch(x))
  BY <1>18 DEF DecRef, counts, claims, values, collector, reclaimer, strings, Bump, Waiting,
      InBatch, Queued, Swept
<1>19. ASSUME NEW a \in Actor, Claim(a)
      PROVE  Waiting(x) => Waiting(x)' \/ (ReleaseHolds /\ InBatch(x))
  BY <1>19, ClaimHere DEF Claim, TypeInv, collector, reclaimer, Waiting, InBatch, Queued, Swept
<1>20. ASSUME NEW a \in Actor, DropOnce(a)
      PROVE  Waiting(x) => Waiting(x)' \/ (ReleaseHolds /\ InBatch(x))
  BY <1>20 DEF DropOnce, counts, claims, values, collector, reclaimer, strings, Waiting,
      InBatch, Queued, Swept
<1>21. ASSUME NEW a \in Actor, Null(a)
      PROVE  Waiting(x) => Waiting(x)' \/ (ReleaseHolds /\ InBatch(x))
  BY <1>21 DEF Null, counts, claims, values, collector, reclaimer, strings, Waiting, InBatch,
      Queued, Swept
<1>22. ASSUME NEW a \in Actor, Retire(a)
      PROVE  Waiting(x) => Waiting(x)' \/ (ReleaseHolds /\ InBatch(x))
  <2>1. ToSet(queue') = ToSet(queue) \cup {Current(a)}
    BY <1>22, RetireHere, AppendIn DEF Retire, TypeInv
  <2> QED
    BY <1>22, <2>1 DEF Retire, claims, collector, reclaimer, Waiting, InBatch, Queued, Swept
<1>23. ASSUME Mark PROVE Waiting(x) => Waiting(x)' \/ (ReleaseHolds /\ InBatch(x))
  BY <1>23 DEF Mark, counts, claims, values, collector, reclaimer, strings, Waiting, InBatch,
      Queued, Swept
<1>24. ASSUME NEW o \in Objs, Trim(o)
      PROVE  Waiting(x) => Waiting(x)' \/ (ReleaseHolds /\ InBatch(x))
  BY <1>24 DEF Trim, counts, claims, values, collector, reclaimer, strings, Waiting, InBatch,
      Queued, Swept
<1>25. ASSUME TrimDone PROVE Waiting(x) => Waiting(x)' \/ (ReleaseHolds /\ InBatch(x))
  BY <1>25 DEF TrimDone, counts, claims, values, collector, reclaimer, strings, Waiting,
      InBatch, Queued, Swept
<1>26. ASSUME Sweep PROVE Waiting(x) => Waiting(x)' \/ (ReleaseHolds /\ InBatch(x))
  <2>1. Swept(x) => FALSE
    BY <1>26, EmptyIn DEF Sweep, PhaseInv, Swept
  <2> QED
    BY <1>26, <2>1 DEF Sweep, reclaimer, TypeInv, Waiting, InBatch, Queued, Swept
<1>27. ASSUME Publish PROVE Waiting(x) => Waiting(x)' \/ (ReleaseHolds /\ InBatch(x))
  <2>1. ToSet(queue') = ToSet(queue) \cup ToSet(swept)
    BY <1>27, JoinIn DEF Publish, TypeInv
  <2> QED
    BY <1>27, <2>1 DEF Publish, claims, reclaimer, Waiting, InBatch, Queued, Swept
<1>28. ASSUME Drain PROVE Waiting(x) => Waiting(x)' \/ (ReleaseHolds /\ InBatch(x))
  <2>1. batch = <<>>
    BY <1>28 DEF Drain, PhaseInv
  <2>2. ~InBatch(x)
    BY <2>1, EmptyIn DEF InBatch
  <2> QED
    BY <1>28, <2>2 DEF Drain, claims, collector, Waiting, InBatch, Queued, Swept
<1>29. ASSUME DropNext PROVE Waiting(x) => Waiting(x)' \/ (ReleaseHolds /\ InBatch(x))
  BY <1>29 DEF DropNext, counts, claims, values, collector, reclaimer, strings, Waiting,
      InBatch, Queued, Swept
<1>30. ASSUME Hold PROVE Waiting(x) => Waiting(x)' \/ (ReleaseHolds /\ InBatch(x))
  BY <1>30 DEF Hold, counts, claims, values, collector, reclaimer, strings, Waiting, InBatch,
      Queued, Swept
<1>31. ASSUME DestroyNext PROVE Waiting(x) => Waiting(x)' \/ (ReleaseHolds /\ InBatch(x))
  <2>1. Head(rest) \in Objs /\ InBatch(Head(rest))
    BY <1>31, HeadIn DEF DestroyNext, ToVisit, TypeInv, BatchInv, BatchOK
  <2>2. x # Head(rest) => phase'[x] = phase[x]
    BY <1>31 DEF DestroyNext, Destroy, TypeInv
  <2> QED
    BY <1>31, <2>1, <2>2 DEF DestroyNext, claims, collector, Waiting, InBatch, Queued, Swept
<1>32. ASSUME NEW a \in Actor, Unweak(a)
      PROVE  Waiting(x) => Waiting(x)' \/ (ReleaseHolds /\ InBatch(x))
  BY <1>32, UnweakHere DEF Unweak, FreedIfLast, TypeInv, claims, collector, reclaimer, Waiting,
      InBatch, Queued, Swept
<1>33. ASSUME ReleaseHolds PROVE Waiting(x) => Waiting(x)' \/ (ReleaseHolds /\ InBatch(x))
  <2>1. ~InBatch(x) => phase'[x] = phase[x]
    BY <1>33 DEF ReleaseHolds, InBatch
  <2> QED
    BY <1>33, <2>1 DEF ReleaseHolds, claims, collector, Waiting, InBatch, Queued, Swept
<1>34. ASSUME NEW o \in Actors, FinalizeActor(o)
      PROVE  Waiting(x) => Waiting(x)' \/ (ReleaseHolds /\ InBatch(x))
  <2>1. o \in Objs /\ dropClaimed[o] /\ Dead(o) /\ o \in finalize
    BY <1>34, NoneParts DEF FinalizeActor, BatchInv, BatchOK
  <2>2. ~Queued(o) /\ ~Swept(o)
    BY <2>1 DEF PlaceInv, PlaceOK
  <2>3. InBatch(o) => rec = "destroy"
    <3>1. rec = "idle" => ~InBatch(o)
      BY EmptyIn DEF PhaseInv, InBatch
    <3> QED
      BY <3>1, <2>1 DEF BatchInv, BatchOK, TypeInv
  <2>4. x # o => phase'[x] = phase[x]
    BY <1>34 DEF FinalizeActor
  <2> QED
    BY <1>34, <2>2, <2>3, <2>4 DEF FinalizeActor, claims, collector, Waiting, InBatch, Queued, Swept
<1>35. ASSUME UNCHANGED vars PROVE Waiting(x) => Waiting(x)' \/ (ReleaseHolds /\ InBatch(x))
  BY <1>35 DEF vars, counts, claims, values, collector, reclaimer, strings, Waiting, InBatch,
      Queued, Swept
<1> QED
  BY <1>0, <1>1, <1>2, <1>3, <1>4, <1>5, <1>6, <1>7, <1>8, <1>9, <1>10, <1>11, <1>12, <1>13,
      <1>14, <1>15, <1>16, <1>17, <1>18, <1>19, <1>20, <1>21, <1>22, <1>23, <1>24, <1>25, <1>26,
      <1>27, <1>28, <1>29, <1>30, <1>31, <1>32, <1>33, <1>34, <1>35, StepKinds

(* Who is being retired was, and is not just queued, or has just been claimed. *)
LEMMA RetiringIn ==
  ASSUME TypeInv, NameInv, StrongInv, WeakInv, LinkInv, PlaceInv, BatchInv, RefInv, HeldInv,
         DecInv, ClaimsInv, RetireInv, ThreadInv, StringInv, UnweakInv, MarkInv, PhaseInv,
         TableInv, NEW x \in Objs, [Next]_vars, Retiring(x)'
  PROVE  \/ Retiring(x) /\ ~\E a \in Actor : Retire(a) /\ x = Current(a)
         \/ ~collecting[x] /\ \E a \in Actor : Claim(a) /\ x = Current(a)
<1>1. PICK b \in Actor : \E m \in 1 .. Cnt(todo', b) : Then1Is(b, m, "retire", x)
  BY DEF Retiring, Has, Count, Step, Then1Is
<1>2. PICK m \in 1 .. Cnt(todo', b) : Then1Is(b, m, "retire", x)
  BY <1>1
<1>3. CASE Same(b, m)
  <2>1. m \in 1 .. Count(b) /\ Has(b, m, "retire", x)
    BY <1>2, <1>3 DEF Same, Has, Count, Step, Then1Is
  <2>2. Retiring(x)
    BY <2>1 DEF Retiring
  <2>3. ASSUME NEW a \in Actor, Retire(a), x = Current(a) PROVE FALSE
    <3>1. b = a /\ m = Count(a)
      BY <2>1, <2>3, RetireHere DEF Retire
    <3> QED
      BY <1>3, <2>3, <3>1, TakenGone DEF Takes, Count
  <2> QED
    BY <2>2, <2>3
<1>4. CASE NewRetire(b, m)
  BY <1>2, <1>4 DEF NewRetire, Then1Is
<1>5. CASE NewStep(b, m)
  BY <1>2, <1>4, <1>5 DEF NewStep, NewDec, NewClaim, NewNull, NewDropOnce, NewPut, NewTry, NewRecheck,
       NewLookup, NewAlloc, NewPublish, NewOwn, NewUnweak, Then1Is, PutOp
<1> QED
  BY <1>3, <1>5, Origin

(* The step an actor takes is the one it is at. *)
LEMMA TakesOp ==
  ASSUME TypeInv, NEW b \in Actor, Takes(b)
  PROVE  /\ Stp(todo, b, Cnt(todo, b)).op = "retire" => Retire(b)
         /\ Stp(todo, b, Cnt(todo, b)).op = "claim" => Claim(b)
         /\ Stp(todo, b, Cnt(todo, b)).op = "dec" => DecRef(b)
         /\ Stp(todo, b, Cnt(todo, b)).op = "null" => Null(b)
         /\ Stp(todo, b, Cnt(todo, b)).op = "unweak" => Unweak(b)
         /\ Stp(todo, b, Cnt(todo, b)).op = "dropOnce" => DropOnce(b)
<1>1. ASSUME NEW name, Doing(b, name) PROVE Stp(todo, b, Cnt(todo, b)).op = name
  BY <1>1, DoingParts
<1>2. DecRef(b) \/ Claim(b) \/ DropOnce(b) \/ Null(b) \/ Retire(b) \/ Unweak(b)
        \/ Stp(todo, b, Cnt(todo, b)).op \in {"put", "try", "recheck", "lookup", "publish", "own", "alloc"}
  BY <1>1 DEF Takes, Put, TryIncRef, Recheck, Lookup, PublishString, Own, AllocString
<1>3. /\ DecRef(b) => Stp(todo, b, Cnt(todo, b)).op = "dec"
      /\ Claim(b) => Stp(todo, b, Cnt(todo, b)).op = "claim"
      /\ DropOnce(b) => Stp(todo, b, Cnt(todo, b)).op = "dropOnce"
      /\ Null(b) => Stp(todo, b, Cnt(todo, b)).op = "null"
      /\ Retire(b) => Stp(todo, b, Cnt(todo, b)).op = "retire"
      /\ Unweak(b) => Stp(todo, b, Cnt(todo, b)).op = "unweak"
  BY <1>1 DEF DecRef, Claim, DropOnce, Null, Retire, Unweak
<1> QED
  BY <1>2, <1>3

(* Who is being retired still is, or has just been queued. *)
LEMMA RetiringOut ==
  ASSUME TypeInv, NameInv, StrongInv, WeakInv, LinkInv, PlaceInv, BatchInv, RefInv, HeldInv,
         DecInv, ClaimsInv, RetireInv, ThreadInv, StringInv, UnweakInv, MarkInv, PhaseInv,
         TableInv, NEW x \in Objs, [Next]_vars, Retiring(x)
  PROVE  Retiring(x)' \/ \E a \in Actor : Retire(a) /\ x = Current(a)
<1>1. PICK b \in Actor : \E m \in 1 .. Count(b) : Has(b, m, "retire", x)
  BY DEF Retiring
<1>2. PICK m \in 1 .. Count(b) : Has(b, m, "retire", x)
  BY <1>1
<1>3. CASE Stays(b, m)
  BY <1>2, <1>3 DEF Stays, Retiring, Has, Count, Step
<1>4. CASE m = Cnt(todo, b) /\ Takes(b)
  <2>1. Stp(todo, b, Cnt(todo, b)).op = "retire" /\ Stp(todo, b, Cnt(todo, b)).obj = x
    BY <1>2, <1>4 DEF Has, Step
  <2>2. Retire(b)
    BY <2>1, <1>4, TakesOp
  <2>3. x = Current(b)
    BY <2>1, <2>2, DoingParts DEF Retire
  <2> QED
    BY <2>2, <2>3
<1> QED
  BY <1>3, <1>4, Persist DEF Count

(* Who is being claimed was, or has just lost its last owner. *)
LEMMA ClaimingIn ==
  ASSUME TypeInv, NameInv, StrongInv, WeakInv, LinkInv, PlaceInv, BatchInv, RefInv, HeldInv,
         DecInv, ClaimsInv, RetireInv, ThreadInv, StringInv, UnweakInv, MarkInv, PhaseInv,
         TableInv, NEW x \in Objs, [Next]_vars, Claiming(x)'
  PROVE  Claiming(x) \/ \E a \in Actor : DecRef(a) /\ x = Current(a) /\ strong[x] <= 1
<1>1. PICK b \in Actor : \E m \in 1 .. Cnt(todo', b) : Then1Is(b, m, "claim", x)
  BY DEF Claiming, Has, Count, Step, Then1Is
<1>2. PICK m \in 1 .. Cnt(todo', b) : Then1Is(b, m, "claim", x)
  BY <1>1
<1>3. CASE Same(b, m)
  BY <1>2, <1>3 DEF Same, Claiming, Has, Count, Step, Then1Is
<1>4. CASE NewClaim(b, m)
  BY <1>2, <1>4 DEF NewClaim, Then1Is
<1>5. CASE NewStep(b, m)
  BY <1>2, <1>4, <1>5 DEF NewStep, NewDec, NewRetire, NewNull, NewDropOnce, NewPut, NewTry, NewRecheck,
       NewLookup, NewAlloc, NewPublish, NewOwn, NewUnweak, Then1Is, PutOp
<1> QED
  BY <1>3, <1>5, Origin

=============================================================================
