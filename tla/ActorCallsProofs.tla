-------------------------- MODULE ActorCallsProofs --------------------------
(***************************************************************************)
(* Proofs about ActorCalls, for any threads, actors, calls and programs:   *)
(* type correctness; no call is left behind in the queue of a worker that  *)
(* has ended; a promise is broken only when the program goes down; and     *)
(* allof() and anyof() give what their inputs gave.                        *)
(***************************************************************************)
EXTENDS ActorCalls, FiniteSetTheorems, TLAPS

ThreadPC == {"ready", "register", "recheck", "asleep", "wire", "probe", "marshal", "notify"}
WorkerPC == {"poll", "check", "checked", "blocked", "parked", "dispatch", "run", "close", "drain",
             "ended"}
JoinPC   == {"idle", "lock", "signal", "join", "reset", "delete", "done"}

-----------------------------------------------------------------------------
(* Types.  What a future may hold is not a set (the values of a gather hold
   the values gathered), so result and comb are only said to be functions. *)

ProgOK ==
  /\ world \in Worlds /\ prog \in Programs /\ pc \in [Threads -> ThreadPC]
  /\ down \in {"no", "exit", "error"}

(* A thread inside an operation is inside the first of its program. *)
Inside(t) ==
  /\ pc[t] # "ready" => prog[t] # <<>>
  /\ pc[t] \in {"register", "recheck", "asleep"} => Op(t).op = "wait"
  /\ pc[t] \in {"wire", "probe"} => Op(t).op = "gather"
  /\ pc[t] \in {"marshal", "notify"} => Op(t).op = "call"

ListsOK ==
  /\ threadWaiters \in [Futures -> SUBSET Threads]
  /\ slotWaiters \in [Futures -> SUBSET (Threads \X Nat)]
  /\ \A f \in Futures : IsFiniteSet(slotWaiters[f])
  /\ result = [f \in Futures |-> result[f]]

WorkOK ==
  /\ queue \in [Actors -> Seq(Calls)]
  /\ alive \in [Actors -> BOOLEAN] /\ quit \in [Actors -> BOOLEAN]
  /\ wpc \in [Actors -> WorkerPC] /\ cur \in [Actors -> Calls \cup {NoCall}]
  /\ events \in [Actors -> Nat] /\ emitting \in [Actors -> BOOLEAN]
  /\ inst \in [Actors -> {"live", "dead", "destroyed"}]
  /\ jpc \in [Joiners -> [Actors -> JoinPC]]

-----------------------------------------------------------------------------
(* Calls.  A call not answered yet has the result it was queued with. *)

Pending(c) == result[c] = IF c \in world.procs THEN Absent ELSE None

(* No actor has the call. *)
Free(c) == \A a \in Actors : cur[a] # c /\ \A i \in DOMAIN queue[a] : queue[a][i] # c

(* A call in a program has not been made, unless it is just being made. *)
Made(t, i) ==
  prog[t][i].op = "call" =>
    \/ i = 1 /\ pc[t] = "notify"
    \/ /\ Free(prog[t][i].c)
       /\ IF i = 1 /\ pc[t] = "marshal" THEN Pending(prog[t][i].c)
                                        ELSE result[prog[t][i].c] = Absent

(* A queued call is in one place and not answered. *)
Queued(a, i) ==
  /\ Target(queue[a][i]) = a /\ cur[a] # queue[a][i] /\ Pending(queue[a][i])
  /\ \A j \in DOMAIN queue[a] : queue[a][i] = queue[a][j] => i = j

(* The call a worker has taken is one of its own, not answered until it ran. *)
Taken(a) ==
  /\ wpc[a] = "run" => cur[a] # NoCall
  /\ wpc[a] \notin {"poll", "dispatch", "run", "close", "drain"} => cur[a] = NoCall
  /\ cur[a] # NoCall => /\ Target(cur[a]) = a
                        /\ wpc[a] # "poll" => Pending(cur[a])

CallInv ==
  /\ \A t \in Threads : \A i \in DOMAIN prog[t] : Made(t, i)
  /\ \A a \in Actors : Taken(a) /\ \A i \in DOMAIN queue[a] : Queued(a, i)
  /\ \A c \in Calls : result[c] \in Results

-----------------------------------------------------------------------------
(* The ends of actors *)

(* A worker that ended with alive set failed the program; one that cut its
   loop with a call in hand ends because the program does; an instance nobody
   refers to is given no call any more. *)
Ending(a) ==
  /\ ~alive[a] => wpc[a] \in {"drain", "ended"}
  /\ wpc[a] = "drain" => ~alive[a]
  /\ wpc[a] = "ended" => (alive[a] /\ down # "no") \/ (~alive[a] /\ queue[a] = <<>>)
  /\ wpc[a] \in {"close", "drain"} /\ cur[a] # NoCall => down # "no"
  /\ inst[a] # "live" => /\ queue[a] = <<>> /\ cur[a] = NoCall
                         /\ \A t \in Threads : ~Refers(t, a)
  /\ inst[a] = "live" => jpc[Lifecycle][a] = "idle"

(* A promise is broken by the end of a worker that was cut short, or by a
   collection that finds calls in the queue. *)
BrokenOK == \A c \in Calls : result[c] = Broken => down # "no" \/ world.precise

EndInv == \A a \in Actors : Ending(a)

-----------------------------------------------------------------------------
(* Combinators *)

Inputs(t) == DOMAIN comb[t].in

(* v is a result t's combinator may have, by what its inputs hold now. *)
Right(t, v) ==
  LET r == [i \in Inputs(t) |-> result[comb[t].in[i]]]
  IN \/ \E i \in Inputs(t) : IsExc(r[i]) /\ v = r[i]
     \/ /\ comb[t].mode = "all" /\ v = <<"all", r>>
        /\ \A i \in Inputs(t) : Ready(r[i]) /\ ~IsExc(r[i])
     \/ comb[t].mode = "any" /\ \E i \in Inputs(t) : Ready(r[i]) /\ v = <<"any", i, r[i]>>

(* The record of a combinator. *)
Rec(m, n, g, f, w, r) ==
  [mode |-> m, in |-> n, got |-> g, fulfilled |-> f, wired |-> w, raised |-> r]

IsRec(c) == c = Rec(c.mode, c.in, c.got, c.fulfilled, c.wired, c.raised)

CombOK(t) ==
  /\ comb[t].mode \in {"all", "any"} /\ comb[t].in \in Seq(Futures)
  /\ comb[t].fulfilled \in BOOLEAN /\ comb[t].wired \in Nat
  /\ comb[t].got = [i \in Inputs(t) |-> comb[t].got[i]]
  /\ IsRec(comb[t])

(* A future that has been given out. *)
Settled(f) ==
  result[f] # Absent /\ \A t \in Threads : ~(pc[t] = "marshal" /\ Op(t).c = f)

(* A combinator has got what its inputs hold; one that has not fired got no
   exception and has no result, one that has is right. *)
Gathered(t) ==
  IF comb[t] = NoComb THEN result[t] = Absent /\ pc[t] \notin {"wire", "probe"}
  ELSE /\ CombOK(t)
       /\ \A i \in Inputs(t) : Settled(comb[t].in[i])
       /\ \A i \in Inputs(t) :
            comb[t].got[i] # None => /\ comb[t].got[i] = result[comb[t].in[i]] /\ Ready(comb[t].got[i])
                                     /\ ~comb[t].fulfilled => ~IsExc(comb[t].got[i])
       /\ ~comb[t].fulfilled => result[t] = None
       /\ result[t] # None => Right(t, result[t])
       /\ \A i \in DOMAIN prog[t] : prog[t][i].op = "gather" => i = 1 /\ pc[t] # "ready"
       /\ pc[t] \in {"wire", "probe"} => comb[t].wired + 1 \in Inputs(t)

CombInv == comb = [t \in Threads |-> comb[t]] /\ \A t \in Threads : Gathered(t)

(* A slot on a future's list is of a combinator that has the future there. *)
Slot(t, i, f) == comb[t] # NoComb /\ i \in Inputs(t) /\ comb[t].in[i] = f

SlotInv == \A f \in Futures : \A s \in slotWaiters[f] : Slot(s[1], s[2], f)

(* The wakes to deliver tell what is so, and all that would fulfil the same
   combinator fulfil it alike. *)
TaskOK(k) ==
  \/ k.k = "wake" /\ k.f \in Futures /\ Ready(result[k.f])
  \/ k.k = "notify" /\ k.t \in Threads
  \/ /\ k.k = "slot" /\ k.t \in Threads /\ comb[k.t] # NoComb /\ k.i \in Inputs(k.t)
     /\ k.v = result[comb[k.t].in[k.i]] /\ Ready(k.v)
  \/ /\ k.k = "out" /\ k.t \in Threads /\ comb[k.t] # NoComb /\ comb[k.t].fulfilled
     /\ Right(k.t, k.v) /\ result[k.t] \in {None, k.v}

TasksOK(S) ==
  /\ todo \in [Procs -> Seq(S)]
  /\ \A k \in S : TaskOK(k)
  /\ \A k, l \in S : k.k = "out" /\ l.k = "out" /\ k.t = l.t => k.v = l.v

TaskInv == \E S : TasksOK(S)

-----------------------------------------------------------------------------
(* Values and sequences *)

(* The kinds of value are told apart by their first part. *)
LEMMA Values ==
  /\ None # Absent /\ None # Nil /\ None # Broken /\ Absent # Nil /\ Absent # Broken
  /\ \A c : /\ Ok(c) # None /\ Ok(c) # Absent /\ Ok(c) # Broken
            /\ Exc(c) # None /\ Exc(c) # Absent /\ Exc(c) # Broken
  /\ Nil # Broken
  /\ \A x, y : <<"any", x, y>> # None /\ <<"any", x, y>> # Absent
  /\ \A x : <<"all", x>> # None /\ <<"all", x>> # Absent
  /\ ~IsExc(None) /\ ~IsExc(Absent)
<1>1. Absent[1] = "absent" /\ None[1] = "none" /\ Nil[1] = "nil" /\ Broken[1] = "broken"
  BY DEF Absent, None, Nil, Broken
<1>2. \A c : Ok(c)[1] = "ok" /\ Exc(c)[1] = "exc"
  BY DEF Ok, Exc
<1>3. \A x, y : <<"any", x, y>>[1] = "any"
  OBVIOUS
<1>4. \A x : <<"all", x>>[1] = "all"
  OBVIOUS
<1>5. /\ None # Absent /\ None # Nil /\ None # Broken /\ Absent # Nil /\ Absent # Broken
      /\ Nil # Broken /\ ~IsExc(None) /\ ~IsExc(Absent)
  BY <1>1 DEF IsExc
<1>6. \A c : /\ Ok(c) # None /\ Ok(c) # Absent /\ Ok(c) # Broken
             /\ Exc(c) # None /\ Exc(c) # Absent /\ Exc(c) # Broken
  BY <1>1, <1>2
<1>7. \A x, y : <<"any", x, y>> # None /\ <<"any", x, y>> # Absent
  BY <1>1, <1>3
<1>8. \A x : <<"all", x>> # None /\ <<"all", x>> # Absent
  BY <1>1, <1>4
<1> QED
  BY <1>5, <1>6, <1>7, <1>8

(* What is left of a sequence. *)
LEMMA Rest ==
  ASSUME NEW S, NEW s \in Seq(S), s # <<>>
  PROVE  /\ Head(s) \in S /\ Tail(s) \in Seq(S) /\ Len(s) \in Nat \ {0}
         /\ Len(Tail(s)) = Len(s) - 1 /\ s[1] = Head(s)
         /\ \A i \in DOMAIN Tail(s) : i + 1 \in DOMAIN s /\ Tail(s)[i] = s[i + 1]
<1>1. Len(s) \in Nat \ {0} /\ DOMAIN s = 1..Len(s) /\ Head(s) \in S /\ s[1] = Head(s)
  OBVIOUS
<1>2. Tail(s) \in Seq(S) /\ Len(Tail(s)) = Len(s) - 1
  OBVIOUS
<1>3. ASSUME NEW i \in DOMAIN Tail(s) PROVE i + 1 \in DOMAIN s /\ Tail(s)[i] = s[i + 1]
  <2>1. DOMAIN Tail(s) = 1..(Len(s) - 1)
    BY <1>2
  <2>2. i \in Nat /\ 1 <= i /\ i <= Len(s) - 1
    BY <1>1, <2>1
  <2>3. i + 1 \in DOMAIN s
    BY <1>1, <2>2
  <2> QED
    BY <1>1, <2>2, <2>3
<1> QED
  BY <1>1, <1>2, <1>3

(* Sequences of members of a set are sequences of members of a larger one. *)
LEMMA Larger ==
  ASSUME NEW S, NEW T, S \subseteq T, NEW s \in Seq(S)
  PROVE  s \in Seq(T)
OBVIOUS

(* A finite set has a listing. *)
LEMMA Listing ==
  ASSUME NEW S, IsFiniteSet(S)
  PROVE  SetToSeq(S) \in Seq(S)
<1> DEFINE n == Cardinality(S)
<1>1. n \in Nat /\ ExistsBijection(1..n, S)
  BY FS_CardinalityType
<1>2. PICK f \in [1..n -> S] : IsInjective(f)
  BY <1>1 DEF ExistsBijection, Bijection, Injection
<1>3. SetToSeq(S) \in [1..n -> S]
  BY <1>2 DEF SetToSeq
<1> QED
  BY <1>1, <1>3

-----------------------------------------------------------------------------
(* Programs *)

(* What the first operation of a program has. *)
LEMMA OpType ==
  ASSUME prog \in Programs, NEW t \in Threads, prog[t] # <<>>
  PROVE  /\ Op(t).op = "wait" => Op(t).f \in Futures
         /\ Op(t).op = "call" => Op(t).c \in Calls
         /\ Op(t).op = "gather" => /\ Op(t).mode \in {"all", "any"} /\ Op(t).in \in Seq(Futures)
                                   /\ Op(t).in # <<>>
         /\ prog[t] \in Seq(Operations) /\ prog[t][1] = Op(t) /\ 1 \in DOMAIN prog[t]
<1>1. prog[t] \in Seq(Operations)
  BY DEF Programs
<1>2. Op(t) \in Operations /\ prog[t][1] = Op(t) /\ 1 \in DOMAIN prog[t]
  BY <1>1 DEF Op
<1> QED
  BY <1>1, <1>2 DEF Operations

(* A program that has got shorter is a program. *)
LEMMA Shorter ==
  ASSUME prog \in Programs, NEW t \in Threads, prog[t] # <<>>,
         prog' = [prog EXCEPT ![t] = Tail(@)] \/ prog' = [prog EXCEPT ![t] = <<>>]
  PROVE  prog' \in Programs
<1>1. prog \in [Threads -> Seq(Operations)] /\ prog[t] \in Seq(Operations)
  BY DEF Programs
<1>2. prog' \in [Threads -> Seq(Operations)]
  <2>1. Tail(prog[t]) \in Seq(Operations) /\ <<>> \in Seq(Operations)
    BY <1>1
  <2> QED
    BY <1>1, <2>1
<1>3. \A u \in Threads : \A i \in DOMAIN prog'[u] :
        \E k \in DOMAIN prog[u] : prog'[u][i] = prog[u][k] /\ k = (IF u = t THEN i + 1 ELSE i)
  <2> SUFFICES ASSUME NEW u \in Threads, NEW i \in DOMAIN prog'[u]
               PROVE  \E k \in DOMAIN prog[u] :
                        prog'[u][i] = prog[u][k] /\ k = (IF u = t THEN i + 1 ELSE i)
    OBVIOUS
  <2>1. CASE u # t
    BY <1>1, <2>1
  <2>2. CASE u = t
    <3>1. prog'[t] = Tail(prog[t])
      <4>1. prog'[t] = Tail(prog[t]) \/ prog'[t] = <<>>
        BY <1>1
      <4>2. DOMAIN <<>> = {}
        OBVIOUS
      <4> QED
        BY <2>2, <4>1, <4>2
    <3>2. i + 1 \in DOMAIN prog[t] /\ Tail(prog[t])[i] = prog[t][i + 1]
      BY <1>1, <2>2, <3>1, Rest
    <3> QED
      BY <2>2, <3>1, <3>2
  <2> QED
    BY <2>1, <2>2
<1>4. ASSUME NEW u \in Threads, NEW v \in Threads, NEW i \in DOMAIN prog'[u],
             NEW j \in DOMAIN prog'[v]
      PROVE  Apart(prog', u, i, v, j)
  <2>1. PICK k \in DOMAIN prog[u] : prog'[u][i] = prog[u][k] /\ k = (IF u = t THEN i + 1 ELSE i)
    BY <1>3
  <2>2. PICK l \in DOMAIN prog[v] : prog'[v][j] = prog[v][l] /\ l = (IF v = t THEN j + 1 ELSE j)
    BY <1>3
  <2>3. Apart(prog, u, k, v, l)
    BY DEF Programs
  <2>4. i \in Nat /\ j \in Nat
    BY <1>2
  <2>5. <<u, i>> # <<v, j>> => <<u, k>> # <<v, l>>
    BY <2>1, <2>2, <2>4
  <2> QED
    BY <2>1, <2>2, <2>3, <2>5 DEF Apart
<1> QED
  BY <1>2, <1>4 DEF Programs

(* Where the operations left in a program were. *)
LEMMA Earlier ==
  ASSUME prog \in Programs, NEW t \in Threads, prog[t] # <<>>,
         prog' = [prog EXCEPT ![t] = Tail(@)] \/ prog' = [prog EXCEPT ![t] = <<>>]
  PROVE  /\ \A u \in Threads \ {t} : prog'[u] = prog[u]
         /\ \A i \in DOMAIN prog'[t] : /\ i + 1 \in DOMAIN prog[t] /\ i \in Nat \ {0}
                                       /\ prog'[t][i] = prog[t][i + 1]
<1>1. prog \in [Threads -> Seq(Operations)] /\ prog[t] \in Seq(Operations)
  BY DEF Programs
<1>2. \A u \in Threads \ {t} : prog'[u] = prog[u]
  BY <1>1
<1>3. ASSUME NEW i \in DOMAIN prog'[t]
      PROVE  i + 1 \in DOMAIN prog[t] /\ i \in Nat \ {0} /\ prog'[t][i] = prog[t][i + 1]
  <2>1. prog'[t] = Tail(prog[t])
    <3>1. prog'[t] = Tail(prog[t]) \/ prog'[t] = <<>>
      BY <1>1
    <3>2. DOMAIN <<>> = {}
      OBVIOUS
    <3> QED
      BY <3>1, <3>2
  <2>2. i + 1 \in DOMAIN prog[t] /\ Tail(prog[t])[i] = prog[t][i + 1]
    BY <1>1, <2>1, Rest
  <2>3. i \in Nat \ {0}
    BY <1>1, <2>1
  <2> QED
    BY <2>1, <2>2, <2>3
<1> QED
  BY <1>2, <1>3

-----------------------------------------------------------------------------
(* Types *)

(* The lifecycle thread is one of those that join. *)
LEMMA LifecycleJoins == Lifecycle \in Joiners
BY ActorAssumption

(* What is next on a process's list of wakes. *)
LEMMA HeadTask ==
  ASSUME TaskInv, NEW p \in Procs, todo[p] # <<>>
  PROVE  TaskOK(Head(todo[p]))
<1>1. PICK S : TasksOK(S)
  BY DEF TaskInv
<1>2. todo[p] \in Seq(S)
  BY <1>1 DEF TasksOK
<1>3. Head(todo[p]) \in S
  BY <1>2, Rest
<1> QED
  BY <1>1, <1>3 DEF TasksOK

(* The types of what workers, events and joiners keep. *)
LEMMA WorkType ==
  ASSUME ProgOK, WorkOK, [Next]_vars
  PROVE  WorkOK'
<1> USE DEF WorkOK, WorkerPC, JoinPC, waitVars, lists, workVars, envVars, joinVars, vars, At,
    Finish, Fail, Go, Worker, JoinGo, Notified, MutexFree, Dispatching
<1>1. ASSUME NEW t \in Threads, ThreadStep(t) \/ Timeout(t), UNCHANGED <<world, workVars, envVars,
    joinVars>> PROVE WorkOK'
  BY <1>1
<1>2. ASSUME NEW p \in Procs, Deliver(p), UNCHANGED <<world, workVars, envVars,
    joinVars>> PROVE WorkOK'
  BY <1>2
<1>3. ASSUME NEW t \in Threads, QueueCall(t) PROVE WorkOK'
  BY <1>3 DEF QueueCall
<1>4. ASSUME NEW t \in Threads, Push(t) PROVE WorkOK'
  <2>1. prog[t] # <<>> /\ Op(t).op = "call" /\ prog \in Programs
    BY <1>4 DEF Push, ProgOK
  <2>2. Op(t).c \in Calls
    BY <2>1, OpType
  <2>3. \A a \in Actors : Append(queue[a], Op(t).c) \in Seq(Calls)
    BY <2>2
  <2>4. PICK x : x = Target(Op(t).c)
    OBVIOUS
  <2>5. queue' = [queue EXCEPT ![x] = Append(queue[x], Op(t).c)] \/ queue' = queue
    BY <1>4, <2>4 DEF Push
  <2>6. queue' \in [Actors -> Seq(Calls)]
    <3>1. \A y \in Actors : queue'[y] = queue[y] \/ queue'[y] = Append(queue[y], Op(t).c)
      BY ONLY <2>5, queue \in [Actors -> Seq(Calls)]
    <3>2. DOMAIN queue' = Actors /\ queue' = [y \in Actors |-> queue'[y]]
      BY ONLY <2>5, queue \in [Actors -> Seq(Calls)]
    <3>3. \A y \in Actors : queue'[y] \in Seq(Calls)
      BY <2>3, <3>1
    <3> QED
      BY ONLY <3>2, <3>3
  <2> QED
    BY <1>4, <2>6 DEF Push
<1>5. ASSUME NEW t \in Threads, NotifyQueue(t) PROVE WorkOK'
  BY <1>5 DEF NotifyQueue
<1>6. ASSUME NEW t \in Threads, MarshalThrows(t) PROVE WorkOK'
  BY <1>6 DEF MarshalThrows
<1>7. ASSUME NEW a \in Actors, Poll(a) PROVE WorkOK'
  BY <1>7 DEF Poll
<1>8. ASSUME NEW a \in Actors, Check(a) PROVE WorkOK'
  <2>1. queue[a] # <<>> => Head(queue[a]) \in Calls /\ Tail(queue[a]) \in Seq(Calls)
    BY Rest
  <2>2. queue' \in [Actors -> Seq(Calls)] /\ cur' \in [Actors -> Calls \cup {NoCall}]
    BY <1>8, <2>1, ZenonT(120) DEF Check
  <2>3. wpc' \in [Actors -> WorkerPC]
    BY <1>8 DEF Check
  <2> QED
    BY <1>8, <2>2, <2>3 DEF Check
<1>9. ASSUME NEW a \in Actors, Block(a) PROVE WorkOK'
  BY <1>9 DEF Block
<1>10. ASSUME NEW a \in Actors, ActorPark(a) PROVE WorkOK'
  BY <1>10 DEF ActorPark
<1>11. ASSUME NEW a \in Actors, ActorResume(a) PROVE WorkOK'
  BY <1>11 DEF ActorResume
<1>12. ASSUME NEW a \in Actors, DispatchQuits(a) PROVE WorkOK'
  BY <1>12 DEF DispatchQuits
<1>13. ASSUME NEW a \in Actors, Dispatch(a) PROVE WorkOK'
  BY <1>13 DEF Dispatch
<1>14. ASSUME NEW a \in Actors, HandlerFails(a) PROVE WorkOK'
  BY <1>14 DEF HandlerFails
<1>15. ASSUME NEW a \in Actors, RunCall(a) PROVE WorkOK'
  BY <1>15 DEF RunCall
<1>16. ASSUME NEW a \in Actors, RunFails(a) PROVE WorkOK'
  BY <1>16 DEF RunFails
<1>17. ASSUME NEW a \in Actors, RunThrows(a) PROVE WorkOK'
  BY <1>17 DEF RunThrows
<1>18. ASSUME NEW a \in Actors, CloseQueue(a) PROVE WorkOK'
  BY <1>18 DEF CloseQueue
<1>19. ASSUME NEW a \in Actors, DrainOne(a) PROVE WorkOK'
  <2>1. queue[a] # <<>> => Tail(queue[a]) \in Seq(Calls)
    BY Rest
  <2> QED
    BY <1>19, <2>1 DEF DrainOne
<1>20. ASSUME NEW a \in Actors, EndWorker(a) PROVE WorkOK'
  BY <1>20 DEF EndWorker
<1>21. ASSUME NEW a \in Actors, GcWake(a) PROVE WorkOK'
  BY <1>21 DEF GcWake
<1>22. ASSUME NEW a \in Actors, Emit(a) PROVE WorkOK'
  BY <1>22 DEF Emit
<1>23. ASSUME NEW a \in Actors, WakeActor(a) PROVE WorkOK'
  BY <1>23 DEF WakeActor
<1>24. ASSUME NEW a \in Actors, Collect(a) PROVE WorkOK'
  BY <1>24 DEF Collect
<1>25. ASSUME NEW a \in Actors, Finalize(a) PROVE WorkOK'
  BY <1>25, LifecycleJoins DEF Finalize
<1>26. ASSUME NEW a \in Actors, DeleteInstance(a) PROVE WorkOK'
  BY <1>26, LifecycleJoins DEF DeleteInstance
<1>27. ASSUME DebugStop PROVE WorkOK'
  BY <1>27 DEF DebugStop
<1>28. ASSUME DebugRelease PROVE WorkOK'
  BY <1>28 DEF DebugRelease
<1>29. ASSUME RequestExit PROVE WorkOK'
  BY <1>29 DEF RequestExit
<1>30. ASSUME NEW j \in Joiners, NEW a \in Actors, LockJoin(j, a) PROVE WorkOK'
  <2>1. PICK x \in JoinPC : jpc' = [jpc EXCEPT ![j][a] = x]
    BY <1>30 DEF LockJoin
  <2>2. jpc' \in [Joiners -> [Actors -> JoinPC]]
    BY <2>1
  <2> QED
    BY <1>30, <2>2 DEF LockJoin
<1>31. ASSUME NEW j \in Joiners, NEW a \in Actors, SignalQuit(j, a) PROVE WorkOK'
  BY <1>31 DEF SignalQuit
<1>32. ASSUME NEW j \in Joiners, NEW a \in Actors, Joined(j, a) PROVE WorkOK'
  BY <1>32 DEF Joined
<1>33. ASSUME NEW j \in Joiners, NEW a \in Actors, ResetThread(j, a) PROVE WorkOK'
  BY <1>33 DEF ResetThread
<1>34. ASSUME NEW j \in Joiners, NEW a \in Actors, JoinAll(j, a) PROVE WorkOK'
  BY <1>34 DEF JoinAll
<1>35. ASSUME UNCHANGED vars PROVE WorkOK'
  BY <1>35
<1> HIDE DEF WorkOK, WorkerPC, JoinPC, waitVars, lists, workVars, envVars, joinVars, vars, At,
    Finish, Fail, Go, Worker, JoinGo, Notified, MutexFree, Dispatching
<1> QED
  BY LifecycleJoins, <1>1, <1>2, <1>3, <1>4, <1>5, <1>6, <1>7, <1>8, <1>9, <1>10, <1>11, <1>12,
      <1>13, <1>14, <1>15, <1>16, <1>17, <1>18, <1>19, <1>20, <1>21, <1>22, <1>23, <1>24, <1>25,
      <1>26, <1>27, <1>28, <1>29, <1>30, <1>31, <1>32, <1>33, <1>34, <1>35 DEF Next, WaitNext,
      CallStep, WorkerStep, JoinStep, Finalizer

-----------------------------------------------------------------------------
(* The steps that change what threads, futures and combinators keep *)

TStep(t) == ThreadStep(t) \/ Timeout(t) \/ CallStep(t) \/ MarshalThrows(t)

AnswerStep(a) == RunCall(a) \/ RunFails(a) \/ RunThrows(a) \/ DrainOne(a)

Quiet == UNCHANGED <<prog, pc, result, threadWaiters, slotWaiters, todo, comb>>

(* Every other step is of workers, events or joiners alone. *)
LEMMA Moves ==
  ASSUME [Next]_vars
  PROVE  /\ world' = world
         /\ \/ \E t \in Threads : TStep(t)
            \/ \E p \in Procs : Deliver(p)
            \/ \E a \in Actors : AnswerStep(a) \/ EndWorker(a) \/ Collect(a)
            \/ Quiet
<1> DEFINE Goal == /\ world' = world
                   /\ \/ (\E t \in Threads : TStep(t)) \/ (\E p \in Procs : Deliver(p))
                      \/ (\E a \in Actors : AnswerStep(a) \/ EndWorker(a) \/ Collect(a)) \/ Quiet
<1>1. ASSUME NEW t \in Threads, ThreadStep(t) \/ Timeout(t), UNCHANGED <<world, workVars, envVars,
    joinVars>> PROVE Goal
  BY <1>1 DEF TStep
<1>2. ASSUME NEW p \in Procs, Deliver(p), UNCHANGED <<world, workVars, envVars,
    joinVars>> PROVE Goal
  BY <1>2
<1>3. ASSUME NEW t \in Threads, QueueCall(t) PROVE Goal
  BY <1>3 DEF QueueCall, TStep, CallStep
<1>4. ASSUME NEW t \in Threads, Push(t) PROVE Goal
  BY <1>4 DEF Push, TStep, CallStep
<1>5. ASSUME NEW t \in Threads, NotifyQueue(t) PROVE Goal
  BY <1>5 DEF NotifyQueue, TStep, CallStep
<1>6. ASSUME NEW t \in Threads, MarshalThrows(t) PROVE Goal
  BY <1>6 DEF MarshalThrows, TStep, CallStep
<1>7. ASSUME NEW a \in Actors, Poll(a) PROVE Goal
  BY <1>7 DEF Poll, Quiet, waitVars, lists, workVars, envVars, joinVars, vars
<1>8. ASSUME NEW a \in Actors, Check(a) PROVE Goal
  BY <1>8 DEF Check, Quiet, waitVars, lists, workVars, envVars, joinVars, vars
<1>9. ASSUME NEW a \in Actors, Block(a) PROVE Goal
  BY <1>9 DEF Block, Quiet, waitVars, lists, workVars, envVars, joinVars, vars
<1>10. ASSUME NEW a \in Actors, ActorPark(a) PROVE Goal
  BY <1>10 DEF ActorPark, Quiet, waitVars, lists, workVars, envVars, joinVars, vars
<1>11. ASSUME NEW a \in Actors, ActorResume(a) PROVE Goal
  BY <1>11 DEF ActorResume, Quiet, waitVars, lists, workVars, envVars, joinVars, vars
<1>12. ASSUME NEW a \in Actors, DispatchQuits(a) PROVE Goal
  BY <1>12 DEF DispatchQuits, Quiet, waitVars, lists, workVars, envVars, joinVars, vars
<1>13. ASSUME NEW a \in Actors, Dispatch(a) PROVE Goal
  BY <1>13 DEF Dispatch, Quiet, waitVars, lists, workVars, envVars, joinVars, vars
<1>14. ASSUME NEW a \in Actors, HandlerFails(a) PROVE Goal
  BY <1>14 DEF HandlerFails, Quiet, waitVars, lists, workVars, envVars, joinVars, vars
<1>15. ASSUME NEW a \in Actors, RunCall(a) PROVE Goal
  BY <1>15 DEF RunCall, AnswerStep
<1>16. ASSUME NEW a \in Actors, RunFails(a) PROVE Goal
  BY <1>16 DEF RunFails, AnswerStep
<1>17. ASSUME NEW a \in Actors, RunThrows(a) PROVE Goal
  BY <1>17 DEF RunThrows, AnswerStep
<1>18. ASSUME NEW a \in Actors, CloseQueue(a) PROVE Goal
  BY <1>18 DEF CloseQueue, Quiet, waitVars, lists, workVars, envVars, joinVars, vars
<1>19. ASSUME NEW a \in Actors, DrainOne(a) PROVE Goal
  BY <1>19 DEF DrainOne, AnswerStep
<1>20. ASSUME NEW a \in Actors, EndWorker(a) PROVE Goal
  BY <1>20 DEF EndWorker
<1>21. ASSUME NEW a \in Actors, GcWake(a) PROVE Goal
  BY <1>21 DEF GcWake, Quiet, waitVars, lists, workVars, envVars, joinVars, vars
<1>22. ASSUME NEW a \in Actors, Emit(a) PROVE Goal
  BY <1>22 DEF Emit, Quiet, waitVars, lists, workVars, envVars, joinVars, vars
<1>23. ASSUME NEW a \in Actors, WakeActor(a) PROVE Goal
  BY <1>23 DEF WakeActor, Quiet, waitVars, lists, workVars, envVars, joinVars, vars
<1>24. ASSUME NEW a \in Actors, Collect(a) PROVE Goal
  BY <1>24 DEF Collect
<1>25. ASSUME NEW a \in Actors, Finalize(a) PROVE Goal
  BY <1>25 DEF Finalize, Quiet, waitVars, lists, workVars, envVars, joinVars, vars
<1>26. ASSUME NEW a \in Actors, DeleteInstance(a) PROVE Goal
  BY <1>26 DEF DeleteInstance, Quiet, waitVars, lists, workVars, envVars, joinVars, vars
<1>27. ASSUME DebugStop PROVE Goal
  BY <1>27 DEF DebugStop, Quiet, waitVars, lists, workVars, envVars, joinVars, vars
<1>28. ASSUME DebugRelease PROVE Goal
  BY <1>28 DEF DebugRelease, Quiet, waitVars, lists, workVars, envVars, joinVars, vars
<1>29. ASSUME RequestExit PROVE Goal
  BY <1>29 DEF RequestExit, Quiet, waitVars, lists, workVars, envVars, joinVars, vars
<1>30. ASSUME NEW j \in Joiners, NEW a \in Actors, LockJoin(j, a) PROVE Goal
  BY <1>30 DEF LockJoin, Quiet, waitVars, lists, workVars, envVars, joinVars, vars
<1>31. ASSUME NEW j \in Joiners, NEW a \in Actors, SignalQuit(j, a) PROVE Goal
  BY <1>31 DEF SignalQuit, Quiet, waitVars, lists, workVars, envVars, joinVars, vars
<1>32. ASSUME NEW j \in Joiners, NEW a \in Actors, Joined(j, a) PROVE Goal
  BY <1>32 DEF Joined, Quiet, waitVars, lists, workVars, envVars, joinVars, vars
<1>33. ASSUME NEW j \in Joiners, NEW a \in Actors, ResetThread(j, a) PROVE Goal
  BY <1>33 DEF ResetThread, Quiet, waitVars, lists, workVars, envVars, joinVars, vars
<1>34. ASSUME NEW j \in Joiners, NEW a \in Actors, JoinAll(j, a) PROVE Goal
  BY <1>34 DEF JoinAll, Quiet, waitVars, lists, workVars, envVars, joinVars, vars
<1>35. ASSUME UNCHANGED vars PROVE Goal
  BY <1>35 DEF Quiet, waitVars, lists, workVars, envVars, joinVars, vars
<1> HIDE DEF Goal
<1>90. Goal
  BY LifecycleJoins, <1>1, <1>2, <1>3, <1>4, <1>5, <1>6, <1>7, <1>8, <1>9, <1>10, <1>11, <1>12,
      <1>13, <1>14, <1>15, <1>16, <1>17, <1>18, <1>19, <1>20, <1>21, <1>22, <1>23, <1>24, <1>25,
      <1>26, <1>27, <1>28, <1>29, <1>30, <1>31, <1>32, <1>33, <1>34, <1>35 DEF Next, WaitNext,
      CallStep, WorkerStep, JoinStep, Finalizer
<1> QED
  BY <1>90 DEF Goal

(* A thread moves itself, and its program gets shorter if it changes. *)
LEMMA ThreadMove ==
  ASSUME ProgOK, \A u \in Threads : Inside(u), NEW t \in Threads, TStep(t)
  PROVE  /\ prog' = prog \/ (prog[t] # <<>> /\ pc'[t] = "ready" /\ (\/ prog' = [prog EXCEPT ![t] = Tail(@)]
                                                                       \/ prog' = [prog EXCEPT ![t] = <<>>]))
         /\ pc' = [pc EXCEPT ![t] = pc'[t]] /\ pc'[t] \in ThreadPC /\ down' \in {down, "error"}
<1>0. pc \in [Threads -> ThreadPC]
  BY DEF ProgOK
<1> DEFINE Goal == /\ prog' = prog \/ (prog[t] # <<>> /\ pc'[t] = "ready" /\ (\/ prog' = [prog EXCEPT ![t] = Tail(prog[t])]
                                                                             \/ prog' = [prog EXCEPT ![t] = <<>>]))
                  /\ pc' = [pc EXCEPT ![t] = pc'[t]] /\ pc'[t] \in ThreadPC
                  /\ down' \in {down, "error"}
<1>1. ASSUME Leave(t) PROVE Goal
  BY <1>0, <1>1 DEF Leave, At, Finish, Fail, ThreadPC
<1>2. ASSUME TryResolve(t) PROVE Goal
  BY <1>0, <1>2 DEF TryResolve, At, Finish, Fail, ThreadPC
<1>3. ASSUME Register(t) PROVE Goal
  BY <1>0, <1>3 DEF Register, At, Finish, Fail, ThreadPC
<1>4. ASSUME Sleep(t) PROVE Goal
  BY <1>0, <1>4 DEF Sleep, At, Finish, Fail, ThreadPC
<1>5. ASSUME Gather(t) PROVE Goal
  BY <1>0, <1>5 DEF Gather, At, Finish, Fail, ThreadPC
<1>6. ASSUME WireSlot(t) PROVE Goal
  BY <1>0, <1>6, ZenonT(120) DEF WireSlot, At, Finish, Fail, ThreadPC
<1>7. ASSUME ProbeSlot(t) PROVE Goal
  BY <1>0, <1>7 DEF ProbeSlot, At, Finish, Fail, ThreadPC
<1>8. ASSUME Timeout(t) PROVE Goal
  BY <1>0, <1>8 DEF Timeout, At, Finish, Fail, ThreadPC
<1>9. ASSUME QueueCall(t) PROVE Goal
  BY <1>0, <1>9 DEF QueueCall, At, Finish, Fail, ThreadPC
<1>10. ASSUME Push(t) PROVE Goal
  BY <1>0, <1>10 DEF Push, At, Finish, Fail, ThreadPC
<1>11. ASSUME NotifyQueue(t) PROVE Goal
  BY <1>0, <1>11 DEF NotifyQueue, At, Finish, Fail, ThreadPC
<1>12. ASSUME MarshalThrows(t) PROVE Goal
  BY <1>0, <1>12 DEF MarshalThrows, At, Finish, Fail, ThreadPC
<1> HIDE DEF Goal
<1>90. Goal
  BY <1>1, <1>2, <1>3, <1>4, <1>5, <1>6, <1>7, <1>8, <1>9, <1>10, <1>11, <1>12 DEF TStep,
      ThreadStep, CallStep
<1> QED
  BY <1>90 DEF Goal

(* A delivery moves nobody, except that it may wake a thread. *)
LEMMA DeliverMove ==
  ASSUME ProgOK, TaskInv, NEW p \in Procs, Deliver(p)
  PROVE  /\ prog' = prog /\ down' = down /\ pc' \in [Threads -> ThreadPC]
         /\ \A u \in Threads : pc'[u] = pc[u] \/ (pc[u] = "asleep" /\ pc'[u] = "ready")
<1>1. pc \in [Threads -> ThreadPC]
  BY DEF ProgOK
<1>2. CASE WakeThread(p)
  BY <1>1, <1>2, ZenonT(120) DEF WakeThread, ThreadPC
<1>3. CASE TakeList(p) \/ NotifySlot(p) \/ FulfilOut(p)
  BY <1>1, <1>3, ZenonT(120) DEF TakeList, NotifySlot, FulfilOut
<1> QED
  BY <1>2, <1>3 DEF Deliver

(* The end of a call moves no thread. *)
LEMMA WorkerMove ==
  ASSUME NEW a \in Actors, AnswerStep(a) \/ EndWorker(a) \/ Collect(a)
  PROVE  UNCHANGED <<prog, pc, threadWaiters, slotWaiters, comb>>
BY DEF AnswerStep, RunCall, RunFails, RunThrows, DrainOne, EndWorker, Collect, lists

(* A program that is going down never comes up again. *)
LEMMA DownStep ==
  ASSUME ProgOK, [Next]_vars
  PROVE  down' \in {"no", "exit", "error"} /\ (down # "no" => down' # "no")
<1> USE DEF ProgOK, waitVars, lists, workVars, envVars, joinVars, vars, At, Finish, Fail, Go,
    Worker, JoinGo, Notified, MutexFree, Dispatching
<1>1. ASSUME NEW t \in Threads, ThreadStep(t) \/ Timeout(t), UNCHANGED <<world, workVars, envVars,
    joinVars>> PROVE down' \in {"no", "exit", "error"} /\ (down # "no" => down' # "no")
  <2>1. CASE TryResolve(t) \/ ProbeSlot(t)
    BY <2>1 DEF TryResolve, ProbeSlot
  <2>2. CASE ~(TryResolve(t) \/ ProbeSlot(t))
    BY <1>1, <2>2, ZenonT(120) DEF ThreadStep, Leave, Register, Sleep, Gather, WireSlot, Timeout
  <2> QED
    BY <2>1, <2>2, ZenonT(120)
<1>2. ASSUME NEW p \in Procs, Deliver(p), UNCHANGED <<world, workVars, envVars,
    joinVars>> PROVE down' \in {"no", "exit", "error"} /\ (down # "no" => down' # "no")
  BY <1>2, ZenonT(120) DEF Deliver, TakeList, WakeThread, NotifySlot, FulfilOut
<1>3. ASSUME NEW t \in Threads, QueueCall(t) PROVE down' \in {"no", "exit",
    "error"} /\ (down # "no" => down' # "no")
  BY <1>3 DEF QueueCall
<1>4. ASSUME NEW t \in Threads, Push(t) PROVE down' \in {"no", "exit",
    "error"} /\ (down # "no" => down' # "no")
  BY <1>4 DEF Push
<1>5. ASSUME NEW t \in Threads, NotifyQueue(t) PROVE down' \in {"no", "exit",
    "error"} /\ (down # "no" => down' # "no")
  BY <1>5 DEF NotifyQueue
<1>6. ASSUME NEW t \in Threads, MarshalThrows(t) PROVE down' \in {"no", "exit",
    "error"} /\ (down # "no" => down' # "no")
  BY <1>6 DEF MarshalThrows
<1>7. ASSUME NEW a \in Actors, Poll(a) PROVE down' \in {"no", "exit",
    "error"} /\ (down # "no" => down' # "no")
  BY <1>7 DEF Poll
<1>8. ASSUME NEW a \in Actors, Check(a) PROVE down' \in {"no", "exit",
    "error"} /\ (down # "no" => down' # "no")
  BY <1>8 DEF Check
<1>9. ASSUME NEW a \in Actors, Block(a) PROVE down' \in {"no", "exit",
    "error"} /\ (down # "no" => down' # "no")
  BY <1>9 DEF Block
<1>10. ASSUME NEW a \in Actors, ActorPark(a) PROVE down' \in {"no", "exit",
    "error"} /\ (down # "no" => down' # "no")
  BY <1>10 DEF ActorPark
<1>11. ASSUME NEW a \in Actors, ActorResume(a) PROVE down' \in {"no", "exit",
    "error"} /\ (down # "no" => down' # "no")
  BY <1>11 DEF ActorResume
<1>12. ASSUME NEW a \in Actors, DispatchQuits(a) PROVE down' \in {"no", "exit",
    "error"} /\ (down # "no" => down' # "no")
  BY <1>12 DEF DispatchQuits
<1>13. ASSUME NEW a \in Actors, Dispatch(a) PROVE down' \in {"no", "exit",
    "error"} /\ (down # "no" => down' # "no")
  BY <1>13 DEF Dispatch
<1>14. ASSUME NEW a \in Actors, HandlerFails(a) PROVE down' \in {"no", "exit",
    "error"} /\ (down # "no" => down' # "no")
  BY <1>14 DEF HandlerFails
<1>15. ASSUME NEW a \in Actors, RunCall(a) PROVE down' \in {"no", "exit",
    "error"} /\ (down # "no" => down' # "no")
  BY <1>15 DEF RunCall
<1>16. ASSUME NEW a \in Actors, RunFails(a) PROVE down' \in {"no", "exit",
    "error"} /\ (down # "no" => down' # "no")
  BY <1>16 DEF RunFails
<1>17. ASSUME NEW a \in Actors, RunThrows(a) PROVE down' \in {"no", "exit",
    "error"} /\ (down # "no" => down' # "no")
  BY <1>17 DEF RunThrows
<1>18. ASSUME NEW a \in Actors, CloseQueue(a) PROVE down' \in {"no", "exit",
    "error"} /\ (down # "no" => down' # "no")
  BY <1>18 DEF CloseQueue
<1>19. ASSUME NEW a \in Actors, DrainOne(a) PROVE down' \in {"no", "exit",
    "error"} /\ (down # "no" => down' # "no")
  BY <1>19 DEF DrainOne
<1>20. ASSUME NEW a \in Actors, EndWorker(a) PROVE down' \in {"no", "exit",
    "error"} /\ (down # "no" => down' # "no")
  BY <1>20 DEF EndWorker
<1>21. ASSUME NEW a \in Actors, GcWake(a) PROVE down' \in {"no", "exit",
    "error"} /\ (down # "no" => down' # "no")
  BY <1>21 DEF GcWake
<1>22. ASSUME NEW a \in Actors, Emit(a) PROVE down' \in {"no", "exit",
    "error"} /\ (down # "no" => down' # "no")
  BY <1>22 DEF Emit
<1>23. ASSUME NEW a \in Actors, WakeActor(a) PROVE down' \in {"no", "exit",
    "error"} /\ (down # "no" => down' # "no")
  BY <1>23 DEF WakeActor
<1>24. ASSUME NEW a \in Actors, Collect(a) PROVE down' \in {"no", "exit",
    "error"} /\ (down # "no" => down' # "no")
  BY <1>24 DEF Collect
<1>25. ASSUME NEW a \in Actors, Finalize(a) PROVE down' \in {"no", "exit",
    "error"} /\ (down # "no" => down' # "no")
  BY <1>25 DEF Finalize
<1>26. ASSUME NEW a \in Actors, DeleteInstance(a) PROVE down' \in {"no", "exit",
    "error"} /\ (down # "no" => down' # "no")
  BY <1>26 DEF DeleteInstance
<1>27. ASSUME DebugStop PROVE down' \in {"no", "exit", "error"} /\ (down # "no" => down' # "no")
  BY <1>27 DEF DebugStop
<1>28. ASSUME DebugRelease PROVE down' \in {"no", "exit", "error"} /\ (down # "no" => down' # "no")
  BY <1>28 DEF DebugRelease
<1>29. ASSUME RequestExit PROVE down' \in {"no", "exit", "error"} /\ (down # "no" => down' # "no")
  BY <1>29 DEF RequestExit
<1>30. ASSUME NEW j \in Joiners, NEW a \in Actors, LockJoin(j, a) PROVE down' \in {"no", "exit",
    "error"} /\ (down # "no" => down' # "no")
  BY <1>30 DEF LockJoin
<1>31. ASSUME NEW j \in Joiners, NEW a \in Actors, SignalQuit(j, a) PROVE down' \in {"no", "exit",
    "error"} /\ (down # "no" => down' # "no")
  BY <1>31 DEF SignalQuit
<1>32. ASSUME NEW j \in Joiners, NEW a \in Actors, Joined(j, a) PROVE down' \in {"no", "exit",
    "error"} /\ (down # "no" => down' # "no")
  BY <1>32 DEF Joined
<1>33. ASSUME NEW j \in Joiners, NEW a \in Actors, ResetThread(j, a) PROVE down' \in {"no", "exit",
    "error"} /\ (down # "no" => down' # "no")
  BY <1>33 DEF ResetThread
<1>34. ASSUME NEW j \in Joiners, NEW a \in Actors, JoinAll(j, a) PROVE down' \in {"no", "exit",
    "error"} /\ (down # "no" => down' # "no")
  BY <1>34 DEF JoinAll
<1>35. ASSUME UNCHANGED vars PROVE down' \in {"no", "exit",
    "error"} /\ (down # "no" => down' # "no")
  BY <1>35
<1> HIDE DEF ProgOK, waitVars, lists, workVars, envVars, joinVars, vars, At, Finish, Fail, Go,
    Worker, JoinGo, Notified, MutexFree, Dispatching
<1> QED
  BY LifecycleJoins, <1>1, <1>2, <1>3, <1>4, <1>5, <1>6, <1>7, <1>8, <1>9, <1>10, <1>11, <1>12,
      <1>13, <1>14, <1>15, <1>16, <1>17, <1>18, <1>19, <1>20, <1>21, <1>22, <1>23, <1>24, <1>25,
      <1>26, <1>27, <1>28, <1>29, <1>30, <1>31, <1>32, <1>33, <1>34, <1>35 DEF Next, WaitNext,
      CallStep, WorkerStep, JoinStep, Finalizer

(* Programs stay programs. *)
LEMMA ProgStep ==
  ASSUME ProgOK, \A t \in Threads : Inside(t), TaskInv, [Next]_vars
  PROVE  ProgOK'
<1>0. prog \in Programs /\ pc \in [Threads -> ThreadPC] /\ world \in Worlds
  BY DEF ProgOK
<1>1. ASSUME NEW t \in Threads, TStep(t) PROVE prog' \in Programs /\ pc' \in [Threads -> ThreadPC]
  <2>1. prog' \in Programs
    BY <1>0, <1>1, ThreadMove, Shorter
  <2>2. pc' = [pc EXCEPT ![t] = pc'[t]] /\ pc'[t] \in ThreadPC
    BY <1>1, ThreadMove
  <2> QED
    BY <1>0, <2>1, <2>2
<1>2. ASSUME NEW p \in Procs, Deliver(p) PROVE prog' \in Programs /\ pc' \in [Threads -> ThreadPC]
  BY <1>0, <1>2, DeliverMove
<1>3. ASSUME NEW a \in Actors, AnswerStep(a) \/ EndWorker(a) \/ Collect(a)
      PROVE  prog' \in Programs /\ pc' \in [Threads -> ThreadPC]
  BY <1>0, <1>3, WorkerMove
<1>4. ASSUME Quiet PROVE prog' \in Programs /\ pc' \in [Threads -> ThreadPC]
  BY <1>0, <1>4 DEF Quiet
<1>5. world' = world /\ prog' \in Programs /\ pc' \in [Threads -> ThreadPC]
  BY <1>1, <1>2, <1>3, <1>4, Moves
<1>6. down' \in {"no", "exit", "error"}
  BY DownStep
<1> QED
  BY <1>0, <1>5, <1>6 DEF ProgOK

(* A thread stays inside the first operation of its program. *)
LEMMA InsideStep ==
  ASSUME ProgOK, \A t \in Threads : Inside(t), TaskInv, [Next]_vars, NEW u \in Threads
  PROVE  Inside(u)'
<1>0. pc \in [Threads -> ThreadPC] /\ Inside(u)
  BY DEF ProgOK
<1>1. ASSUME NEW t \in Threads, TStep(t), t # u PROVE Inside(u)'
  <2>1. prog'[u] = prog[u] /\ pc'[u] = pc[u]
    <3>1. prog \in Programs /\ prog \in [Threads -> Seq(Operations)]
      BY DEF ProgOK, Programs
    <3> QED
      BY <1>0, <1>1, <3>1, ThreadMove
  <2> QED
    BY <1>0, <2>1 DEF Inside, Op
<1>2. ASSUME TStep(u) PROVE Inside(u)'
  <2> USE DEF Inside, Op, At, Finish, Fail
  <2>0. \/ pc'[u] = "ready"
        \/ prog' = prog /\ pc[u] = pc'[u]
        \/ prog' = prog /\ prog[u] # <<>> /\ Op(u).op = "wait" /\ pc'[u] \in {"register",
            "recheck", "asleep"}
        \/ prog' = prog /\ prog[u] # <<>> /\ Op(u).op = "gather" /\ pc'[u] \in {"wire", "probe"}
        \/ prog' = prog /\ prog[u] # <<>> /\ Op(u).op = "call" /\ pc'[u] \in {"marshal", "notify"}
    <3>1. CASE Leave(u)
      BY <1>0, <3>1 DEF Leave, lists
    <3>2. CASE TryResolve(u)
      BY <1>0, <3>2 DEF TryResolve, lists
    <3>3. CASE Register(u)
      BY <1>0, <3>3 DEF Register, lists
    <3>4. CASE Sleep(u)
      BY <1>0, <3>4 DEF Sleep, lists
    <3>5. CASE Gather(u)
      BY <1>0, <3>5 DEF Gather, lists
    <3>6. CASE WireSlot(u)
      BY <1>0, <3>6, ZenonT(120) DEF WireSlot, lists
    <3>7. CASE ProbeSlot(u)
      BY <1>0, <3>7 DEF ProbeSlot, lists
    <3>8. CASE Timeout(u)
      BY <1>0, <3>8 DEF Timeout, lists
    <3>9. CASE QueueCall(u)
      BY <1>0, <3>9 DEF QueueCall, lists
    <3>10. CASE Push(u)
      BY <1>0, <3>10 DEF Push, lists
    <3>11. CASE NotifyQueue(u)
      BY <1>0, <3>11 DEF NotifyQueue, lists
    <3>12. CASE MarshalThrows(u)
      BY <1>0, <3>12 DEF MarshalThrows, lists
    <3> HIDE DEF Inside, Op, At, Finish, Fail
    <3> QED
      BY <1>2, <3>1, <3>2, <3>3, <3>4, <3>5, <3>6, <3>7, <3>8, <3>9, <3>10, <3>11, <3>12 DEF TStep,
          ThreadStep, CallStep
  <2> QED
    BY <1>0, <2>0
<1>3. ASSUME NEW p \in Procs, Deliver(p) PROVE Inside(u)'
  BY <1>0, <1>3, DeliverMove DEF Inside, Op
<1>4. ASSUME UNCHANGED <<prog, pc>> PROVE Inside(u)'
  BY <1>0, <1>4 DEF Inside, Op
<1> QED
  BY <1>1, <1>2, <1>3, <1>4, Moves, WorkerMove DEF Quiet

-----------------------------------------------------------------------------
(* Results are final *)

(* A future once ready keeps its value. *)
Stable ==
  /\ result' = [f \in Futures |-> result'[f]]
  /\ \A f \in Futures : Ready(result[f]) => result'[f] = result[f]

(* Writing a future that is not ready, or writing what it has, keeps results. *)
LEMMA StableWrite ==
  ASSUME ListsOK, NEW x, NEW v, result' = [result EXCEPT ![x] = v],
         x \in Futures => ~Ready(result[x]) \/ result[x] = v
  PROVE  Stable
<1>1. result = [f \in Futures |-> result[f]]
  BY DEF ListsOK
<1>2. result' = [f \in Futures |-> IF f = x THEN v ELSE result[f]]
  BY <1>1
<1> QED
  BY <1>2 DEF Stable

(* So does writing nothing. *)
LEMMA StableSame ==
  ASSUME ListsOK, result' = result
  PROVE  Stable
BY DEF ListsOK, Stable

(* Who answers a call answers one that nobody has answered. *)
LEMMA AnswerMove ==
  ASSUME ProgOK, WorkOK, CallInv, NEW a \in Actors, AnswerStep(a)
  PROVE  \/ UNCHANGED <<result, todo>>
         \/ \E c \in Calls, v \in Results :
              /\ result[c] = None /\ Ready(v) /\ v # Broken /\ todo[a] = <<>>
              /\ \/ c = cur[a] /\ (RunCall(a) \/ RunFails(a) \/ RunThrows(a))
                 \/ DrainOne(a) /\ queue[a] # <<>> /\ c = Head(queue[a])
              /\ result' = [result EXCEPT ![c] = v]
              /\ todo' = [todo EXCEPT ![a] = <<WakeTask(c)>>]
<1> DEFINE Done(c) == \/ UNCHANGED <<result, todo>>
                      \/ \E v \in Results :
                           /\ result[c] = None /\ Ready(v) /\ v # Broken /\ todo[a] = <<>>
                           /\ result' = [result EXCEPT ![c] = v]
                           /\ todo' = [todo EXCEPT ![a] = <<WakeTask(c)>>]
<1>1. ASSUME NEW c \in Calls, Pending(c), todo[a] = <<>>,
             Answer(a, c, Ok(c)) \/ Answer(a, c, Exc(c)) \/ Answer(a, c, Nil)
      PROVE  Done(c)
  <2>1. {Ok(c), Exc(c), Nil} \subseteq Results
    BY DEF Results
  <2>2. /\ Ready(Ok(c)) /\ Ready(Exc(c)) /\ Ready(Nil)
        /\ Ok(c) # Broken /\ Exc(c) # Broken /\ Nil # Broken
    BY Values DEF Ready
  <2>3. CASE c \in world.procs
    BY <1>1, <2>3 DEF Answer
  <2>4. CASE c \notin world.procs
    BY <1>1, <2>1, <2>2, <2>4 DEF Answer, Pending
  <2> QED
    BY <2>3, <2>4
<1>2. CASE DrainOne(a)
  <2>1. queue[a] # <<>> /\ queue[a] \in Seq(Calls) /\ todo[a] = <<>>
    BY <1>2 DEF DrainOne, Worker, WorkOK
  <2>2. Head(queue[a]) \in Calls /\ Head(queue[a]) = queue[a][1] /\ 1 \in DOMAIN queue[a]
    BY <2>1, Rest
  <2>3. Pending(Head(queue[a]))
    BY <2>2 DEF CallInv, Queued
  <2> QED
    BY <1>1, <1>2, <2>1, <2>2, <2>3 DEF DrainOne
<1>3. CASE RunCall(a) \/ RunFails(a) \/ RunThrows(a)
  <2>1. wpc[a] = "run" /\ todo[a] = <<>>
    BY <1>3 DEF RunCall, RunFails, RunThrows, Worker
  <2>2. cur[a] \in Calls /\ Pending(cur[a])
    BY <2>1 DEF CallInv, Taken, WorkOK
  <2>3. \/ Answer(a, cur[a], Ok(cur[a])) \/ Answer(a, cur[a], Exc(cur[a]))
        \/ Answer(a, cur[a], Nil)
    BY <1>3 DEF RunCall, RunFails, RunThrows
  <2>4. Done(cur[a])
    BY <1>1, <2>1, <2>2, <2>3
  <2> QED
    BY <1>3, <2>2, <2>4
<1> QED
  BY <1>2, <1>3 DEF AnswerStep

(* A thread that is to gather has not gathered yet. *)
LEMMA NotGathered ==
  ASSUME ProgOK, CombInv, NEW t \in Threads, Gather(t)
  PROVE  /\ prog[t] # <<>> /\ Op(t).op = "gather" /\ pc[t] = "ready"
         /\ comb[t] = NoComb /\ result[t] = Absent
<1>1. prog[t] # <<>> /\ Op(t).op = "gather" /\ pc[t] = "ready"
  BY DEF Gather, At
<1>2. prog[t][1] = Op(t) /\ 1 \in DOMAIN prog[t]
  BY <1>1, OpType DEF ProgOK
<1>3. Gathered(t)
  BY DEF CombInv
<1> QED
  BY <1>1, <1>2, <1>3 DEF Gathered

(* What a thread that makes a call finds. *)
LEMMA NotMade ==
  ASSUME ProgOK, CallInv, NEW t \in Threads, prog[t] # <<>>, Op(t).op = "call", pc[t] # "notify"
  PROVE  /\ Op(t).c \in Calls /\ Free(Op(t).c)
         /\ IF pc[t] = "marshal" THEN Pending(Op(t).c) ELSE result[Op(t).c] = Absent
<1>1. prog[t][1] = Op(t) /\ 1 \in DOMAIN prog[t] /\ Op(t).c \in Calls
  BY OpType DEF ProgOK
<1>2. Made(t, 1)
  BY <1>1 DEF CallInv
<1> QED
  BY <1>1, <1>2 DEF Made

(* No step changes a future that is ready. *)
LEMMA ResultStep ==
  ASSUME ProgOK, ListsOK, WorkOK, CallInv, CombInv, TaskInv, [Next]_vars
  PROVE  Stable
<1>1. ASSUME NEW t \in Threads, TStep(t) PROVE Stable
  <2>1. CASE Gather(t)
    <3>1. result[t] = Absent
      BY <2>1, NotGathered
    <3>2. result' = result \/ result' = [result EXCEPT ![t] = None]
      BY <2>1 DEF Gather
    <3> QED
      BY <3>1, <3>2, StableSame, StableWrite DEF Ready
  <2>2. CASE QueueCall(t) \/ Push(t) \/ MarshalThrows(t)
    <3>1. prog[t] # <<>> /\ Op(t).op = "call" /\ pc[t] # "notify"
      BY <2>2 DEF QueueCall, Push, MarshalThrows, At
    <3>2. ~Ready(result[Op(t).c])
      BY <3>1, NotMade DEF Pending, Ready
    <3>3. result' = result \/ \E v : result' = [result EXCEPT ![Op(t).c] = v]
      <4>1. CASE QueueCall(t)
        BY <4>1 DEF QueueCall
      <4>2. CASE Push(t) \/ MarshalThrows(t)
        BY <4>2 DEF Push, MarshalThrows
      <4> QED
        BY <2>2, <4>1, <4>2
    <3> QED
      BY <3>2, <3>3, StableSame, StableWrite
  <2>3. CASE result' = result
    BY <2>3, StableSame
  <2> QED
    BY <1>1, <2>1, <2>2, <2>3, ZenonT(120)
       DEF TStep, ThreadStep, CallStep, Leave, TryResolve, Register, Sleep, WireSlot, ProbeSlot,
           Timeout, NotifyQueue
<1>2. ASSUME NEW p \in Procs, Deliver(p) PROVE Stable
  <2>1. CASE FulfilOut(p)
    <3> DEFINE k == Head(todo[p])
    <3>1. k.k = "out" /\ todo[p] # <<>> /\ result' = [result EXCEPT ![k.t] = k.v]
      BY <2>1 DEF FulfilOut, HeadIs
    <3>2. TaskOK(k)
      BY <3>1, HeadTask
    <3>3. result[k.t] \in {None, k.v}
      BY <3>1, <3>2, ZenonT(120) DEF TaskOK
    <3> HIDE DEF k
    <3> QED
      BY <3>1, <3>3, StableWrite DEF Ready
  <2>2. CASE TakeList(p) \/ WakeThread(p) \/ NotifySlot(p)
    BY <2>2, StableSame, ZenonT(120) DEF TakeList, WakeThread, NotifySlot
  <2> QED
    BY <1>2, <2>1, <2>2 DEF Deliver
<1>3. ASSUME NEW a \in Actors, AnswerStep(a) PROVE Stable
  <2>1. CASE result' = result
    BY <2>1, StableSame
  <2>2. CASE \E c \in Calls, v \in Results : result[c] = None /\ result' = [result EXCEPT ![c] = v]
    BY <2>2, StableWrite DEF Ready
  <2> QED
    BY <1>3, <2>1, <2>2, AnswerMove
<1>4. ASSUME NEW a \in Actors, EndWorker(a) PROVE Stable
  <2>1. result' = result \/ (~Ready(result[cur[a]]) /\ result' = [result EXCEPT ![cur[a]] = Broken])
    BY <1>4 DEF EndWorker, Abandon
  <2> QED
    BY <2>1, StableSame, StableWrite
<1>5. ASSUME NEW a \in Actors, Collect(a) PROVE Stable
  <2>1. result' = [f \in Futures |->
                     IF f \in Range(queue[a]) \ world.procs THEN Broken ELSE result[f]]
    BY <1>5 DEF Collect
  <2>2. ASSUME NEW f \in Range(queue[a]) \ world.procs PROVE ~Ready(result[f])
    <3>1. PICK i \in DOMAIN queue[a] : f = queue[a][i]
      BY <2>2 DEF Range
    <3>2. Pending(queue[a][i])
      BY <3>1 DEF CallInv, Queued
    <3> QED
      BY <2>2, <3>1, <3>2 DEF Pending, Ready
  <2> QED
    BY <2>1, <2>2 DEF Stable
<1>6. ASSUME Quiet PROVE Stable
  BY <1>6, StableSame DEF Quiet
<1> QED
  BY <1>1, <1>2, <1>3, <1>4, <1>5, <1>6, Moves, ZenonT(120)

-----------------------------------------------------------------------------
(* Combinators *)

(* A thread that wires or tests a slot has one to wire. *)
LEMMA WireAt ==
  ASSUME CombInv, NEW t \in Threads, pc[t] \in {"wire", "probe"}
  PROVE  /\ comb[t] # NoComb /\ CombOK(t) /\ comb[t].wired + 1 \in Inputs(t)
         /\ comb[t].in[comb[t].wired + 1] \in Futures
<1>1. Gathered(t)
  BY DEF CombInv
<1>2. comb[t] # NoComb /\ CombOK(t) /\ comb[t].wired + 1 \in Inputs(t)
  BY <1>1 DEF Gathered
<1> QED
  BY <1>2 DEF CombOK, Inputs

(* The fields of a combinator. *)
LEMMA FieldsOf ==
  ASSUME NEW m, NEW n, NEW g, NEW f, NEW w, NEW r
  PROVE  LET c == Rec(m, n, g, f, w, r)
         IN c.mode = m /\ c.in = n /\ c.got = g /\ c.fulfilled = f /\ c.wired = w /\ c.raised = r
BY DEF Rec

(* A combinator after a value is put in a slot. *)
LEMMA SetGot ==
  ASSUME NEW c, IsRec(c), NEW x, NEW i
  PROVE  [c EXCEPT !.got[i] = x] = Rec(c.mode, c.in, [c.got EXCEPT ![i] = x], c.fulfilled, c.wired,
      c.raised)
BY DEF Rec, IsRec

(* A combinator after its count of fulfilled slots changes. *)
LEMMA SetFulfilled ==
  ASSUME NEW c, IsRec(c), NEW x
  PROVE  [c EXCEPT !.fulfilled = x] = Rec(c.mode, c.in, c.got, x, c.wired, c.raised)
BY DEF Rec, IsRec

(* A combinator after its count of wired slots changes. *)
LEMMA SetWired ==
  ASSUME NEW c, IsRec(c), NEW x
  PROVE  [c EXCEPT !.wired = x] = Rec(c.mode, c.in, c.got, c.fulfilled, x, c.raised)
BY DEF Rec, IsRec

(* A combinator after its exception is noted. *)
LEMMA SetRaised ==
  ASSUME NEW c, IsRec(c), NEW x
  PROVE  [c EXCEPT !.raised = x] = Rec(c.mode, c.in, c.got, c.fulfilled, c.wired, x)
BY DEF Rec, IsRec

(* Testing a slot counts it and may note an exception. *)
LEMMA ProbeMove ==
  ASSUME CombInv, NEW t \in Threads, ProbeSlot(t)
  PROVE  \/ comb' = comb
         \/ \E y : comb' = [comb EXCEPT ![t] =
              Rec(comb[t].mode, comb[t].in, comb[t].got, comb[t].fulfilled, comb[t].wired + 1, y)]
<1>1. pc[t] = "probe" /\ comb = [u \in Threads |-> comb[u]]
  BY DEF ProbeSlot, At, CombInv
<1>2. IsRec(comb[t])
  BY <1>1, WireAt DEF CombOK
<1> DEFINE i == comb[t].wired + 1
           y == comb[t].raised \/ IsExc(result[comb[t].in[i]])
           c == [comb[t] EXCEPT !.wired = i]
<1>3. comb' = comb \/ comb' = [comb EXCEPT ![t].wired = i, ![t].raised = y]
  BY DEF ProbeSlot
<1>4. c = Rec(comb[t].mode, comb[t].in, comb[t].got, comb[t].fulfilled, i, comb[t].raised)
  <2> HIDE DEF i
  <2> QED
    BY <1>2, SetWired
<1>5. [c EXCEPT !.raised = y]
        = Rec(comb[t].mode, comb[t].in, comb[t].got, comb[t].fulfilled, i, y)
  <2> HIDE DEF i, y, c
  <2>1. /\ c.mode = comb[t].mode /\ c.in = comb[t].in /\ c.got = comb[t].got
        /\ c.fulfilled = comb[t].fulfilled /\ c.wired = i /\ c.raised = comb[t].raised
    BY <1>4, FieldsOf
  <2>2. IsRec(c)
    BY <1>4, <2>1 DEF IsRec
  <2> QED
    BY <2>1, <2>2, SetRaised
<1> HIDE DEF i, y
<1>6. comb' = [comb EXCEPT ![t].wired = i, ![t].raised = y]
        => comb' = [comb EXCEPT ![t] = [c EXCEPT !.raised = y]]
  BY <1>1, ZenonT(120)
<1> QED
  BY <1>3, <1>5, <1>6, ZenonT(120) DEF i

(* Being told of a slot once more changes nothing; the first time it is noted,
   and the combinator fires with a result that is right. *)
LEMMA SlotMove ==
  ASSUME CombInv, TaskInv, NEW p \in Procs, NotifySlot(p),
         NEW k, k = Head(todo[p]), NEW c, c = comb[k.t]
  PROVE  /\ k.k = "slot" /\ TaskOK(k) /\ todo[p] # <<>>
         /\ \/ comb' = comb /\ todo' = [todo EXCEPT ![p] = Tail(@)]
            \/ /\ ~c.fulfilled /\ c.got[k.i] = None
               /\ \E f \in BOOLEAN :
                    /\ comb' = [comb EXCEPT ![k.t] =
                         Rec(c.mode, c.in, [c.got EXCEPT ![k.i] = k.v], f, c.wired, c.raised)]
                    /\ ~f => ~IsExc(k.v) /\ todo' = [todo EXCEPT ![p] = Tail(@)]
                    /\ f => \E x : /\ Right(k.t, x)
                                   /\ todo' = [todo EXCEPT ![p] = <<OutTask(k.t, x)>> \o Tail(@)]
<1>1. k.k = "slot" /\ TaskOK(k) /\ todo[p] # <<>>
  BY HeadTask, ZenonT(120) DEF NotifySlot, HeadIs
<1>2. /\ k.t \in Threads /\ comb[k.t] # NoComb /\ k.i \in Inputs(k.t)
      /\ k.v = result[comb[k.t].in[k.i]] /\ Ready(k.v)
  BY <1>1, ZenonT(120) DEF TaskOK
<1>3. Gathered(k.t) /\ CombOK(k.t) /\ comb = [u \in Threads |-> comb[u]]
  BY <1>2, ZenonT(120) DEF CombInv, Gathered
<1>4. PICK S : todo \in [Procs -> Seq(S)]
  BY DEF TaskInv, TasksOK
<1>5. Tail(todo[p]) \in Seq(S)
  BY <1>1, <1>4, SMTT(60)
<1> DEFINE a == AfterSlot(c, k.i, k.v)
           d == [c EXCEPT !.got[k.i] = k.v]
           g == [c.got EXCEPT ![k.i] = k.v]
           Fired(x) == /\ a.comb = Rec(c.mode, c.in, g, TRUE, c.wired, c.raised)
                       /\ a.fires = x /\ x # None /\ Right(k.t, x)
<1>6. /\ comb' = [comb EXCEPT ![k.t] = a.comb]
      /\ todo' = [todo EXCEPT ![p] =
           (IF a.fires = None THEN <<>> ELSE <<OutTask(k.t, a.fires)>>) \o Tail(@)]
  BY ZenonT(120) DEF NotifySlot
<1>7. IsRec(c)
  BY <1>3 DEF CombOK
<1>8. d = Rec(c.mode, c.in, g, c.fulfilled, c.wired, c.raised)
  <2>1. \A x, i : [c EXCEPT !.got[i] = x]
                    = Rec(c.mode, c.in, [c.got EXCEPT ![i] = x], c.fulfilled, c.wired, c.raised)
    BY ONLY <1>7, SetGot, ZenonT(120)
  <2> QED
    BY ONLY <2>1, Zenon
<1>9. d.got = g /\ [d EXCEPT !.fulfilled = TRUE] = Rec(c.mode, c.in, g, TRUE, c.wired, c.raised)
  <2> HIDE DEF d, g
  <2>1. /\ d.mode = c.mode /\ d.in = c.in /\ d.got = g
        /\ d.fulfilled = c.fulfilled /\ d.wired = c.wired /\ d.raised = c.raised
    BY ONLY <1>8, ZenonT(120) DEF Rec
  <2>2. IsRec(d)
    BY <1>8, <2>1, ZenonT(120) DEF IsRec
  <2>3. \A x : [d EXCEPT !.fulfilled = x] = Rec(d.mode, d.in, d.got, x, d.wired, d.raised)
    BY ONLY <2>2, SetFulfilled
  <2>4. [d EXCEPT !.fulfilled = TRUE] = Rec(d.mode, d.in, d.got, TRUE, d.wired, d.raised)
    BY ONLY <2>3, Zenon
  <2> QED
    BY <2>1, <2>4, ZenonT(120)
<1>10. DOMAIN g = Inputs(k.t) /\ g[k.i] = k.v /\ \A j \in Inputs(k.t) \ {k.i} : g[j] = c.got[j]
  BY <1>2, <1>3, ZenonT(120) DEF CombOK
<1>11. g = [j \in Inputs(k.t) |-> g[j]]
  BY <1>3, ZenonT(120) DEF CombOK
<1> DEFINE waits == {j \in DOMAIN d.got : d.got[j] = None}
<1>12. IsFiniteSet(waits)
  <2>1. comb[k.t].in \in Seq(Futures)
    BY <1>3 DEF CombOK
  <2>2. Inputs(k.t) = 1..Len(comb[k.t].in) /\ Len(comb[k.t].in) \in Nat
    BY <2>1, SMTT(60) DEF Inputs
  <2>3. IsFiniteSet(1..Len(comb[k.t].in))
    BY <2>2, FS_Interval
  <2>4. waits \subseteq 1..Len(comb[k.t].in)
    BY <1>9, <1>10, <2>2, ZenonT(120)
  <2> HIDE DEF waits
  <2> QED
    BY <2>3, <2>4, FS_Subset
<1>13. Cardinality(waits) = 0 <=> waits = {}
  <2> HIDE DEF waits
  <2> QED
    BY <1>12, FS_EmptySet
<1>14. CASE c.fulfilled \/ c.got[k.i] # None
  <2>1. a = [comb |-> c, fires |-> None]
    BY <1>14, ZenonT(120) DEF AfterSlot
  <2>2. a.comb = c /\ a.fires = None
    BY <2>1, SMTT(60)
  <2> HIDE DEF a
  <2>3. comb' = comb
    BY <1>2, <1>3, <1>6, <2>2, ZenonT(120)
  <2>4. todo' = [todo EXCEPT ![p] = <<>> \o Tail(todo[p])]
    BY <1>6, <2>2
  <2>5. <<>> \o Tail(todo[p]) = Tail(todo[p])
    BY <1>5, SMTT(60)
  <2> QED
    BY <1>1, <2>3, <2>4, <2>5, ZenonT(120)
<1>15. CASE ~(c.fulfilled \/ c.got[k.i] # None)
  <2> DEFINE AnyTask == <<"any", k.i, k.v>>
             All == <<"all", g>>
  <2>1. ASSUME IsExc(k.v) PROVE Fired(k.v)
    <3>1. a = [comb |-> [d EXCEPT !.fulfilled = TRUE], fires |-> k.v]
      BY <1>15, <2>1 DEF AfterSlot
    <3>2. a.comb = [d EXCEPT !.fulfilled = TRUE] /\ a.fires = k.v
      BY <3>1, SMTT(60)
    <3>3. Right(k.t, k.v)
      BY <1>2, <2>1, ZenonT(120) DEF Right
    <3>4. k.v # None
      BY <2>1, Values, ZenonT(120)
    <3> HIDE DEF a, d, g
    <3> QED
      BY <1>9, <3>2, <3>3, <3>4, ZenonT(120)
  <2>2. ASSUME ~IsExc(k.v), c.mode = "any" PROVE Fired(AnyTask)
    <3>1. a = [comb |-> [d EXCEPT !.fulfilled = TRUE], fires |-> AnyTask]
      BY <1>15, <2>2, ZenonT(120) DEF AfterSlot
    <3>2. a.comb = [d EXCEPT !.fulfilled = TRUE] /\ a.fires = AnyTask
      BY <3>1, SMTT(60)
    <3>3. Right(k.t, AnyTask)
      BY <1>2, <2>2, ZenonT(120) DEF Right
    <3>4. AnyTask # None
      BY Values, ZenonT(120)
    <3> HIDE DEF a, d, g, AnyTask
    <3> QED
      BY <1>9, <3>2, <3>3, <3>4, ZenonT(120)
  <2>3. ASSUME ~IsExc(k.v), c.mode # "any", Cardinality(waits) = 0 PROVE Fired(All)
    <3>1. a = [comb |-> [d EXCEPT !.fulfilled = TRUE], fires |-> <<"all", d.got>>]
      BY <1>15, <2>3, ZenonT(120) DEF AfterSlot
    <3>2. a.comb = [d EXCEPT !.fulfilled = TRUE] /\ a.fires = All
      <4> HIDE DEF a, d, g
      <4>1. a.comb = [d EXCEPT !.fulfilled = TRUE] /\ a.fires = <<"all", d.got>>
        <5>1. PICK x, y : x = [d EXCEPT !.fulfilled = TRUE] /\ y = <<"all", d.got>>
          BY ZenonT(120)
        <5>2. a = [comb |-> x, fires |-> y]
          BY <3>1, <5>1
        <5>3. a.comb = x /\ a.fires = y
          BY ONLY <5>2
        <5> QED
          BY ONLY <5>1, <5>3
      <4> QED
        BY <1>9, <4>1, ZenonT(120)
    <3>3. \A j \in Inputs(k.t) : g[j] # None
      <4>1. waits = {}
        BY <1>13, <2>3
      <4> HIDE DEF d, g
      <4> QED
        BY <1>9, <1>10, <4>1, ZenonT(120)
    <3> HIDE DEF a, d, g
    <3>4. \A j \in Inputs(k.t) :
            g[j] = result[comb[k.t].in[j]] /\ Ready(g[j]) /\ ~IsExc(g[j])
      <4> TAKE j \in Inputs(k.t)
      <4>1. CASE j = k.i
        BY <1>2, <1>10, <2>3, <4>1, ZenonT(120)
      <4>2. CASE j # k.i
        <5>1. g[j] = comb[k.t].got[j] /\ comb[k.t].got[j] # None
          BY <1>10, <3>3, <4>2
        <5> QED
          BY <1>2, <1>3, <1>15, <5>1, ZenonT(120) DEF Gathered
      <4> QED
        BY <4>1, <4>2
    <3>5. g = [j \in Inputs(k.t) |-> result[comb[k.t].in[j]]]
      BY <1>11, <3>4, ZenonT(120)
    <3>6. comb[k.t].mode = "all"
      BY <1>3, <2>3, ZenonT(120) DEF CombOK
    <3>7. Right(k.t, All)
      BY <3>4, <3>5, <3>6, ZenonT(120) DEF Right
    <3>8. All # None
      BY Values, ZenonT(120)
    <3> HIDE DEF All
    <3> QED
      BY <1>9, <3>2, <3>7, <3>8, ZenonT(120)
  <2>4. ASSUME ~IsExc(k.v), c.mode # "any", Cardinality(waits) # 0
        PROVE  a.comb = d /\ a.fires = None
    <3>1. a = [comb |-> d, fires |-> None]
      BY <1>15, <2>4 DEF AfterSlot
    <3> QED
      BY <3>1, SMTT(60)
  <2>5. ~c.fulfilled /\ c.got[k.i] = None /\ c.fulfilled = FALSE
    <3>1. c.fulfilled \in BOOLEAN
      BY <1>3, ZenonT(120) DEF CombOK
    <3> QED
      BY <1>15, <3>1, ZenonT(120)
  <2>6. ASSUME NEW x, Fired(x)
        PROVE  \E f \in BOOLEAN :
                 /\ comb' = [comb EXCEPT ![k.t] = Rec(c.mode, c.in, g, f, c.wired, c.raised)]
                 /\ ~f => ~IsExc(k.v) /\ todo' = [todo EXCEPT ![p] = Tail(@)]
                 /\ f => \E y : /\ Right(k.t, y)
                                /\ todo' = [todo EXCEPT ![p] = <<OutTask(k.t, y)>> \o Tail(@)]
    <3> HIDE DEF a, g
    <3>1. comb' = [comb EXCEPT ![k.t] = Rec(c.mode, c.in, g, TRUE, c.wired, c.raised)]
      BY <1>6, <2>6
    <3>2. Right(k.t, x) /\ todo' = [todo EXCEPT ![p] = <<OutTask(k.t, x)>> \o Tail(@)]
      BY <1>6, <2>6
    <3> QED
      BY <3>1, <3>2
  <2>7. ASSUME ~IsExc(k.v), a.comb = d, a.fires = None
        PROVE  \E f \in BOOLEAN :
                 /\ comb' = [comb EXCEPT ![k.t] = Rec(c.mode, c.in, g, f, c.wired, c.raised)]
                 /\ ~f => ~IsExc(k.v) /\ todo' = [todo EXCEPT ![p] = Tail(@)]
                 /\ f => \E y : /\ Right(k.t, y)
                                /\ todo' = [todo EXCEPT ![p] = <<OutTask(k.t, y)>> \o Tail(@)]
    <3> HIDE DEF a, g, d
    <3>1. comb' = [comb EXCEPT ![k.t] = Rec(c.mode, c.in, g, FALSE, c.wired, c.raised)]
      BY <1>6, <1>8, <2>5, <2>7, ZenonT(120)
    <3>2. todo' = [todo EXCEPT ![p] = <<>> \o Tail(todo[p])]
      BY <1>6, <2>7
    <3>3. <<>> \o Tail(todo[p]) = Tail(todo[p])
      BY <1>5
    <3> QED
      BY <2>7, <3>1, <3>2, <3>3, ZenonT(120)
  <2>8. \E f \in BOOLEAN :
          /\ comb' = [comb EXCEPT ![k.t] = Rec(c.mode, c.in, g, f, c.wired, c.raised)]
          /\ ~f => ~IsExc(k.v) /\ todo' = [todo EXCEPT ![p] = Tail(@)]
          /\ f => \E y : /\ Right(k.t, y)
                         /\ todo' = [todo EXCEPT ![p] = <<OutTask(k.t, y)>> \o Tail(@)]
    <3> HIDE DEF a, g, d, Fired, AnyTask, All, waits
    <3> QED
      BY <2>1, <2>2, <2>3, <2>4, <2>6, <2>7
  <2> QED
    BY <1>1, <2>5, <2>8, ZenonT(120)
<1> QED
  BY <1>14, <1>15, ZenonT(120)

(* What a step may do to a thread's combinator: make it, count a slot, or note
   an input. *)
Begun(u) ==
  /\ Gather(u) /\ comb[u] = NoComb
  /\ comb'[u] = Rec(Op(u).mode, Op(u).in, [i \in DOMAIN Op(u).in |-> None], FALSE, 0, FALSE)
  /\ result' = [result EXCEPT ![u] = None] /\ prog' = prog

Counted(u, y) ==
  /\ ProbeSlot(u)
  /\ comb'[u] = Rec(comb[u].mode, comb[u].in, comb[u].got, comb[u].fulfilled,
                    comb[u].wired + 1, y)

Noted(u, i, v, f) ==
  /\ comb[u] # NoComb /\ ~comb[u].fulfilled /\ comb[u].got[i] = None
  /\ v = result[comb[u].in[i]] /\ Ready(v) /\ (~f => ~IsExc(v))
  /\ comb'[u] = Rec(comb[u].mode, comb[u].in, [comb[u].got EXCEPT ![i] = v], f,
                    comb[u].wired, comb[u].raised)
  /\ UNCHANGED <<prog, pc, result>>

Change(u) ==
  \/ comb'[u] = comb[u]
  \/ Begun(u)
  \/ \E y : Counted(u, y)
  \/ \E i \in Inputs(u), f \in BOOLEAN : Noted(u, i, result[comb[u].in[i]], f)

(* No step does anything else to it. *)
LEMMA CombStep ==
  ASSUME ProgOK, CombInv, TaskInv, [Next]_vars
  PROVE  comb' = [u \in Threads |-> comb'[u]] /\ \A u \in Threads : Change(u)
<1>0. comb = [u \in Threads |-> comb[u]]
  BY DEF CombInv
<1> DEFINE Goal == comb' = [u \in Threads |-> comb'[u]] /\ \A u \in Threads : Change(u)
<1>1. ASSUME comb' = comb PROVE Goal
  BY <1>0, <1>1 DEF Change
<1>2. ASSUME NEW t \in Threads, NEW x, comb' = [comb EXCEPT ![t] = x]
      PROVE  /\ comb' = [u \in Threads |-> comb'[u]] /\ comb'[t] = x
             /\ \A u \in Threads \ {t} : Change(u)
  BY <1>0, <1>2 DEF Change
<1>3. ASSUME NEW t \in Threads, Gather(t) PROVE Goal
  <2> DEFINE x == Rec(Op(t).mode, Op(t).in, [i \in DOMAIN Op(t).in |-> None], FALSE, 0, FALSE)
  <2>1. \/ comb' = comb
        \/ /\ comb' = [comb EXCEPT ![t] = x] /\ result' = [result EXCEPT ![t] = None]
           /\ prog' = prog
    BY <1>3 DEF Gather, Rec
  <2>2. comb[t] = NoComb
    BY <1>3, NotGathered
  <2>3. ASSUME comb' = [comb EXCEPT ![t] = x], result' = [result EXCEPT ![t] = None], prog' = prog
        PROVE  Goal
    <3>1. /\ comb' = [u \in Threads |-> comb'[u]] /\ comb'[t] = x
          /\ \A u \in Threads \ {t} : Change(u)
      <4> HIDE DEF x
      <4> QED
        BY <1>2, <2>3
    <3>2. Begun(t)
      BY <1>3, <2>2, <2>3, <3>1 DEF Begun
    <3>3. Change(t)
      BY <3>2 DEF Change
    <3> QED
      BY <3>1, <3>3
  <2> HIDE DEF x, Goal
  <2> QED
    BY <1>1, <2>1, <2>3
<1>4. ASSUME NEW t \in Threads, ProbeSlot(t) PROVE Goal
  <2>1. ASSUME NEW y, comb' = [comb EXCEPT ![t] =
                 Rec(comb[t].mode, comb[t].in, comb[t].got, comb[t].fulfilled,
                     comb[t].wired + 1, y)]
        PROVE  Goal
    <3>1. PICK x : x = Rec(comb[t].mode, comb[t].in, comb[t].got, comb[t].fulfilled,
                           comb[t].wired + 1, y)
      OBVIOUS
    <3>2. /\ comb' = [u \in Threads |-> comb'[u]] /\ comb'[t] = x
          /\ \A u \in Threads \ {t} : Change(u)
      BY <1>2, <2>1, <3>1
    <3>3. Counted(t, y)
      BY <1>4, <3>1, <3>2 DEF Counted
    <3>4. Change(t)
      BY <3>3 DEF Change
    <3> QED
      BY <3>2, <3>4
  <2> HIDE DEF Goal
  <2> QED
    BY <1>1, <1>4, <2>1, ProbeMove
<1>5. ASSUME NEW p \in Procs, NotifySlot(p) PROVE Goal
  <2>1. PICK k : k = Head(todo[p])
    OBVIOUS
  <2>2. PICK c : c = comb[k.t]
    BY ZenonT(120)
  <2>3. /\ k.k = "slot" /\ TaskOK(k)
        /\ \/ comb' = comb
           \/ /\ ~c.fulfilled /\ c.got[k.i] = None
              /\ \E f \in BOOLEAN :
                   /\ comb' = [comb EXCEPT ![k.t] =
                        Rec(c.mode, c.in, [c.got EXCEPT ![k.i] = k.v], f, c.wired, c.raised)]
                   /\ ~f => ~IsExc(k.v)
    BY <1>5, <2>1, <2>2, SlotMove
  <2>4. /\ k.t \in Threads /\ comb[k.t] # NoComb /\ k.i \in Inputs(k.t)
        /\ k.v = result[comb[k.t].in[k.i]] /\ Ready(k.v)
    BY <2>3, ZenonT(120) DEF TaskOK
  <2>5. UNCHANGED <<prog, pc, result>>
    BY <1>5, ZenonT(120) DEF NotifySlot
  <2>6. ASSUME NEW f \in BOOLEAN, ~c.fulfilled, c.got[k.i] = None, ~f => ~IsExc(k.v),
               comb' = [comb EXCEPT ![k.t] =
                 Rec(c.mode, c.in, [c.got EXCEPT ![k.i] = k.v], f, c.wired, c.raised)]
        PROVE  Goal
    <3>1. PICK x : x = Rec(c.mode, c.in, [c.got EXCEPT ![k.i] = k.v], f, c.wired, c.raised)
      BY ZenonT(120)
    <3>2. /\ comb' = [u \in Threads |-> comb'[u]] /\ comb'[k.t] = x
          /\ \A u \in Threads \ {k.t} : Change(u)
      BY <1>2, <2>4, <2>6, <3>1, ZenonT(120)
    <3>3. Noted(k.t, k.i, k.v, f)
      BY <2>2, <2>4, <2>5, <2>6, <3>1, <3>2, ZenonT(120) DEF Noted
    <3>4. Noted(k.t, k.i, result[comb[k.t].in[k.i]], f)
      BY <2>4, <3>3
    <3>5. Change(k.t)
      BY <2>4, <3>4, Zenon DEF Change
    <3> QED
      BY <3>2, <3>5
  <2> HIDE DEF Goal
  <2> QED
    BY <1>1, <2>3, <2>6
<1>6. ASSUME NEW t \in Threads, TStep(t), ~Gather(t), ~ProbeSlot(t) PROVE comb' = comb
  BY <1>6, ZenonT(120) DEF TStep, ThreadStep, CallStep, Leave, TryResolve, Register, Sleep, WireSlot, Timeout,
              QueueCall, Push, NotifyQueue, MarshalThrows
<1>7. ASSUME NEW p \in Procs, Deliver(p), ~NotifySlot(p) PROVE comb' = comb
  BY <1>7, ZenonT(120) DEF Deliver, TakeList, WakeThread, FulfilOut
<1> HIDE DEF Goal
<1>8. Goal
  BY <1>1, <1>3, <1>4, <1>5, <1>6, <1>7, Moves, WorkerMove DEF Quiet
<1> QED
  BY <1>8 DEF Goal

(* A combinator stays, keeps its inputs, and stays fulfilled. *)
Kept(u) ==
  comb[u] # NoComb =>
    /\ comb'[u] # NoComb /\ comb'[u].mode = comb[u].mode /\ comb'[u].in = comb[u].in
    /\ comb[u].fulfilled => comb'[u].fulfilled

(* No step loses a combinator. *)
LEMMA CombKept ==
  ASSUME ProgOK, CombInv, TaskInv, [Next]_vars, NEW u \in Threads
  PROVE  Kept(u)
<1> SUFFICES ASSUME comb[u] # NoComb PROVE Kept(u)
  BY DEF Kept
<1>1. Change(u)
  BY CombStep
<1>2. CombOK(u)
  BY DEF CombInv, Gathered
<1>3. \A x : x.mode \in {"all", "any"} => x # NoComb
  BY DEF NoComb
<1>4. CASE comb'[u] = comb[u]
  BY <1>4 DEF Kept
<1>5. CASE \E y : Counted(u, y)
  <2>1. comb'[u].mode = comb[u].mode /\ comb'[u].in = comb[u].in
    BY <1>5, FieldsOf DEF Counted
  <2>2. comb'[u].fulfilled = comb[u].fulfilled
    BY <1>5, FieldsOf DEF Counted
  <2> QED
    BY <1>2, <1>3, <2>1, <2>2 DEF Kept, CombOK
<1>6. CASE \E i \in Inputs(u), f \in BOOLEAN : Noted(u, i, result[comb[u].in[i]], f)
  <2>1. comb'[u].mode = comb[u].mode /\ comb'[u].in = comb[u].in /\ ~comb[u].fulfilled
    BY <1>6, FieldsOf, SMTT(60) DEF Noted
  <2> QED
    BY <1>2, <1>3, <2>1 DEF Kept, CombOK
<1> QED
  BY <1>1, <1>4, <1>5, <1>6 DEF Change, Begun

(* What is a right result stays one. *)
LEMMA RightKept ==
  ASSUME Stable, NEW u \in Threads, comb[u] # NoComb, CombOK(u), Kept(u), NEW v, Right(u, v)
  PROVE  Right(u, v)' /\ Ready(v)
<1>1. comb'[u].mode = comb[u].mode /\ comb'[u].in = comb[u].in
  BY DEF Kept
<1>2. \A i \in Inputs(u) : comb[u].in[i] \in Futures
  BY DEF CombOK, Inputs
<1>3. \A x : IsExc(x) => Ready(x)
  BY Values DEF Ready
<1>4. \A i \in Inputs(u) : Ready(result[comb[u].in[i]])
                             => result'[comb'[u].in[i]] = result[comb[u].in[i]]
  BY <1>1, <1>2 DEF Stable
<1>5. Inputs(u)' = Inputs(u)
  BY <1>1, ZenonT(120) DEF Inputs
<1> DEFINE r == [i \in Inputs(u) |-> result[comb[u].in[i]]]
<1>6. ASSUME NEW i \in Inputs(u), IsExc(r[i]), v = r[i] PROVE Right(u, v)' /\ Ready(v)
  BY <1>3, <1>4, <1>5, <1>6, ZenonT(120) DEF Right
<1>7. ASSUME comb[u].mode = "all", v = <<"all", r>>,
    \A i \in Inputs(u) : Ready(r[i]) /\ ~IsExc(r[i])
      PROVE  Right(u, v)' /\ Ready(v)
  <2>1. r' = r
    BY <1>4, <1>5, <1>7, ZenonT(120)
  <2>2. Right(u, v)'
    BY <1>1, <1>5, <1>7, <2>1 DEF Right
  <2>3. Ready(v)
    BY <1>7, Values DEF Ready
  <2> QED
    BY <2>2, <2>3
<1>8. ASSUME comb[u].mode = "any", NEW i \in Inputs(u), Ready(r[i]), v = <<"any", i, r[i]>>
      PROVE  Right(u, v)' /\ Ready(v)
  <2>1. result'[comb'[u].in[i]] = r[i]
    BY <1>4, <1>8, ZenonT(120)
  <2>2. Right(u, v)'
    BY <1>1, <1>5, <1>8, <2>1 DEF Right
  <2>3. Ready(v)
    BY <1>8, Values DEF Ready
  <2> QED
    BY <2>2, <2>3
<1> QED
  BY <1>6, <1>7, <1>8 DEF Right

-----------------------------------------------------------------------------
(* Lists of waiters *)

(* A thread that gathers builds a combinator or throws. *)
LEMMA GatherMove ==
  ASSUME ProgOK, \A v \in Threads : Inside(v), CombInv, NEW t \in Threads, Gather(t)
  PROVE  \/ Finish(t) /\ UNCHANGED <<comb, result>>
         \/ /\ Begun(t) /\ comb'[t] # NoComb /\ pc' = [pc EXCEPT ![t] = "wire"]
            /\ \A i \in DOMAIN Op(t).in : Settled(Op(t).in[i])
<1>1. CASE \E i \in DOMAIN Op(t).in : result[Op(t).in[i]] = Absent
  BY <1>1 DEF Gather
<1>2. CASE ~\E i \in DOMAIN Op(t).in : result[Op(t).in[i]] = Absent
  <2>0. prog[t] # <<>> /\ Op(t).op = "gather" /\ comb[t] = NoComb
    BY NotGathered
  <2>1. /\ comb' = [comb EXCEPT ![t] =
             Rec(Op(t).mode, Op(t).in, [i \in DOMAIN Op(t).in |-> None], FALSE, 0, FALSE)]
        /\ result' = [result EXCEPT ![t] = None] /\ prog' = prog
        /\ pc' = [pc EXCEPT ![t] = "wire"]
    BY <1>2 DEF Gather, Rec
  <2>2. comb = [v \in Threads |-> comb[v]]
    BY DEF CombInv
  <2>3. comb'[t] = Rec(Op(t).mode, Op(t).in, [i \in DOMAIN Op(t).in |-> None], FALSE, 0, FALSE)
    BY <2>1, <2>2
  <2>4. Begun(t)
    BY <2>0, <2>1, <2>3 DEF Begun
  <2>5. comb'[t].mode = Op(t).mode
    BY ONLY <2>3 DEF Rec
  <2>6. Op(t).mode \in {"all", "any"} /\ NoComb.mode = "none"
    BY <2>0, OpType DEF ProgOK, NoComb
  <2>7. ASSUME NEW i \in DOMAIN Op(t).in PROVE Settled(Op(t).in[i])
    <3>1. ~Building(Op(t).in[i]) /\ result[Op(t).in[i]] # Absent
      BY <1>2 DEF Gather
    <3>2. PICK f : f = Op(t).in[i]
      OBVIOUS
    <3>3. ASSUME NEW v \in Threads, pc[v] = "marshal", Op(v).c = f PROVE FALSE
      <4>1. prog[v] # <<>> /\ Op(v).op = "call"
        BY <3>3 DEF Inside
      <4>2. Op(v) \in Operations
        <5>1. prog[v] \in Seq(Operations)
          BY DEF ProgOK, Programs
        <5> QED
          BY <4>1, <5>1 DEF Op
      <4>3. Op(v) = [op |-> "call", c |-> f]
        BY <3>3, <4>1, <4>2 DEF Operations
      <4>4. Building(f)
        BY <3>3, <4>1, <4>3 DEF Building
      <4> QED
        BY <3>1, <3>2, <4>4
    <3> QED
      BY <3>1, <3>2, <3>3 DEF Settled
  <2> QED
    BY <2>1, <2>4, <2>5, <2>6, <2>7
<1> QED
  BY <1>1, <1>2

(* Only the one who built it gives a combinator's future its place, and only
   whoever fires it its value. *)
LEMMA ThreadResult ==
  ASSUME ProgOK, \A v \in Threads : Inside(v), ListsOK, WorkOK, CallInv, CombInv, TaskInv,
      [Next]_vars, NEW u \in Threads
  PROVE  \/ result'[u] = result[u]
         \/ Gather(u) /\ comb[u] = NoComb /\ comb'[u] # NoComb
         \/ \E p \in Procs : /\ FulfilOut(p) /\ Head(todo[p]).t = u
                             /\ result'[u] = Head(todo[p]).v
<1> DEFINE Goal == \/ result'[u] = result[u]
                   \/ Gather(u) /\ comb[u] = NoComb /\ comb'[u] # NoComb
                   \/ \E p \in Procs : /\ FulfilOut(p) /\ Head(todo[p]).t = u
                                       /\ result'[u] = Head(todo[p]).v
<1>0. u \in Futures /\ u \notin Calls /\ result = [f \in Futures |-> result[f]]
  BY NamesAssumption DEF Futures, ListsOK
<1>1. ASSUME NEW x, NEW v, result' = [result EXCEPT ![x] = v], x # u PROVE result'[u] = result[u]
  BY <1>0, <1>1, ZenonT(120)
<1>2. ASSUME NEW t \in Threads, TStep(t) PROVE Goal
  <2>1. CASE Gather(t)
    <3>1. CASE Begun(t)
      BY <1>1, <2>1, <3>1, GatherMove DEF Begun
    <3>2. CASE Finish(t) /\ UNCHANGED <<comb, result>>
      BY <3>2
    <3> QED
      BY <2>1, <3>1, <3>2, GatherMove
  <2>2. CASE QueueCall(t) \/ Push(t) \/ MarshalThrows(t)
    <3>1. prog[t] # <<>> /\ Op(t).op = "call"
      BY <2>2 DEF QueueCall, Push, MarshalThrows, At
    <3>2. Op(t).c # u
      BY <1>0, <3>1, OpType DEF ProgOK
    <3>3. result' = result \/ \E v : result' = [result EXCEPT ![Op(t).c] = v]
      <4>1. CASE QueueCall(t)
        BY <4>1 DEF QueueCall
      <4>2. CASE Push(t) \/ MarshalThrows(t)
        BY <4>2 DEF Push, MarshalThrows
      <4> QED
        BY <2>2, <4>1, <4>2
    <3> QED
      BY <1>1, <3>2, <3>3
  <2>3. CASE result' = result
    BY <2>3
  <2> HIDE DEF Goal
  <2> QED
    BY <1>2, <2>1, <2>2, <2>3
       DEF TStep, ThreadStep, CallStep, Leave, TryResolve, Register, Sleep, WireSlot, ProbeSlot,
           Timeout, NotifyQueue
<1>3. ASSUME NEW p \in Procs, Deliver(p) PROVE Goal
  <2>1. CASE FulfilOut(p)
    <3>1. result' = [result EXCEPT ![Head(todo[p]).t] = Head(todo[p]).v]
      BY <2>1 DEF FulfilOut
    <3>2. CASE Head(todo[p]).t = u
      BY <1>0, <2>1, <3>1, <3>2
    <3>3. CASE Head(todo[p]).t # u
      BY <1>1, <3>1, <3>3, ZenonT(120)
    <3> QED
      BY <3>2, <3>3
  <2>2. CASE TakeList(p) \/ WakeThread(p) \/ NotifySlot(p)
    BY <2>2, ZenonT(120) DEF TakeList, WakeThread, NotifySlot
  <2> QED
    BY <1>3, <2>1, <2>2 DEF Deliver
<1>4. ASSUME NEW a \in Actors, AnswerStep(a) PROVE Goal
  <2>1. CASE result' = result
    BY <2>1
  <2>2. ASSUME NEW c \in Calls, NEW v \in Results, result' = [result EXCEPT ![c] = v] PROVE Goal
    BY <1>0, <1>1, <2>2
  <2> HIDE DEF Goal
  <2> QED
    BY <1>4, <2>1, <2>2, AnswerMove
<1>5. ASSUME NEW a \in Actors, EndWorker(a) PROVE Goal
  <2>1. result' = result
        \/ (cur[a] # NoCall /\ result' = [result EXCEPT ![cur[a]] = Broken])
    BY <1>5 DEF EndWorker, Abandon
  <2>2. cur[a] # NoCall => cur[a] # u
    BY <1>0 DEF WorkOK
  <2> QED
    BY <1>1, <2>1, <2>2
<1>6. ASSUME NEW a \in Actors, Collect(a) PROVE Goal
  <2>1. result' = [f \in Futures |->
                     IF f \in Range(queue[a]) \ world.procs THEN Broken ELSE result[f]]
    BY <1>6 DEF Collect
  <2>2. queue[a] \in Seq(Calls)
    BY DEF WorkOK
  <2>3. u \notin Range(queue[a])
    BY <1>0, <2>2 DEF Range
  <2> QED
    BY <1>0, <2>1, <2>3
<1> HIDE DEF Goal
<1>7. Quiet => Goal
  BY DEF Quiet, Goal
<1>8. Goal
  BY <1>2, <1>3, <1>4, <1>5, <1>6, <1>7, Moves
<1> QED
  BY <1>8 DEF Goal

(* Lists stay lists, and what a slot is put on is an input of its combinator. *)
LEMMA ListStep ==
  ASSUME ProgOK, \A t \in Threads : Inside(t), ListsOK, WorkOK, CallInv, CombInv, SlotInv, TaskInv,
         [Next]_vars
  PROVE  /\ ListsOK'
         /\ \A f \in Futures : \A s \in slotWaiters'[f] : Slot(s[1], s[2], f)
<1> DEFINE Threaded == threadWaiters' \in [Futures -> SUBSET Threads]
           Slotted == /\ slotWaiters' \in [Futures -> SUBSET (Threads \X Nat)]
                      /\ \A f \in Futures : IsFiniteSet(slotWaiters'[f])
                      /\ \A f \in Futures : \A s \in slotWaiters'[f] : Slot(s[1], s[2], f)
<1>0. /\ threadWaiters \in [Futures -> SUBSET Threads]
      /\ slotWaiters \in [Futures -> SUBSET (Threads \X Nat)]
      /\ \A f \in Futures : IsFiniteSet(slotWaiters[f])
      /\ \A f \in Futures : \A s \in slotWaiters[f] : Slot(s[1], s[2], f)
  BY DEF ListsOK, SlotInv
<1>1. threadWaiters' = threadWaiters => Threaded
  BY <1>0
<1>2. slotWaiters' = slotWaiters => Slotted
  BY <1>0
<1>3. ASSUME NEW t \in Threads, TStep(t) PROVE Threaded /\ Slotted
  <2>1. CASE Register(t)
    <3>1. prog[t] # <<>> /\ Op(t).op = "wait"
      BY <2>1 DEF Register, At
    <3>2. Op(t).f \in Futures
      BY <3>1, OpType DEF ProgOK
    <3>3. threadWaiters' = [threadWaiters EXCEPT ![Op(t).f] = @ \cup {t}] /\ slotWaiters' = slotWaiters
      BY <2>1 DEF Register
    <3>4. Threaded
      BY <1>0, <3>2, <3>3
    <3> HIDE DEF Threaded, Slotted
    <3> QED
      BY <1>2, <3>3, <3>4
  <2>2. CASE ProbeSlot(t)
    <3>1. PICK f : f = comb[t].in[comb[t].wired + 1]
      BY ZenonT(120)
    <3>2. threadWaiters' = threadWaiters \/ threadWaiters' = [threadWaiters EXCEPT ![f] = @ \cup {t}]
      BY <2>2, <3>1 DEF ProbeSlot
    <3>3. Threaded
      BY <1>0, <3>2, ZenonT(120)
    <3>4. slotWaiters' = slotWaiters
      BY <2>2 DEF ProbeSlot
    <3> HIDE DEF Threaded, Slotted
    <3> QED
      BY <1>2, <3>3, <3>4
  <2>3. CASE WireSlot(t)
    <3>1. PICK i : i = comb[t].wired + 1
      OBVIOUS
    <3>2. PICK f : f = comb[t].in[i]
      OBVIOUS
    <3>3. /\ slotWaiters' = [slotWaiters EXCEPT ![f] = @ \cup {<<t, i>>}]
          /\ threadWaiters' = threadWaiters /\ pc[t] = "wire"
      BY <2>3, <3>1, <3>2 DEF WireSlot, At
    <3>4. comb[t] # NoComb /\ CombOK(t) /\ i \in Inputs(t) /\ f \in Futures
      BY <3>1, <3>2, <3>3, WireAt
    <3>5. i \in Nat
      BY <3>1, <3>4 DEF CombOK
    <3>6. \A g \in Futures : slotWaiters'[g] = IF g = f THEN slotWaiters[g] \cup {<<t, i>>}
                                                       ELSE slotWaiters[g]
      BY <1>0, <3>3
    <3>7. slotWaiters' \in [Futures -> SUBSET (Threads \X Nat)]
      <4>1. \A g \in Futures : slotWaiters'[g] \in SUBSET (Threads \X Nat)
        <5>1. <<t, i>> \in Threads \X Nat
          BY <3>5
        <5>2. slotWaiters[f] \cup {<<t, i>>} \in SUBSET (Threads \X Nat)
          BY <1>0, <3>4, <5>1
        <5> QED
          BY <1>0, <3>6, <5>2
      <4>2. slotWaiters' = [g \in Futures |-> slotWaiters'[g]]
        BY <1>0, <3>3
      <4> QED
        BY <4>1, <4>2
    <3>8. \A g \in Futures : IsFiniteSet(slotWaiters'[g])
      <4>1. IsFiniteSet(slotWaiters[f] \cup {<<t, i>>})
        BY <1>0, <3>4, FS_AddElement
      <4> QED
        BY <1>0, <3>6, <4>1
    <3>9. Slot(t, i, f)
      BY <3>2, <3>4 DEF Slot
    <3>10. \A g \in Futures : \A s \in slotWaiters'[g] : Slot(s[1], s[2], g)
      <4> TAKE g \in Futures
      <4> TAKE s \in slotWaiters'[g]
      <4>1. CASE s \in slotWaiters[g]
        BY <1>0, <4>1
      <4>2. CASE s \notin slotWaiters[g]
        <5>1. g = f /\ s = <<t, i>>
          BY <3>6, <4>2
        <5>2. s[1] = t /\ s[2] = i
          BY <5>1
        <5> QED
          BY <3>9, <5>1, <5>2
      <4> QED
        BY <4>1, <4>2
    <3>11. Slotted
      BY <3>7, <3>8, <3>10
    <3> HIDE DEF Threaded, Slotted
    <3> QED
      BY <1>1, <3>3, <3>11
  <2>4. CASE threadWaiters' = threadWaiters /\ slotWaiters' = slotWaiters
    BY <1>1, <1>2, <2>4
  <2> HIDE DEF Threaded, Slotted
  <2> QED
    BY <1>3, <2>1, <2>2, <2>3, <2>4
       DEF TStep, ThreadStep, CallStep, Leave, TryResolve, Sleep, Gather, Timeout, NotifyQueue,
           QueueCall, Push, MarshalThrows, lists
<1>4. ASSUME NEW p \in Procs, Deliver(p) PROVE Threaded /\ Slotted
  <2>1. CASE TakeList(p)
    <3>1. PICK f : f = Head(todo[p]).f
      OBVIOUS
    <3>2. /\ threadWaiters' = [threadWaiters EXCEPT ![f] = {}]
          /\ slotWaiters' = [slotWaiters EXCEPT ![f] = {}]
      BY <2>1, <3>1 DEF TakeList
    <3>3. Threaded
      BY <1>0, <3>2
    <3>4. Slotted
      BY <1>0, <3>2, FS_EmptySet, ZenonT(120)
    <3> QED
      BY <3>3, <3>4
  <2>2. CASE WakeThread(p) \/ NotifySlot(p) \/ FulfilOut(p)
    BY <1>1, <1>2, <2>2, ZenonT(120) DEF WakeThread, NotifySlot, FulfilOut, lists
  <2> QED
    BY <1>4, <2>1, <2>2 DEF Deliver
<1> HIDE DEF Threaded, Slotted
<1>5. Threaded /\ Slotted
  BY <1>1, <1>2, <1>3, <1>4, Moves, WorkerMove DEF Quiet
<1>6. result' = [f \in Futures |-> result'[f]]
  BY ResultStep DEF Stable
<1> QED
  BY <1>5, <1>6 DEF Threaded, Slotted, ListsOK

(* So every slot on a list is one. *)
LEMMA SlotStep ==
  ASSUME ProgOK, \A t \in Threads : Inside(t), ListsOK, WorkOK, CallInv, CombInv, SlotInv, TaskInv,
         [Next]_vars
  PROVE  SlotInv'
<1> SUFFICES ASSUME NEW f \in Futures, NEW s \in slotWaiters'[f] PROVE Slot(s[1], s[2], f)'
  BY DEF SlotInv
<1>1. Slot(s[1], s[2], f)
  BY ListStep
<1>2. ListsOK'
  BY ListStep
<1>3. s[1] \in Threads
  BY <1>2 DEF ListsOK
<1>4. Kept(s[1])
  BY <1>3, CombKept
<1> QED
  BY <1>1, <1>4 DEF Slot, Kept, Inputs

-----------------------------------------------------------------------------
(* Futures that have been given out *)

(* A future that has been given out is not taken back. *)
LEMMA SettledKept ==
  ASSUME ProgOK, \A t \in Threads : Inside(t), ListsOK, WorkOK, CallInv, CombInv, TaskInv,
         [Next]_vars, NEW f \in Futures, Settled(f)
  PROVE  Settled(f)'
<1>0. /\ result[f] # Absent /\ \A t \in Threads : ~(pc[t] = "marshal" /\ Op(t).c = f)
      /\ pc \in [Threads -> ThreadPC] /\ result = [g \in Futures |-> result[g]]
  BY DEF Settled, ProgOK, ListsOK
<1>1. ASSUME NEW u \in Threads, pc'[u] = "marshal", Op(u)'.c = f PROVE FALSE
  <2>1. ASSUME pc[u] = "marshal", prog'[u] = prog[u] PROVE FALSE
    BY <1>0, <1>1, <2>1 DEF Op
  <2>2. ASSUME NEW t \in Threads, TStep(t) PROVE FALSE
    <3>1. CASE t # u
      <4>1. prog \in [Threads -> Seq(Operations)]
        BY DEF ProgOK, Programs
      <4>2. prog'[u] = prog[u] /\ pc'[u] = pc[u]
        BY <1>0, <2>2, <3>1, <4>1, ThreadMove
      <4> QED
        BY <1>1, <2>1, <4>2
    <3>2. CASE t = u
      <4>1. QueueCall(u) /\ pc'[u] = "marshal" /\ prog' = prog
        <5>1. ASSUME ThreadStep(u) \/ Timeout(u) \/ MarshalThrows(u) \/ Push(u) \/ NotifyQueue(u)
              PROVE  FALSE
          <6> USE <1>0, <1>1 DEF At, Finish, Fail
          <6>1. CASE ProbeSlot(u)
            BY <6>1, ZenonT(120) DEF ProbeSlot
          <6>2. CASE TryResolve(u)
            BY <6>2 DEF TryResolve
          <6>3. CASE Leave(u) \/ Register(u) \/ Sleep(u) \/ WireSlot(u) \/ Timeout(u)
            BY <6>3 DEF Leave, Register, Sleep, WireSlot, Timeout
          <6>4. CASE Gather(u)
            BY <6>4 DEF Gather
          <6>5. CASE MarshalThrows(u) \/ NotifyQueue(u) \/ Push(u)
            BY <6>5 DEF MarshalThrows, NotifyQueue, Push
          <6> QED
            BY <5>1, <6>1, <6>2, <6>3, <6>4, <6>5, ZenonT(120) DEF ThreadStep
        <5>2. QueueCall(u)
          BY <2>2, <3>2, <5>1 DEF TStep, CallStep
        <5>3. prog' = prog
          BY <1>0, <1>1, <5>2 DEF QueueCall, Finish
        <5> QED
          BY <1>1, <5>2, <5>3
      <4>2. prog[u] # <<>> /\ Op(u).op = "call" /\ pc[u] = "ready" /\ Op(u).c = f
        BY <1>1, <4>1 DEF QueueCall, At, Op
      <4>3. result[f] = Absent
        BY <4>2, NotMade
      <4> QED
        BY <1>0, <4>3
    <3> QED
      BY <3>1, <3>2
  <2>3. ASSUME NEW p \in Procs, Deliver(p) PROVE FALSE
    BY <1>1, <2>1, <2>3, DeliverMove
  <2>4. ASSUME UNCHANGED <<prog, pc>> PROVE FALSE
    BY <1>1, <2>1, <2>4
  <2> QED
    BY <2>2, <2>3, <2>4, Moves, WorkerMove DEF Quiet
<1>2. Stable
  BY ResultStep
<1>3. result'[f] # Absent
  <2>1. CASE Ready(result[f])
    BY <1>0, <1>2, <2>1 DEF Stable
  <2>2. ASSUME NEW x, NEW v, result' = [result EXCEPT ![x] = v], x = f => v # Absent
        PROVE  result'[f] # Absent
    BY <1>0, <2>2, ZenonT(120)
  <2>3. ASSUME NEW t \in Threads, TStep(t) PROVE result'[f] # Absent
    <3>1. CASE Gather(t)
      <4>1. result' = result \/ result' = [result EXCEPT ![t] = None]
        BY <3>1 DEF Gather
      <4> QED
        BY <1>0, <2>2, <4>1, Values
    <3>2. CASE QueueCall(t) \/ Push(t) \/ MarshalThrows(t)
      <4>1. prog[t] # <<>> /\ Op(t).op = "call" /\ pc[t] \in {"ready", "marshal"}
        BY <3>2 DEF QueueCall, Push, MarshalThrows, At
      <4>2. Op(t).c # f
        BY <1>0, <4>1, NotMade
      <4>3. result' = result \/ \E v : result' = [result EXCEPT ![Op(t).c] = v]
        <5>1. CASE QueueCall(t)
          BY <5>1 DEF QueueCall
        <5>2. CASE Push(t) \/ MarshalThrows(t)
          BY <5>2 DEF Push, MarshalThrows
        <5> QED
          BY <3>2, <5>1, <5>2
      <4> QED
        BY <1>0, <2>2, <4>2, <4>3
    <3>3. CASE result' = result
      BY <1>0, <3>3
    <3> QED
      BY <2>3, <3>1, <3>2, <3>3
         DEF TStep, ThreadStep, CallStep, Leave, TryResolve, Register, Sleep, WireSlot, ProbeSlot,
             Timeout, NotifyQueue
  <2>4. ASSUME NEW p \in Procs, Deliver(p) PROVE result'[f] # Absent
    <3>1. CASE FulfilOut(p)
      <4>1. PICK k : k = Head(todo[p])
        OBVIOUS
      <4>2. k.k = "out" /\ todo[p] # <<>> /\ result' = [result EXCEPT ![k.t] = k.v]
        BY <3>1, <4>1 DEF FulfilOut, HeadIs
      <4>3. k.t \in Threads /\ comb[k.t] # NoComb /\ Right(k.t, k.v)
        BY <4>1, <4>2, HeadTask, ZenonT(120) DEF TaskOK
      <4>4. CombOK(k.t) /\ Kept(k.t)
        BY <4>3, CombKept DEF CombInv, Gathered
      <4>5. Ready(k.v)
        BY <1>2, <4>3, <4>4, RightKept, ZenonT(120)
      <4> QED
        BY <2>2, <4>2, <4>5 DEF Ready
    <3>2. CASE TakeList(p) \/ WakeThread(p) \/ NotifySlot(p)
      BY <1>0, <3>2, ZenonT(120) DEF TakeList, WakeThread, NotifySlot
    <3> QED
      BY <2>4, <3>1, <3>2 DEF Deliver
  <2>5. ASSUME NEW a \in Actors, AnswerStep(a) PROVE result'[f] # Absent
    <3>1. CASE result' = result
      BY <1>0, <3>1
    <3>2. ASSUME NEW c \in Calls, NEW v \in Results, Ready(v), result' = [result EXCEPT ![c] = v]
          PROVE  result'[f] # Absent
      BY <2>2, <3>2 DEF Ready
    <3> QED
      BY <2>5, <3>1, <3>2, AnswerMove
  <2>6. ASSUME NEW a \in Actors, EndWorker(a) PROVE result'[f] # Absent
    <3>1. result' = result \/ result' = [result EXCEPT ![cur[a]] = Broken]
      BY <2>6 DEF EndWorker, Abandon
    <3> QED
      BY <1>0, <2>2, <3>1, Values
  <2>7. ASSUME NEW a \in Actors, Collect(a) PROVE result'[f] # Absent
    <3>1. result' = [g \in Futures |->
                       IF g \in Range(queue[a]) \ world.procs THEN Broken ELSE result[g]]
      BY <2>7 DEF Collect
    <3> QED
      BY <1>0, <3>1, Values
  <2>8. Quiet => result'[f] # Absent
    BY <1>0 DEF Quiet
  <2> QED
    BY <2>3, <2>4, <2>5, <2>6, <2>7, <2>8, Moves
<1> QED
  BY <1>1, <1>3 DEF Settled

-----------------------------------------------------------------------------
(* Wakes to deliver *)

(* A wake that told what is so still does. *)
LEMMA TaskKept ==
  ASSUME ProgOK, \A t \in Threads : Inside(t), ListsOK, WorkOK, CallInv, CombInv, TaskInv,
         [Next]_vars, NEW S, TasksOK(S), NEW k \in S
  PROVE  TaskOK(k)'
<1>0. TaskOK(k) /\ Stable
  BY ResultStep DEF TasksOK
<1>1. CASE k.k = "wake" /\ k.f \in Futures /\ Ready(result[k.f])
  BY <1>0, <1>1 DEF TaskOK, Stable
<1>2. CASE k.k = "notify" /\ k.t \in Threads
  BY <1>2 DEF TaskOK
<1>3. CASE /\ k.k = "slot" /\ k.t \in Threads /\ comb[k.t] # NoComb /\ k.i \in Inputs(k.t)
           /\ k.v = result[comb[k.t].in[k.i]] /\ Ready(k.v)
  <2>1. Kept(k.t) /\ CombOK(k.t)
    BY <1>3, CombKept DEF CombInv, Gathered
  <2>2. comb[k.t].in[k.i] \in Futures
    BY <1>3, <2>1 DEF CombOK, Inputs
  <2>3. result'[comb'[k.t].in[k.i]] = k.v /\ k.i \in Inputs(k.t)' /\ comb'[k.t] # NoComb
    BY <1>0, <1>3, <2>1, <2>2 DEF Stable, Kept, Inputs
  <2> QED
    BY <1>3, <2>3, ZenonT(120) DEF TaskOK
<1>4. CASE /\ k.k = "out" /\ k.t \in Threads /\ comb[k.t] # NoComb /\ comb[k.t].fulfilled
           /\ Right(k.t, k.v) /\ result[k.t] \in {None, k.v}
  <2>1. Kept(k.t) /\ CombOK(k.t)
    BY <1>4, CombKept DEF CombInv, Gathered
  <2>2. PICK t, v : t = k.t /\ v = k.v
    OBVIOUS
  <2>3. Right(t, v)' /\ comb'[t] # NoComb /\ comb'[t].fulfilled
    BY <1>0, <1>4, <2>1, <2>2, RightKept DEF Kept
  <2>4. result'[t] \in {None, v}
    <3>1. CASE result'[t] = result[t]
      BY <1>4, <2>2, <3>1
    <3>2. ASSUME NEW p \in Procs, FulfilOut(p), Head(todo[p]).t = t, result'[t] = Head(todo[p]).v
          PROVE  result'[t] = v
      <4>1. todo[p] # <<>> /\ Head(todo[p]).k = "out"
        BY <3>2 DEF FulfilOut, HeadIs
      <4>2. todo[p] \in Seq(S)
        BY DEF TasksOK
      <4>3. Head(todo[p]) \in S
        BY <4>1, <4>2, Rest
      <4>4. Head(todo[p]).v = k.v
        BY <1>4, <2>2, <3>2, <4>1, <4>3 DEF TasksOK
      <4> QED
        BY <2>2, <3>2, <4>4
    <3> QED
      BY <1>4, <2>2, <3>1, <3>2, ThreadResult
  <2> QED
    BY <1>4, <2>2, <2>3, <2>4 DEF TaskOK
<1> QED
  BY <1>0, <1>1, <1>2, <1>3, <1>4 DEF TaskOK

(* New wakes that tell what is so may be added. *)
LEMMA Grow ==
  ASSUME NEW S, NEW N, \A k \in S : TaskOK(k)', \A k \in N : TaskOK(k)',
         todo' \in [Procs -> Seq(S \cup N)],
         \A k, l \in S \cup N : k.k = "out" /\ l.k = "out" /\ k.t = l.t => k.v = l.v
  PROVE  TaskInv'
<1>1. \A k \in S \cup N : TaskOK(k)'
  OBVIOUS
<1>2. TasksOK(S \cup N)'
  BY <1>1 DEF TasksOK
<1>3. PICK T : T = S \cup N
  OBVIOUS
<1>4. TasksOK(T)'
  BY <1>2, <1>3
<1> QED
  BY <1>4 DEF TaskInv

(* Wakes put in front of what is left. *)
LEMMA Before ==
  ASSUME NEW S, NEW N, NEW s \in Seq(N), NEW r \in Seq(S), r # <<>>
  PROVE  s \o Tail(r) \in Seq(S \cup N)
<1>1. s \in Seq(S \cup N)
  BY N \subseteq S \cup N, Larger
<1>2. Tail(r) \in Seq(S)
  BY Rest
<1>3. Tail(r) \in Seq(S \cup N)
  BY <1>2, S \subseteq S \cup N, Larger
<1> QED
  BY <1>1, <1>3

(* The wakes to deliver go on telling what is so. *)
LEMMA TaskStep ==
  ASSUME ProgOK, \A t \in Threads : Inside(t), ListsOK, WorkOK, CallInv, CombInv, SlotInv, TaskInv,
         [Next]_vars
  PROVE  TaskInv'
<1>0. PICK S : TasksOK(S)
  BY DEF TaskInv
<1>1. todo \in [Procs -> Seq(S)] /\ \A k \in S : TaskOK(k)'
  BY <1>0, TaskKept DEF TasksOK
<1>2. \A k, l \in S : k.k = "out" /\ l.k = "out" /\ k.t = l.t => k.v = l.v
  BY <1>0 DEF TasksOK
<1>3. ASSUME todo' = todo PROVE TaskInv'
  <2>1. todo' \in [Procs -> Seq(S \cup {})]
    BY <1>1, <1>3
  <2> QED
    BY <1>1, <1>2, <2>1, Grow
<1>4. ASSUME NEW p \in Procs, todo' = [todo EXCEPT ![p] = Tail(@)], todo[p] # <<>> PROVE TaskInv'
  <2>1. todo[p] \in Seq(S) /\ Tail(todo[p]) \in Seq(S)
    BY <1>1, <1>4, Rest
  <2>2. todo' \in [Procs -> Seq(S \cup {})]
    BY <1>1, <1>4, <2>1
  <2> QED
    BY <1>1, <1>2, <2>2, Grow
<1>5. ASSUME NEW N, \A k \in N : TaskOK(k)' /\ k.k # "out", NEW p \in Procs, NEW s \in Seq(N),
             \/ todo' = [todo EXCEPT ![p] = s]
             \/ todo' = [todo EXCEPT ![p] = s \o Tail(@)] /\ todo[p] # <<>>
      PROVE  TaskInv'
  <2>0. todo[p] \in Seq(S) /\ s \in Seq(S \cup N)
    BY <1>1, N \subseteq S \cup N, Larger
  <2>1. todo' \in [Procs -> Seq(S \cup N)]
    <3>1. PICK r \in Seq(S \cup N) : todo' = [todo EXCEPT ![p] = r]
      BY <1>5, <2>0, Before
    <3>2. PICK T : T = S \cup N
      OBVIOUS
    <3>3. S \subseteq T /\ r \in Seq(T)
      BY <3>1, <3>2
    <3>4. todo' \in [Procs -> Seq(T)]
      <4>1. todo \in [Procs -> Seq(T)]
        <6>1. \A q \in Procs : todo[q] \in Seq(T)
          <7> TAKE q \in Procs
          <7>1. todo[q] \in Seq(S)
            BY <1>1
          <7> QED
            BY <3>3, <7>1, Larger
        <6> QED
          BY <1>1, <6>1
      <4> QED
        BY <3>1, <3>3, <4>1
    <3> QED
      BY <3>2, <3>4
  <2> QED
    BY <1>1, <1>2, <1>5, <2>1, Grow
<1>6. Threads \subseteq Procs /\ Actors \subseteq Procs /\ Threads \subseteq Futures
      /\ Calls \subseteq Futures
  BY DEF Procs, Actors, Futures
<1>7. ASSUME NEW t \in Threads, ProbeSlot(t) PROVE TaskInv'
  <2>1. PICK i : i = comb[t].wired + 1
    OBVIOUS
  <2>2. PICK f : f = comb[t].in[i]
    BY ZenonT(120)
  <2>3. todo' = todo \/ (/\ result[f] # None
                         /\ todo' = [todo EXCEPT ![t] = <<SlotTask(t, i, result[f])>>])
    BY <1>7, <2>1, <2>2 DEF ProbeSlot
  <2>4. ASSUME result[f] # None, todo' = [todo EXCEPT ![t] = <<SlotTask(t, i, result[f])>>]
        PROVE  TaskInv'
    <3>1. pc[t] = "probe"
      BY <1>7 DEF ProbeSlot, At
    <3>2. comb[t] # NoComb /\ CombOK(t) /\ i \in Inputs(t) /\ f \in Futures
      BY <2>1, <2>2, <3>1, WireAt
    <3>3. Settled(f)
      BY <2>2, <3>2 DEF CombInv, Gathered
    <3>4. Ready(result[f])
      BY <2>4, <3>3 DEF Settled, Ready
    <3>5. PICK v : v = result[f]
      OBVIOUS
    <3>6. Stable /\ Kept(t)
      BY ResultStep, CombKept
    <3>7. result'[comb'[t].in[i]] = v /\ i \in Inputs(t)' /\ comb'[t] # NoComb
      BY <2>2, <3>2, <3>4, <3>5, <3>6 DEF Stable, Kept, Inputs
    <3>8. PICK k : k = SlotTask(t, i, v)
      OBVIOUS
    <3>9. k.k = "slot" /\ k.t = t /\ k.i = i /\ k.v = v
      BY <3>8 DEF SlotTask
    <3>10. TaskOK(k)'
      BY <3>4, <3>5, <3>7, <3>9 DEF TaskOK
    <3>11. \A l \in {k} : TaskOK(l)' /\ l.k # "out"
      BY <3>9, <3>10
    <3>12. <<k>> \in Seq({k}) /\ todo' = [todo EXCEPT ![t] = <<k>>]
      BY <2>4, <3>5, <3>8
    <3> QED
      BY <1>5, <1>6, <3>11, <3>12
  <2> QED
    BY <1>3, <2>3, <2>4
<1>8. ASSUME NEW t \in Threads, TStep(t), ~ProbeSlot(t) PROVE todo' = todo
  BY <1>8 DEF TStep, ThreadStep, CallStep, Leave, TryResolve, Register, Sleep, WireSlot, Gather,
              Timeout, QueueCall, Push, NotifyQueue, MarshalThrows
<1>9. ASSUME NEW p \in Procs, TakeList(p) PROVE TaskInv'
  <2>1. PICK f : f = Head(todo[p]).f
    OBVIOUS
  <2>2. PICK v : v = result[f]
    OBVIOUS
  <2>3. todo[p] # <<>> /\ Head(todo[p]).k = "wake" /\ result' = result /\ comb' = comb
    BY <1>9 DEF TakeList, HeadIs
  <2>4. f \in Futures /\ Ready(v)
    BY <2>1, <2>2, <2>3, HeadTask, ZenonT(120) DEF TaskOK
  <2> DEFINE A == {NotifyTask(t) : t \in threadWaiters[f]}
             B == {SlotTask(s[1], s[2], v) : s \in slotWaiters[f]}
  <2>5. todo' = [todo EXCEPT ![p] = SetToSeq(A) \o SetToSeq(B) \o Tail(@)]
    BY <1>9, <2>1, <2>2 DEF TakeList
  <2>6. IsFiniteSet(A)
    <3>1. threadWaiters[f] \subseteq Threads /\ IsFiniteSet(Threads)
      BY <2>4, NamesAssumption DEF ListsOK
    <3>2. IsFiniteSet(threadWaiters[f])
      BY <3>1, FS_Subset
    <3>3. PICK g : g = [t \in threadWaiters[f] |-> NotifyTask(t)]
      OBVIOUS
    <3>4. g \in Surjection(threadWaiters[f], A)
      BY <3>3 DEF Surjection
    <3> HIDE DEF A
    <3> QED
      BY <3>2, <3>4, FS_Surjection
  <2>7. IsFiniteSet(B)
    <3>1. IsFiniteSet(slotWaiters[f])
      BY <2>4 DEF ListsOK
    <3>2. PICK g : g = [s \in slotWaiters[f] |-> SlotTask(s[1], s[2], v)]
      OBVIOUS
    <3>3. g \in Surjection(slotWaiters[f], B)
      BY <3>2 DEF Surjection
    <3> HIDE DEF B
    <3> QED
      BY <3>1, <3>3, FS_Surjection
  <2>8. \A k \in A : TaskOK(k)' /\ k.k # "out"
    <3> TAKE k \in A
    <3>1. PICK t \in threadWaiters[f] : k = NotifyTask(t)
      OBVIOUS
    <3>2. t \in Threads
      BY <2>4 DEF ListsOK
    <3>3. k.k = "notify" /\ k.t = t
      BY <3>1 DEF NotifyTask
    <3> QED
      BY <3>2, <3>3 DEF TaskOK
  <2>9. \A k \in B : TaskOK(k)' /\ k.k # "out"
    <3> TAKE k \in B
    <3>1. PICK s \in slotWaiters[f] : k = SlotTask(s[1], s[2], v)
      OBVIOUS
    <3>2. s[1] \in Threads
      BY <2>4 DEF ListsOK
    <3>3. Slot(s[1], s[2], f)
      BY <2>4 DEF SlotInv
    <3>4. k.k = "slot" /\ k.t = s[1] /\ k.i = s[2] /\ k.v = v
      BY <3>1 DEF SlotTask
    <3>5. comb'[k.t] # NoComb /\ k.i \in Inputs(k.t)' /\ k.v = result'[comb'[k.t].in[k.i]]
      BY <2>2, <2>3, <3>3, <3>4 DEF Slot, Inputs
    <3> QED
      BY <2>4, <3>2, <3>4, <3>5 DEF TaskOK
  <2> HIDE DEF A, B
  <2>10. SetToSeq(A) \o SetToSeq(B) \in Seq(A \cup B)
    <3>1. SetToSeq(A) \in Seq(A \cup B)
      BY <2>6, Listing, Larger
    <3>2. SetToSeq(B) \in Seq(A \cup B)
      BY <2>7, Listing, Larger
    <3> QED
      BY <3>1, <3>2
  <2>11. \A k \in A \cup B : TaskOK(k)' /\ k.k # "out"
    BY <2>8, <2>9
  <2> QED
    BY <1>5, <2>3, <2>5, <2>10, <2>11
<1>10. ASSUME NEW p \in Procs, WakeThread(p) PROVE TaskInv'
  BY <1>4, <1>10 DEF WakeThread, HeadIs
<1>11. ASSUME NEW p \in Procs, NotifySlot(p) PROVE TaskInv'
  <2>1. PICK k : k = Head(todo[p])
    OBVIOUS
  <2>2. PICK c : c = comb[k.t]
    OBVIOUS
  <2>3. /\ k.k = "slot" /\ TaskOK(k) /\ todo[p] # <<>>
        /\ \/ todo' = [todo EXCEPT ![p] = Tail(@)]
           \/ /\ ~c.fulfilled
              /\ comb' = [comb EXCEPT ![k.t] =
                   Rec(c.mode, c.in, [c.got EXCEPT ![k.i] = k.v], TRUE, c.wired, c.raised)]
              /\ \E x : /\ Right(k.t, x)
                        /\ todo' = [todo EXCEPT ![p] = <<OutTask(k.t, x)>> \o Tail(@)]
    <3>1. /\ k.k = "slot" /\ TaskOK(k) /\ todo[p] # <<>>
          /\ \/ todo' = [todo EXCEPT ![p] = Tail(@)]
             \/ /\ ~c.fulfilled
                /\ \E f \in BOOLEAN :
                    /\ comb' = [comb EXCEPT ![k.t] =
                         Rec(c.mode, c.in, [c.got EXCEPT ![k.i] = k.v], f, c.wired, c.raised)]
                    /\ ~f => todo' = [todo EXCEPT ![p] = Tail(@)]
                    /\ f => \E x : /\ Right(k.t, x)
                                   /\ todo' = [todo EXCEPT ![p] = <<OutTask(k.t, x)>> \o Tail(@)]
      BY <1>11, <2>1, <2>2, SlotMove
    <3>2. ASSUME NEW f \in BOOLEAN, f,
                 comb' = [comb EXCEPT ![k.t] =
                   Rec(c.mode, c.in, [c.got EXCEPT ![k.i] = k.v], f, c.wired, c.raised)]
          PROVE  comb' = [comb EXCEPT ![k.t] =
                   Rec(c.mode, c.in, [c.got EXCEPT ![k.i] = k.v], TRUE, c.wired, c.raised)]
      <4>1. f = TRUE
        BY <3>2
      <4> QED
        BY <3>2, <4>1
    <3> QED
      BY <3>1, <3>2
  <2>4. k.t \in Threads /\ comb[k.t] # NoComb
    BY <2>3 DEF TaskOK
  <2>5. CombOK(k.t) /\ Gathered(k.t) /\ comb = [u \in Threads |-> comb[u]] /\ Kept(k.t) /\ Stable
    BY <2>4, CombKept, ResultStep DEF CombInv, Gathered
  <2>6. ASSUME ~c.fulfilled, comb'[k.t].fulfilled, NEW x, Right(k.t, x),
               todo' = [todo EXCEPT ![p] = <<OutTask(k.t, x)>> \o Tail(@)]
        PROVE  TaskInv'
    <3>1. PICK t : t = k.t
      OBVIOUS
    <3>2. Right(t, x)' /\ comb'[t] # NoComb /\ comb'[t].fulfilled /\ t \in Threads
      BY <2>4, <2>5, <2>6, <3>1, RightKept DEF Kept
    <3>3. result'[t] = None
      <4>1. result[t] = None
        BY <2>2, <2>4, <2>5, <2>6, <3>1, ZenonT(120) DEF Gathered
      <4>2. result' = result
        BY <1>11, ZenonT(120) DEF NotifySlot
      <4> QED
        BY <4>1, <4>2
    <3>4. PICK l : l = OutTask(t, x)
      OBVIOUS
    <3>5. l.k = "out" /\ l.t = t /\ l.v = x
      BY <3>4 DEF OutTask
    <3>6. TaskOK(l)'
      BY <3>2, <3>3, <3>5 DEF TaskOK
    <3>7. \A m \in S : m.k = "out" => m.t # t
      BY <1>0, <2>2, <2>6, <3>1 DEF TasksOK, TaskOK
    <3>8. todo' = [todo EXCEPT ![p] = <<l>> \o Tail(@)] /\ <<l>> \in Seq({l})
      BY <2>6, <3>1, <3>4
    <3>9. todo' \in [Procs -> Seq(S \cup {l})]
      <4>1. PICK r \in Seq(S \cup {l}) : todo' = [todo EXCEPT ![p] = r]
        BY <1>1, <2>3, <3>8, Before
      <4>2. PICK T : T = S \cup {l}
        OBVIOUS
      <4>3. S \subseteq T /\ r \in Seq(T)
        BY <4>1, <4>2
      <4>4. todo' \in [Procs -> Seq(T)]
        <5>1. todo \in [Procs -> Seq(T)]
          <6>1. \A q \in Procs : todo[q] \in Seq(T)
            <7> TAKE q \in Procs
            <7>1. todo[q] \in Seq(S)
              BY <1>1
            <7> QED
              BY <4>3, <7>1, Larger
          <6> QED
            BY <1>1, <6>1
        <5> QED
          BY <4>1, <4>3, <5>1
      <4> QED
        BY <4>2, <4>4
    <3>10. \A m, n \in S \cup {l} : m.k = "out" /\ n.k = "out" /\ m.t = n.t => m.v = n.v
      BY <1>2, <3>5, <3>7
    <3>11. \A m \in {l} : TaskOK(m)'
      BY <3>6
    <3> QED
      BY <1>1, <3>9, <3>10, <3>11, Grow
  <2>7. ASSUME comb' = [comb EXCEPT ![k.t] =
                 Rec(c.mode, c.in, [c.got EXCEPT ![k.i] = k.v], TRUE, c.wired, c.raised)]
        PROVE  comb'[k.t].fulfilled
    <3>1. comb'[k.t] = Rec(c.mode, c.in, [c.got EXCEPT ![k.i] = k.v], TRUE, c.wired, c.raised)
      BY <2>4, <2>5, <2>7
    <3> QED
      BY ONLY <3>1 DEF Rec
  <2> QED
    BY <1>4, <2>3, <2>6, <2>7
<1>12. ASSUME NEW p \in Procs, FulfilOut(p) PROVE TaskInv'
  <2>1. PICK k : k = Head(todo[p])
    OBVIOUS
  <2>2. /\ k.k = "out" /\ todo[p] # <<>> /\ result' = [result EXCEPT ![k.t] = k.v]
        /\ todo' = [todo EXCEPT ![p] = <<WakeTask(k.t)>> \o Tail(@)]
    BY <1>12, <2>1 DEF FulfilOut, HeadIs
  <2>3. k.t \in Threads /\ comb[k.t] # NoComb /\ Right(k.t, k.v)
    BY <2>1, <2>2, HeadTask, ZenonT(120) DEF TaskOK
  <2>4. CombOK(k.t) /\ Kept(k.t) /\ Stable /\ result = [f \in Futures |-> result[f]]
    BY <2>3, CombKept, ResultStep DEF CombInv, Gathered, ListsOK
  <2>5. Ready(k.v)
    BY <2>3, <2>4, RightKept
  <2>6. PICK t, l : t = k.t /\ l = WakeTask(t)
    OBVIOUS
  <2>7. l.k = "wake" /\ l.f = t
    BY <2>6 DEF WakeTask
  <2>8. result'[t] = k.v
    BY <1>6, <2>2, <2>3, <2>4, <2>6
  <2>9. TaskOK(l)'
    BY <1>6, <2>3, <2>5, <2>6, <2>7, <2>8 DEF TaskOK
  <2>10. \A m \in {l} : TaskOK(m)' /\ m.k # "out"
    BY <2>7, <2>9
  <2>11. <<l>> \in Seq({l}) /\ todo' = [todo EXCEPT ![p] = <<l>> \o Tail(@)]
    BY <2>2, <2>6
  <2> QED
    BY <1>5, <2>2, <2>10, <2>11
<1>13. ASSUME NEW a \in Actors, AnswerStep(a) PROVE TaskInv'
  <2>1. ASSUME NEW c \in Calls, NEW v \in Results, Ready(v), result' = [result EXCEPT ![c] = v],
               todo' = [todo EXCEPT ![a] = <<WakeTask(c)>>]
        PROVE  TaskInv'
    <3>1. PICK l : l = WakeTask(c)
      OBVIOUS
    <3>2. l.k = "wake" /\ l.f = c
      BY <3>1 DEF WakeTask
    <3>3. result'[c] = v
      BY <1>6, <2>1 DEF ListsOK
    <3>4. TaskOK(l)'
      BY <1>6, <2>1, <3>2, <3>3 DEF TaskOK
    <3>5. \A m \in {l} : TaskOK(m)' /\ m.k # "out"
      BY <3>2, <3>4
    <3>6. <<l>> \in Seq({l}) /\ todo' = [todo EXCEPT ![a] = <<l>>]
      BY <2>1, <3>1
    <3> QED
      BY <1>5, <1>6, <3>5, <3>6
  <2> QED
    BY <1>3, <1>13, <2>1, AnswerMove
<1>14. ASSUME NEW a \in Actors, EndWorker(a) \/ Collect(a) PROVE todo' = todo
  BY <1>14 DEF EndWorker, Collect
<1> QED
  BY <1>3, <1>7, <1>8, <1>9, <1>10, <1>11, <1>12, <1>13, <1>14, Moves DEF Deliver, Quiet

-----------------------------------------------------------------------------
(* Combinators, continued *)

(* A thread that has gathered does not gather again, and while it wires slots
   there is one left. *)
LEMMA GatherPlace ==
  ASSUME ProgOK, \A t \in Threads : Inside(t), ListsOK, WorkOK, CallInv, CombInv, SlotInv, TaskInv,
         [Next]_vars,
         NEW u \in Threads, comb[u] # NoComb
  PROVE  /\ \A i \in DOMAIN prog'[u] : prog'[u][i].op = "gather" => i = 1 /\ pc'[u] # "ready"
         /\ pc'[u] \in {"wire", "probe"} => comb'[u].wired + 1 \in Inputs(u)'
<1> DEFINE P == \A i \in DOMAIN prog'[u] : prog'[u][i].op = "gather" => i = 1 /\ pc'[u] # "ready"
           Q == pc'[u] \in {"wire", "probe"} => comb'[u].wired + 1 \in Inputs(u)'
<1>0. /\ \A i \in DOMAIN prog[u] : prog[u][i].op = "gather" => i = 1 /\ pc[u] # "ready"
      /\ pc[u] \in {"wire", "probe"} => comb[u].wired + 1 \in Inputs(u)
      /\ CombOK(u) /\ Inside(u) /\ pc \in [Threads -> ThreadPC] /\ prog \in Programs
  BY DEF CombInv, Gathered, ProgOK
<1>1. prog \in [Threads -> Seq(Operations)] /\ prog[u] \in Seq(Operations)
  BY <1>0 DEF Programs
<1>2. ASSUME prog[u] # <<>>,
             prog' = [prog EXCEPT ![u] = Tail(@)] \/ prog' = [prog EXCEPT ![u] = <<>>]
      PROVE  P
  <2> SUFFICES ASSUME NEW i \in DOMAIN prog'[u], prog'[u][i].op = "gather" PROVE FALSE
    OBVIOUS
  <2>1. i + 1 \in DOMAIN prog[u] /\ i \in Nat \ {0} /\ prog'[u][i] = prog[u][i + 1]
    BY <1>0, <1>2, Earlier
  <2>2. i + 1 = 1
    BY <1>0, <2>1
  <2> QED
    BY <2>1, <2>2
<1>3. Inputs(u)' = Inputs(u)
  BY CombKept DEF Kept, Inputs
<1>4. ASSUME prog'[u] = prog[u], pc'[u] = pc[u] PROVE P
  BY <1>0, <1>4
<1>5. ASSUME pc'[u] = pc[u], comb'[u].wired = comb[u].wired PROVE Q
  BY <1>0, <1>3, <1>5
<1>6. ASSUME ProbeSlot(u) PROVE P /\ Q
  <2>1. PICK j : j = comb[u].wired + 1
    BY ZenonT(120)
  <2>2. /\ prog[u] # <<>> /\ Op(u).op = "gather" /\ pc[u] = "probe"
        /\ j \in Inputs(u) /\ comb[u].wired \in Nat /\ comb[u].in \in Seq(Futures)
    BY <1>0, <1>6, <2>1 DEF ProbeSlot, At, CombOK
  <2>3. \/ pc'[u] = "ready" /\ (\/ prog' = [prog EXCEPT ![u] = Tail(@)]
                                \/ prog' = [prog EXCEPT ![u] = <<>>])
        \/ pc'[u] = "wire" /\ prog' = prog /\ j # Len(comb[u].in) /\ comb'[u].wired = j
    <3>1. CASE result[comb[u].in[j]] = Broken
      BY <1>0, <1>6, <2>1, <3>1 DEF ProbeSlot, Fail
    <3>2. CASE result[comb[u].in[j]] # Broken
      <4>1. PICK y : comb' = [comb EXCEPT ![u].wired = j, ![u].raised = y]
        BY <1>6, <2>1, <3>2 DEF ProbeSlot
      <4>2. comb'[u].wired = j
        <5>1. comb = [v \in Threads |-> comb[v]] /\ IsRec(comb[u])
          BY <1>0 DEF CombInv, CombOK
        <5>2. comb'[u] = [[comb[u] EXCEPT !.wired = j] EXCEPT !.raised = y]
          BY <4>1, <5>1
        <5>3. "wired" \in DOMAIN comb[u]
          BY <5>1 DEF IsRec, Rec
        <5> QED
          BY <5>2, <5>3
      <4>3. CASE j = Len(comb[u].in)
        BY <1>0, <1>6, <2>1, <3>2, <4>3, ZenonT(120) DEF ProbeSlot
      <4>4. CASE j # Len(comb[u].in)
        BY <1>0, <1>6, <2>1, <3>2, <4>2, <4>4 DEF ProbeSlot
      <4> QED
        BY <4>3, <4>4, ZenonT(120)
    <3> QED
      BY <3>1, <3>2
  <2>4. CASE pc'[u] = "ready" /\ (\/ prog' = [prog EXCEPT ![u] = Tail(@)]
                                  \/ prog' = [prog EXCEPT ![u] = <<>>])
    BY <1>2, <2>2, <2>4
  <2>5. CASE pc'[u] = "wire" /\ prog' = prog /\ j # Len(comb[u].in) /\ comb'[u].wired = j
    <3>1. P
      BY <1>0, <2>5
    <3>2. j + 1 \in Inputs(u)
      BY <2>1, <2>2, <2>5 DEF Inputs
    <3>3. Q
      BY <1>3, <2>5, <3>2
    <3> QED
      BY <3>1, <3>3
  <2> HIDE DEF P, Q
  <2> QED
    BY <2>3, <2>4, <2>5
<1>7. ASSUME UNCHANGED <<prog, pc>>, comb'[u].wired = comb[u].wired PROVE P /\ Q
  BY <1>4, <1>5, <1>7
<1>8. ASSUME NEW i \in Inputs(u), NEW v, NEW f \in BOOLEAN, Noted(u, i, v, f) PROVE P /\ Q
  <2>1. comb'[u].wired = comb[u].wired /\ UNCHANGED <<prog, pc>>
    BY <1>8, FieldsOf DEF Noted
  <2> HIDE DEF P, Q
  <2> QED
    BY <1>7, <2>1
<1>9. ASSUME comb'[u] = comb[u], ~ProbeSlot(u) PROVE P /\ Q
  <2>1. ASSUME NEW t \in Threads, t # u, TStep(t) PROVE P /\ Q
    <3>1. prog'[u] = prog[u] /\ pc'[u] = pc[u]
      BY <1>0, <1>1, <2>1, ThreadMove
    <3> HIDE DEF P, Q
    <3> QED
      BY <1>4, <1>5, <1>9, <3>1
  <2>2. ASSUME TStep(u) PROVE P /\ Q
    <3> USE DEF At, Finish, Fail
    <3>1. \/ /\ prog[u] # <<>> /\ pc'[u] = "ready"
             /\ prog' = [prog EXCEPT ![u] = Tail(@)] \/ prog' = [prog EXCEPT ![u] = <<>>]
          \/ /\ prog' = prog /\ prog[u] # <<>> /\ Op(u).op # "gather"
             /\ pc'[u] \notin {"wire", "probe"}
          \/ prog' = prog /\ pc[u] = "wire" /\ pc'[u] = "probe"
      <4>1. CASE Leave(u) \/ TryResolve(u) \/ Register(u) \/ Sleep(u)
        BY <1>0, <4>1 DEF Leave, TryResolve, Register, Sleep
      <4>2. CASE Timeout(u)
        BY <1>0, <4>2 DEF Timeout, Inside
      <4>3. CASE WireSlot(u)
        BY <1>0, <4>3 DEF WireSlot
      <4>4. CASE Gather(u)
        BY <4>4, NotGathered
      <4>5. CASE QueueCall(u)
        BY <1>0, <4>5 DEF QueueCall
      <4>6. CASE Push(u) \/ NotifyQueue(u) \/ MarshalThrows(u)
        BY <1>0, <4>6 DEF Push, NotifyQueue, MarshalThrows
      <4> HIDE DEF At, Finish, Fail
      <4> QED
        BY <1>9, <2>2, <4>1, <4>2, <4>3, <4>4, <4>5, <4>6 DEF TStep, ThreadStep, CallStep
    <3> HIDE DEF At, Finish, Fail
    <3>2. CASE /\ prog[u] # <<>> /\ pc'[u] = "ready"
               /\ prog' = [prog EXCEPT ![u] = Tail(@)] \/ prog' = [prog EXCEPT ![u] = <<>>]
      BY <1>2, <3>2
    <3>3. CASE /\ prog' = prog /\ prog[u] # <<>> /\ Op(u).op # "gather"
               /\ pc'[u] \notin {"wire", "probe"}
      <4>1. prog[u][1] = Op(u)
        BY <1>0, <3>3, OpType
      <4> QED
        BY <1>0, <3>3, <4>1
    <3>4. CASE prog' = prog /\ pc[u] = "wire" /\ pc'[u] = "probe"
      BY <1>0, <1>3, <1>9, <3>4
    <3> HIDE DEF P, Q
    <3> QED
      BY <3>1, <3>2, <3>3, <3>4
  <2>3. ASSUME NEW p \in Procs, Deliver(p) PROVE P /\ Q
    <3>1. prog' = prog /\ (pc'[u] = pc[u] \/ (pc[u] = "asleep" /\ pc'[u] = "ready"))
      BY <2>3, DeliverMove
    <3>2. CASE pc'[u] = pc[u]
      BY <1>4, <1>5, <1>9, <3>1, <3>2
    <3>3. CASE pc[u] = "asleep" /\ pc'[u] = "ready"
      <4>1. prog[u] # <<>> /\ Op(u).op = "wait"
        BY <1>0, <3>3 DEF Inside
      <4>2. prog[u][1] = Op(u)
        BY <1>0, <4>1, OpType
      <4> QED
        BY <1>0, <3>1, <3>3, <4>1, <4>2
    <3> QED
      BY <3>1, <3>2, <3>3
  <2> HIDE DEF P, Q
  <2> QED
    BY <1>7, <1>9, <2>1, <2>2, <2>3, Moves, WorkerMove DEF Quiet
<1> HIDE DEF P, Q
<1>10. Change(u)
  BY CombStep
<1>11. P /\ Q
  BY <1>6, <1>8, <1>9, <1>10 DEF Change, Begun, Counted
<1> QED
  BY <1>11 DEF P, Q

(* A combinator just built. *)
LEMMA GatheredFirst ==
  ASSUME ProgOK, \A t \in Threads : Inside(t), ListsOK, WorkOK, CallInv, CombInv, SlotInv, TaskInv,
         [Next]_vars,
         NEW u \in Threads, Begun(u)
  PROVE  Gathered(u)'
<1>1. prog[u] # <<>> /\ Op(u).op = "gather" /\ pc[u] = "ready" /\ comb[u] = NoComb
  BY NotGathered DEF Begun
<1>2. /\ Op(u).mode \in {"all", "any"} /\ Op(u).in \in Seq(Futures) /\ Op(u).in # <<>>
      /\ prog[u][1] = Op(u) /\ 1 \in DOMAIN prog[u]
  BY <1>1, OpType DEF ProgOK
<1>3. /\ comb'[u] # NoComb /\ pc' = [pc EXCEPT ![u] = "wire"]
      /\ \A i \in DOMAIN Op(u).in : Settled(Op(u).in[i])
  <2>1. result'[u] = None /\ result[u] = Absent
    BY NotGathered DEF Begun, ListsOK, Futures
  <2> QED
    BY <2>1, GatherMove, Values DEF Begun
<1> DEFINE g == [i \in DOMAIN Op(u).in |-> None]
<1>4. comb'[u] = Rec(Op(u).mode, Op(u).in, g, FALSE, 0, FALSE)
  BY DEF Begun
<1>5. /\ comb'[u].mode = Op(u).mode /\ comb'[u].in = Op(u).in /\ comb'[u].got = g
      /\ comb'[u].fulfilled = FALSE /\ comb'[u].wired = 0 /\ comb'[u].raised = FALSE
  <2> HIDE DEF g
  <2> QED
    BY ONLY <1>4 DEF Rec
<1>6. Inputs(u)' = DOMAIN Op(u).in
  BY <1>5 DEF Inputs
<1>7. CombOK(u)'
  <2>1. IsRec(comb'[u])
    <3> HIDE DEF g
    <3> QED
      BY <1>4, <1>5 DEF IsRec
  <2>2. comb'[u].got = [i \in Inputs(u)' |-> comb'[u].got[i]]
    BY <1>5, <1>6
  <2>3. comb'[u].fulfilled \in BOOLEAN /\ comb'[u].wired \in Nat
    <3> HIDE DEF g
    <3>1. comb'[u].fulfilled \in BOOLEAN
      BY <1>5, Zenon
    <3>2. comb'[u].wired \in Nat
      BY <1>5
    <3> QED
      BY <3>1, <3>2
  <2>4. comb'[u].mode \in {"all", "any"} /\ comb'[u].in \in Seq(Futures)
    BY <1>2, <1>5
  <2> QED
    BY <2>1, <2>2, <2>3, <2>4 DEF CombOK
<1>8. \A i \in Inputs(u)' : Settled(comb[u].in[i])'
  <2> TAKE i \in Inputs(u)'
  <2>1. PICK f : f = comb'[u].in[i]
    OBVIOUS
  <2>2. f \in Futures /\ Settled(f)
    BY <1>2, <1>3, <1>5, <1>6, <2>1
  <2>3. Settled(f)'
    BY <2>2, SettledKept
  <2> QED
    BY <2>1, <2>3
<1>9. \A i \in Inputs(u)' : comb'[u].got[i] = None
  BY <1>5, <1>6
<1>10. result'[u] = None
  BY DEF Begun, ListsOK, Futures
<1>11. \A i \in DOMAIN prog'[u] : prog'[u][i].op = "gather" => i = 1 /\ pc'[u] # "ready"
  <2>1. prog' = prog /\ pc'[u] = "wire"
    BY <1>3 DEF Begun, ProgOK
  <2>2. ASSUME NEW i \in DOMAIN prog[u], prog[u][i].op = "gather" PROVE i = 1
    <3>1. Apart(prog, u, i, u, 1)
      BY <1>2 DEF ProgOK, Programs
    <3>2. ~(<<u, i>> # <<u, 1>>)
      BY <1>1, <1>2, <2>2, <3>1 DEF Apart
    <3> QED
      BY <3>2
  <2> QED
    BY <2>1, <2>2
<1>12. comb'[u].wired + 1 \in Inputs(u)'
  BY <1>2, <1>5, <1>6
<1>13. ~comb'[u].fulfilled
  BY <1>5
<1> HIDE DEF g
<1> QED
  BY <1>3, <1>7, <1>8, <1>9, <1>10, <1>11, <1>12, <1>13 DEF Gathered

(* A combinator keeps its form. *)
LEMMA CombTyped ==
  ASSUME ProgOK, \A t \in Threads : Inside(t), ListsOK, WorkOK, CallInv, CombInv, SlotInv, TaskInv,
         [Next]_vars,
         NEW u \in Threads, comb[u] # NoComb
  PROVE  CombOK(u)'
<1>1. CombOK(u) /\ Change(u) /\ Kept(u)
  BY CombStep, CombKept DEF CombInv, Gathered
<1>2. Inputs(u)' = Inputs(u)
  BY <1>1 DEF Kept, Inputs
<1>3. CASE comb'[u] = comb[u]
  BY <1>1, <1>2, <1>3 DEF CombOK
<1>4. ASSUME NEW y, Counted(u, y) PROVE CombOK(u)'
  <2>1. /\ comb'[u].mode = comb[u].mode /\ comb'[u].in = comb[u].in
        /\ comb'[u].got = comb[u].got /\ comb'[u].fulfilled = comb[u].fulfilled
        /\ comb'[u].wired = comb[u].wired + 1 /\ comb'[u].raised = y
    BY <1>4, FieldsOf DEF Counted
  <2>2. IsRec(comb'[u])
    BY <1>4, <2>1 DEF IsRec, Counted
  <2> QED
    BY <1>1, <1>2, <2>1, <2>2 DEF CombOK
<1>5. ASSUME NEW i \in Inputs(u), NEW v, NEW f \in BOOLEAN, Noted(u, i, v, f) PROVE CombOK(u)'
  <2>1. PICK g : g = [comb[u].got EXCEPT ![i] = v]
    OBVIOUS
  <2>2. comb'[u] = Rec(comb[u].mode, comb[u].in, g, f, comb[u].wired, comb[u].raised)
    BY <1>5, <2>1 DEF Noted
  <2>3. /\ comb'[u].mode = comb[u].mode /\ comb'[u].in = comb[u].in
        /\ comb'[u].got = g /\ comb'[u].fulfilled = f
        /\ comb'[u].wired = comb[u].wired /\ comb'[u].raised = comb[u].raised
    BY ONLY <2>2 DEF Rec
  <2>4. IsRec(comb'[u])
    BY <2>2, <2>3 DEF IsRec
  <2>5. g = [j \in Inputs(u) |-> g[j]]
    BY <1>1, <2>1 DEF CombOK
  <2> QED
    BY <1>1, <1>2, <2>3, <2>4, <2>5 DEF CombOK
<1> QED
  BY <1>1, <1>3, <1>4, <1>5 DEF Change, Begun

(* What a combinator has got is what its inputs hold. *)
LEMMA GotKept ==
  ASSUME ProgOK, \A t \in Threads : Inside(t), ListsOK, WorkOK, CallInv, CombInv, SlotInv, TaskInv,
         [Next]_vars,
         NEW u \in Threads, comb[u] # NoComb, NEW i \in Inputs(u), comb'[u].got[i] # None
  PROVE  /\ comb'[u].got[i] = result'[comb'[u].in[i]] /\ Ready(comb'[u].got[i])
         /\ ~comb'[u].fulfilled => ~IsExc(comb'[u].got[i])
<1>1. CombOK(u) /\ Change(u) /\ Kept(u) /\ Stable
  BY CombStep, CombKept, ResultStep DEF CombInv, Gathered
<1>2. comb[u].in[i] \in Futures
  BY <1>1 DEF CombOK, Inputs
<1>3. comb[u].got[i] # None =>
        /\ comb[u].got[i] = result[comb[u].in[i]] /\ Ready(comb[u].got[i])
        /\ ~comb[u].fulfilled => ~IsExc(comb[u].got[i])
  BY DEF CombInv, Gathered
<1>4. comb'[u].in = comb[u].in /\ (comb[u].fulfilled => comb'[u].fulfilled)
  BY <1>1 DEF Kept
<1>5. ASSUME NEW v, v = result[comb[u].in[i]], Ready(v) PROVE v = result'[comb'[u].in[i]]
  BY <1>1, <1>2, <1>4, <1>5 DEF Stable
<1>6. ASSUME comb'[u].got[i] = comb[u].got[i]
      PROVE  /\ comb'[u].got[i] = result'[comb'[u].in[i]] /\ Ready(comb'[u].got[i])
             /\ ~comb'[u].fulfilled => ~IsExc(comb'[u].got[i])
  BY <1>3, <1>4, <1>5, <1>6
<1>7. ASSUME NEW y, Counted(u, y) PROVE comb'[u].got = comb[u].got
  BY <1>7, FieldsOf DEF Counted
<1>8. ASSUME NEW j \in Inputs(u), NEW f \in BOOLEAN, NEW v, v = result[comb[u].in[j]],
             Noted(u, j, v, f)
      PROVE  /\ comb'[u].got[i] = result'[comb'[u].in[i]] /\ Ready(comb'[u].got[i])
             /\ ~comb'[u].fulfilled => ~IsExc(comb'[u].got[i])
  <2>1. PICK g : g = [comb[u].got EXCEPT ![j] = v]
    OBVIOUS
  <2>2. comb'[u] = Rec(comb[u].mode, comb[u].in, g, f, comb[u].wired, comb[u].raised)
    BY <1>8, <2>1 DEF Noted
  <2>3. comb'[u].got = g /\ comb'[u].fulfilled = f
    BY ONLY <2>2 DEF Rec
  <2>4. i \in DOMAIN comb[u].got
    BY <1>1 DEF CombOK
  <2>5. CASE i = j
    <3>1. comb'[u].got[i] = v
      BY <2>1, <2>3, <2>4, <2>5
    <3>2. Ready(v) /\ (~f => ~IsExc(v))
      BY <1>8 DEF Noted
    <3> QED
      BY <1>5, <1>8, <2>3, <2>5, <3>1, <3>2
  <2>6. CASE i # j
    <3>1. comb'[u].got[i] = comb[u].got[i]
      BY <2>1, <2>3, <2>4, <2>6
    <3> QED
      BY <1>6, <3>1
  <2> QED
    BY <2>5, <2>6
<1> QED
  BY <1>1, <1>6, <1>7, <1>8 DEF Change, Begun

(* What a combinator's future holds is right. *)
LEMMA OutKept ==
  ASSUME ProgOK, \A t \in Threads : Inside(t), ListsOK, WorkOK, CallInv, CombInv, SlotInv, TaskInv,
         [Next]_vars,
         NEW u \in Threads, comb[u] # NoComb
  PROVE  /\ ~comb'[u].fulfilled => result'[u] = None
         /\ result'[u] # None => Right(u, result[u])'
<1>1. CombOK(u) /\ Kept(u) /\ Stable
  BY CombKept, ResultStep DEF CombInv, Gathered
<1>2. (~comb[u].fulfilled => result[u] = None) /\ (result[u] # None => Right(u, result[u]))
  BY DEF CombInv, Gathered
<1>3. ~comb'[u].fulfilled => ~comb[u].fulfilled
  BY <1>1 DEF Kept
<1>4. PICK v : v = result'[u]
  OBVIOUS
<1>5. Right(u, v)' => Right(u, result[u])'
  BY <1>4
<1>6. CASE result'[u] = result[u]
  <2>1. v # None => Right(u, v)
    BY <1>2, <1>4, <1>6
  <2>2. v # None => Right(u, v)'
    BY <1>1, <2>1, RightKept
  <2> QED
    BY <1>2, <1>3, <1>4, <1>5, <1>6, <2>2
<1>7. ASSUME NEW p \in Procs, FulfilOut(p), Head(todo[p]).t = u, v = Head(todo[p]).v
      PROVE  comb[u].fulfilled /\ Right(u, v)'
  <2>1. PICK k : k = Head(todo[p])
    OBVIOUS
  <2>2. k.k = "out" /\ todo[p] # <<>>
    BY <1>7, <2>1 DEF FulfilOut, HeadIs
  <2>3. comb[u].fulfilled /\ Right(u, v)
    BY <1>7, <2>1, <2>2, HeadTask, ZenonT(120) DEF TaskOK
  <2> QED
    BY <1>1, <2>3, RightKept
<1> QED
  BY <1>3, <1>4, <1>5, <1>6, <1>7, ThreadResult

(* A thread that has not gathered has no result and wires no slot. *)
LEMMA NoneGathered ==
  ASSUME ProgOK, \A t \in Threads : Inside(t), ListsOK, WorkOK, CallInv, CombInv, SlotInv, TaskInv,
         [Next]_vars,
         NEW u \in Threads, comb[u] = NoComb, comb'[u] = NoComb
  PROVE  result'[u] = Absent /\ pc'[u] \notin {"wire", "probe"}
<1>0. /\ result[u] = Absent /\ pc[u] \notin {"wire", "probe"} /\ pc \in [Threads -> ThreadPC]
      /\ prog \in [Threads -> Seq(Operations)]
  BY DEF CombInv, Gathered, ProgOK, Programs
<1>1. result'[u] = Absent
  <2>1. ASSUME NEW p \in Procs, FulfilOut(p), Head(todo[p]).t = u PROVE FALSE
    <3>1. PICK k : k = Head(todo[p])
      OBVIOUS
    <3>2. k.k = "out" /\ todo[p] # <<>>
      BY <2>1, <3>1 DEF FulfilOut, HeadIs
    <3>3. comb[u] # NoComb
      BY <2>1, <3>1, <3>2, HeadTask, ZenonT(120) DEF TaskOK
    <3> QED
      BY <3>3
  <2> QED
    BY <1>0, <2>1, ThreadResult
<1>2. ASSUME NEW t \in Threads, t # u, TStep(t) PROVE pc'[u] \notin {"wire", "probe"}
  BY <1>0, <1>2, ThreadMove
<1>3. ASSUME TStep(u) PROVE pc'[u] \notin {"wire", "probe"}
  <2> USE <1>0 DEF At, Finish, Fail
  <2>1. CASE Leave(u) \/ TryResolve(u) \/ Register(u) \/ Sleep(u) \/ Timeout(u)
    BY <2>1 DEF Leave, TryResolve, Register, Sleep, Timeout
  <2>2. CASE WireSlot(u) \/ ProbeSlot(u)
    BY <2>2 DEF WireSlot, ProbeSlot
  <2>3. CASE Gather(u)
    BY <2>3, GatherMove
  <2>4. CASE QueueCall(u)
    BY <2>4 DEF QueueCall
  <2>5. CASE Push(u) \/ NotifyQueue(u) \/ MarshalThrows(u)
    BY <2>5 DEF Push, NotifyQueue, MarshalThrows
  <2> HIDE DEF At, Finish, Fail
  <2> QED
    BY <1>3, <2>1, <2>2, <2>3, <2>4, <2>5 DEF TStep, ThreadStep, CallStep
<1>4. ASSUME NEW p \in Procs, Deliver(p) PROVE pc'[u] \notin {"wire", "probe"}
  BY <1>0, <1>4, DeliverMove
<1> QED
  BY <1>0, <1>1, <1>2, <1>3, <1>4, Moves, WorkerMove DEF Quiet

(* Combinators go on gathering. *)
LEMMA CombinatorStep ==
  ASSUME ProgOK, \A t \in Threads : Inside(t), ListsOK, WorkOK, CallInv, CombInv, SlotInv, TaskInv,
         [Next]_vars
  PROVE  CombInv'
<1>1. ASSUME NEW u \in Threads PROVE Gathered(u)'
  <2>1. CASE Begun(u)
    BY <2>1, GatheredFirst
  <2>2. CASE comb[u] = NoComb /\ comb'[u] = NoComb
    BY <2>2, NoneGathered DEF Gathered
  <2>3. CASE comb[u] # NoComb
    <3>1. Inputs(u)' = Inputs(u) /\ comb'[u] # NoComb /\ comb'[u].in = comb[u].in
      BY <2>3, CombKept DEF Kept, Inputs
    <3>2. CombOK(u) /\ \A i \in Inputs(u) : Settled(comb[u].in[i])
      BY <2>3 DEF CombInv, Gathered
    <3>3. \A i \in Inputs(u)' : Settled(comb[u].in[i])'
      <4> TAKE i \in Inputs(u)'
      <4>1. PICK f : f = comb[u].in[i]
        OBVIOUS
      <4>2. f \in Futures /\ Settled(f)
        BY <3>1, <3>2, <4>1 DEF CombOK, Inputs
      <4>3. Settled(f)'
        BY <4>2, SettledKept
      <4>4. f = comb'[u].in[i]
        BY <3>1, <4>1
      <4> QED
        BY <4>3, <4>4
    <3>4. \A i \in Inputs(u)' :
            comb'[u].got[i] # None => /\ comb'[u].got[i] = result'[comb'[u].in[i]]
                                      /\ Ready(comb'[u].got[i])
                                      /\ ~comb'[u].fulfilled => ~IsExc(comb'[u].got[i])
      BY <2>3, <3>1, GotKept
    <3>5. CombOK(u)'
      BY <2>3, CombTyped
    <3>6. /\ ~comb'[u].fulfilled => result'[u] = None
          /\ result'[u] # None => Right(u, result[u])'
      BY <2>3, OutKept
    <3>7. /\ \A i \in DOMAIN prog'[u] : prog'[u][i].op = "gather" => i = 1 /\ pc'[u] # "ready"
          /\ pc'[u] \in {"wire", "probe"} => comb'[u].wired + 1 \in Inputs(u)'
      BY <2>3, GatherPlace
    <3> QED
      BY <3>1, <3>3, <3>4, <3>5, <3>6, <3>7 DEF Gathered
  <2>4. Change(u)
    BY CombStep
  <2>5. comb[u] = NoComb => Begun(u) \/ comb'[u] = NoComb
    <3>1. ASSUME NEW y, Counted(u, y) PROVE comb[u] # NoComb
      BY <3>1, WireAt DEF Counted, ProbeSlot, At
    <3> QED
      BY <2>4, <3>1, ZenonT(120) DEF Change, Noted
  <2> QED
    BY <2>1, <2>2, <2>3, <2>5
<1>2. comb' = [u \in Threads |-> comb'[u]]
  BY CombStep
<1> QED
  BY <1>1, <1>2 DEF CombInv

-----------------------------------------------------------------------------
(* Calls *)

(* A call is in one place. *)
LEMMA Place ==
  ASSUME WorkOK, CallInv, NEW a \in Actors, NEW b \in Actors
  PROVE  /\ cur[a] # NoCall /\ cur[a] = cur[b] => a = b
         /\ \A i \in DOMAIN queue[b] : cur[a] # queue[b][i]
         /\ \A i \in DOMAIN queue[a], j \in DOMAIN queue[b] :
              queue[a][i] = queue[b][j] => a = b /\ i = j
<1>1. cur[a] # NoCall /\ cur[a] = cur[b] => a = b
  BY DEF CallInv, Taken
<1>2. ASSUME NEW i \in DOMAIN queue[b] PROVE cur[a] # queue[b][i]
  <2>1. Target(queue[b][i]) = b /\ cur[b] # queue[b][i]
    BY DEF CallInv, Queued
  <2>2. queue[b][i] \in Calls /\ NoCall \notin Calls
    BY ActorAssumption DEF WorkOK
  <2> QED
    BY <2>1, <2>2 DEF CallInv, Taken
<1>3. ASSUME NEW i \in DOMAIN queue[a], NEW j \in DOMAIN queue[b], queue[a][i] = queue[b][j]
      PROVE  a = b /\ i = j
  BY <1>3 DEF CallInv, Queued
<1> QED
  BY <1>1, <1>2, <1>3

(* Who changes what a call's future holds. *)
Touch(t) == QueueCall(t) \/ Push(t) \/ MarshalThrows(t)

(* Nobody else does. *)
LEMMA CallResult ==
  ASSUME ProgOK, ListsOK, WorkOK, CallInv, CombInv, TaskInv, [Next]_vars, NEW c \in Calls
  PROVE  \/ result'[c] = result[c]
         \/ \E t \in Threads : Touch(t) /\ Op(t).c = c /\ result'[c] \in {None, Absent}
         \/ /\ result'[c] \in Results /\ result'[c] # Broken
            /\ \E a \in Actors :
                 \/ c = cur[a] /\ (RunCall(a) \/ RunFails(a) \/ RunThrows(a))
                 \/ DrainOne(a) /\ queue[a] # <<>> /\ c = Head(queue[a])
         \/ result'[c] = Broken /\ \E a \in Actors : EndWorker(a) /\ c = cur[a]
         \/ result'[c] = Broken /\ \E a \in Actors : Collect(a) /\ c \in Range(queue[a])
<1> DEFINE Goal ==
         \/ result'[c] = result[c]
         \/ \E t \in Threads : Touch(t) /\ Op(t).c = c /\ result'[c] \in {None, Absent}
         \/ /\ result'[c] \in Results /\ result'[c] # Broken
            /\ \E a \in Actors :
                 \/ c = cur[a] /\ (RunCall(a) \/ RunFails(a) \/ RunThrows(a))
                 \/ DrainOne(a) /\ queue[a] # <<>> /\ c = Head(queue[a])
         \/ result'[c] = Broken /\ \E a \in Actors : EndWorker(a) /\ c = cur[a]
         \/ result'[c] = Broken /\ \E a \in Actors : Collect(a) /\ c \in Range(queue[a])
<1>0. c \in Futures /\ c \notin Threads /\ result = [f \in Futures |-> result[f]]
  BY NamesAssumption DEF Futures, ListsOK
<1>1. ASSUME NEW x, NEW v, result' = [result EXCEPT ![x] = v]
      PROVE  (x # c => result'[c] = result[c]) /\ (x = c => result'[c] = v)
  BY <1>0, <1>1, ZenonT(120)
<1>2. ASSUME NEW t \in Threads, TStep(t) PROVE Goal
  <2>1. CASE Gather(t)
    <3>1. result' = result \/ result' = [result EXCEPT ![t] = None]
      BY <2>1 DEF Gather
    <3> QED
      BY <1>0, <1>1, <3>1
  <2>2. CASE Touch(t)
    <3>1. result' = result \/ \E v \in {None, Absent} : result' = [result EXCEPT ![Op(t).c] = v]
      <4>1. CASE QueueCall(t)
        BY <4>1 DEF QueueCall
      <4>2. CASE Push(t) \/ MarshalThrows(t)
        BY <4>2 DEF Push, MarshalThrows
      <4> QED
        BY <2>2, <4>1, <4>2 DEF Touch
    <3> QED
      BY <1>1, <2>2, <3>1
  <2>3. CASE result' = result
    BY <2>3
  <2> HIDE DEF Goal
  <2> QED
    BY <1>2, <2>1, <2>2, <2>3, ZenonT(120)
       DEF TStep, ThreadStep, CallStep, Leave, TryResolve, Register, Sleep, WireSlot, ProbeSlot,
           Timeout, NotifyQueue, Touch
<1>3. ASSUME NEW p \in Procs, Deliver(p) PROVE Goal
  <2>1. CASE FulfilOut(p)
    <3>1. result' = [result EXCEPT ![Head(todo[p]).t] = Head(todo[p]).v]
      BY <2>1 DEF FulfilOut
    <3>2. Head(todo[p]).t \in Threads
      BY <2>1, HeadTask, ZenonT(120) DEF FulfilOut, HeadIs, TaskOK
    <3> QED
      BY <1>0, <1>1, <3>1, <3>2
  <2>2. CASE TakeList(p) \/ WakeThread(p) \/ NotifySlot(p)
    BY <2>2, ZenonT(120) DEF TakeList, WakeThread, NotifySlot
  <2> QED
    BY <1>3, <2>1, <2>2 DEF Deliver
<1>4. ASSUME NEW a \in Actors, AnswerStep(a) PROVE Goal
  <2>1. CASE result' = result
    BY <2>1
  <2>2. ASSUME NEW d \in Calls, NEW v \in Results, v # Broken,
               \/ d = cur[a] /\ (RunCall(a) \/ RunFails(a) \/ RunThrows(a))
               \/ DrainOne(a) /\ queue[a] # <<>> /\ d = Head(queue[a]),
               result' = [result EXCEPT ![d] = v]
        PROVE Goal
    <3>1. CASE d # c
      BY <1>1, <2>2, <3>1
    <3>2. CASE d = c
      BY <1>1, <2>2, <3>2
    <3> HIDE DEF Goal
    <3> QED
      BY <3>1, <3>2
  <2> HIDE DEF Goal
  <2> QED
    BY <1>4, <2>1, <2>2, AnswerMove
<1>5. ASSUME NEW a \in Actors, EndWorker(a) PROVE Goal
  <2>1. result' = result \/ result' = [result EXCEPT ![cur[a]] = Broken]
    BY <1>5 DEF EndWorker, Abandon
  <2>2. CASE cur[a] = c
    BY <1>1, <1>5, <2>1, <2>2
  <2>3. CASE cur[a] # c
    BY <1>1, <2>1, <2>3
  <2> QED
    BY <2>2, <2>3
<1>6. ASSUME NEW a \in Actors, Collect(a) PROVE Goal
  <2>1. result' = [f \in Futures |->
                     IF f \in Range(queue[a]) \ world.procs THEN Broken ELSE result[f]]
    BY <1>6 DEF Collect
  <2> QED
    BY <1>0, <1>6, <2>1
<1> HIDE DEF Goal
<1>7. Quiet => Goal
  BY DEF Quiet, Goal
<1>8. Goal
  BY <1>2, <1>3, <1>4, <1>5, <1>6, <1>7, Moves
<1> QED
  BY <1>8 DEF Goal

(* How a queue and the call in hand change. *)
Pushed(t, b) ==
  /\ Push(t) /\ alive[b] /\ Target(Op(t).c) = b /\ result' = result /\ prog' = prog
  /\ queue'[b] = Append(queue[b], Op(t).c)

QueueStep(b) ==
  \/ queue'[b] = queue[b]
  \/ queue[b] # <<>> /\ queue'[b] = Tail(queue[b])
  \/ queue'[b] = <<>>
  \/ \E t \in Threads : Pushed(t, b)

CurStep(b) ==
  \/ cur'[b] = cur[b] \/ cur'[b] = NoCall
  \/ /\ Check(b) /\ queue[b] # <<>> /\ queue'[b] = Tail(queue[b]) /\ result' = result
     /\ cur'[b] = Head(queue[b]) /\ wpc[b] = "check" /\ wpc'[b] = "dispatch"

(* They change in no other way. *)
LEMMA HoldStep ==
  ASSUME ProgOK, WorkOK, NEW b \in Actors, [Next]_vars
  PROVE  QueueStep(b) /\ CurStep(b)
<1> USE DEF WorkOK, waitVars, lists, workVars, envVars, joinVars, vars, At, Finish, Fail, Go,
    Worker, JoinGo, Notified, MutexFree, Dispatching
<1>1. ASSUME NEW t \in Threads, ThreadStep(t) \/ Timeout(t), UNCHANGED <<world, workVars, envVars,
    joinVars>> PROVE QueueStep(b) /\ CurStep(b)
  BY <1>1 DEF QueueStep, CurStep
<1>2. ASSUME NEW p \in Procs, Deliver(p), UNCHANGED <<world, workVars, envVars,
    joinVars>> PROVE QueueStep(b) /\ CurStep(b)
  BY <1>2 DEF QueueStep, CurStep
<1>3. ASSUME NEW t \in Threads, QueueCall(t) PROVE QueueStep(b) /\ CurStep(b)
  BY <1>3 DEF QueueCall, QueueStep, CurStep
<1>4. ASSUME NEW t \in Threads, Push(t) PROVE QueueStep(b) /\ CurStep(b)
  <2>1. PICK c, x : c = Op(t).c /\ x = Target(c)
    OBVIOUS
  <2>2. \/ queue' = queue
        \/ /\ alive[x] /\ queue' = [queue EXCEPT ![x] = Append(queue[x], c)]
           /\ result' = result /\ prog' = prog
    BY <1>4, <2>1 DEF Push
  <2>3. CurStep(b)
    BY <1>4 DEF Push, CurStep
  <2>4. QueueStep(b)
    BY <1>4, <2>1, <2>2, ZenonT(120) DEF QueueStep, Pushed
  <2> QED
    BY <2>3, <2>4
<1>5. ASSUME NEW t \in Threads, NotifyQueue(t) PROVE QueueStep(b) /\ CurStep(b)
  BY <1>5 DEF NotifyQueue, QueueStep, CurStep
<1>6. ASSUME NEW t \in Threads, MarshalThrows(t) PROVE QueueStep(b) /\ CurStep(b)
  BY <1>6 DEF MarshalThrows, QueueStep, CurStep
<1>7. ASSUME NEW a \in Actors, Poll(a) PROVE QueueStep(b) /\ CurStep(b)
  BY <1>7 DEF Poll, QueueStep, CurStep
<1>8. ASSUME NEW a \in Actors, Check(a) PROVE QueueStep(b) /\ CurStep(b)
  <2>1. CASE a # b
    BY <1>8, <2>1 DEF Check, QueueStep, CurStep
  <2>2. CASE a = b /\ WaitPredicate(a) /\ ~stop /\ queue[a] # <<>>
    BY <1>8, <2>2 DEF Check, QueueStep, CurStep
  <2>3. CASE a = b /\ ~(WaitPredicate(a) /\ ~stop /\ queue[a] # <<>>)
    BY <1>8, <2>3 DEF Check, QueueStep, CurStep
  <2> QED
    BY <2>1, <2>2, <2>3
<1>9. ASSUME NEW a \in Actors, Block(a) PROVE QueueStep(b) /\ CurStep(b)
  BY <1>9 DEF Block, QueueStep, CurStep
<1>10. ASSUME NEW a \in Actors, ActorPark(a) PROVE QueueStep(b) /\ CurStep(b)
  BY <1>10 DEF ActorPark, QueueStep, CurStep
<1>11. ASSUME NEW a \in Actors, ActorResume(a) PROVE QueueStep(b) /\ CurStep(b)
  BY <1>11 DEF ActorResume, QueueStep, CurStep
<1>12. ASSUME NEW a \in Actors, DispatchQuits(a) PROVE QueueStep(b) /\ CurStep(b)
  BY <1>12 DEF DispatchQuits, QueueStep, CurStep
<1>13. ASSUME NEW a \in Actors, Dispatch(a) PROVE QueueStep(b) /\ CurStep(b)
  BY <1>13 DEF Dispatch, QueueStep, CurStep
<1>14. ASSUME NEW a \in Actors, HandlerFails(a) PROVE QueueStep(b) /\ CurStep(b)
  BY <1>14 DEF HandlerFails, QueueStep, CurStep
<1>15. ASSUME NEW a \in Actors, RunCall(a) PROVE QueueStep(b) /\ CurStep(b)
  BY <1>15 DEF RunCall, QueueStep, CurStep
<1>16. ASSUME NEW a \in Actors, RunFails(a) PROVE QueueStep(b) /\ CurStep(b)
  BY <1>16 DEF RunFails, QueueStep, CurStep
<1>17. ASSUME NEW a \in Actors, RunThrows(a) PROVE QueueStep(b) /\ CurStep(b)
  BY <1>17 DEF RunThrows, QueueStep, CurStep
<1>18. ASSUME NEW a \in Actors, CloseQueue(a) PROVE QueueStep(b) /\ CurStep(b)
  BY <1>18 DEF CloseQueue, QueueStep, CurStep
<1>19. ASSUME NEW a \in Actors, DrainOne(a) PROVE QueueStep(b) /\ CurStep(b)
  BY <1>19 DEF DrainOne, QueueStep, CurStep
<1>20. ASSUME NEW a \in Actors, EndWorker(a) PROVE QueueStep(b) /\ CurStep(b)
  BY <1>20 DEF EndWorker, QueueStep, CurStep
<1>21. ASSUME NEW a \in Actors, GcWake(a) PROVE QueueStep(b) /\ CurStep(b)
  BY <1>21 DEF GcWake, QueueStep, CurStep
<1>22. ASSUME NEW a \in Actors, Emit(a) PROVE QueueStep(b) /\ CurStep(b)
  BY <1>22 DEF Emit, QueueStep, CurStep
<1>23. ASSUME NEW a \in Actors, WakeActor(a) PROVE QueueStep(b) /\ CurStep(b)
  BY <1>23 DEF WakeActor, QueueStep, CurStep
<1>24. ASSUME NEW a \in Actors, Collect(a) PROVE QueueStep(b) /\ CurStep(b)
  BY <1>24 DEF Collect, QueueStep, CurStep
<1>25. ASSUME NEW a \in Actors, Finalize(a) PROVE QueueStep(b) /\ CurStep(b)
  BY <1>25 DEF Finalize, QueueStep, CurStep
<1>26. ASSUME NEW a \in Actors, DeleteInstance(a) PROVE QueueStep(b) /\ CurStep(b)
  BY <1>26 DEF DeleteInstance, QueueStep, CurStep
<1>27. ASSUME DebugStop PROVE QueueStep(b) /\ CurStep(b)
  BY <1>27 DEF DebugStop, QueueStep, CurStep
<1>28. ASSUME DebugRelease PROVE QueueStep(b) /\ CurStep(b)
  BY <1>28 DEF DebugRelease, QueueStep, CurStep
<1>29. ASSUME RequestExit PROVE QueueStep(b) /\ CurStep(b)
  BY <1>29 DEF RequestExit, QueueStep, CurStep
<1>30. ASSUME NEW j \in Joiners, NEW a \in Actors, LockJoin(j, a) PROVE QueueStep(b) /\ CurStep(b)
  BY <1>30 DEF LockJoin, QueueStep, CurStep
<1>31. ASSUME NEW j \in Joiners, NEW a \in Actors, SignalQuit(j, a) PROVE QueueStep(b) /\ CurStep(b)
  BY <1>31 DEF SignalQuit, QueueStep, CurStep
<1>32. ASSUME NEW j \in Joiners, NEW a \in Actors, Joined(j, a) PROVE QueueStep(b) /\ CurStep(b)
  BY <1>32 DEF Joined, QueueStep, CurStep
<1>33. ASSUME NEW j \in Joiners, NEW a \in Actors, ResetThread(j,
    a) PROVE QueueStep(b) /\ CurStep(b)
  BY <1>33 DEF ResetThread, QueueStep, CurStep
<1>34. ASSUME NEW j \in Joiners, NEW a \in Actors, JoinAll(j, a) PROVE QueueStep(b) /\ CurStep(b)
  BY <1>34 DEF JoinAll, QueueStep, CurStep
<1>35. ASSUME UNCHANGED vars PROVE QueueStep(b) /\ CurStep(b)
  BY <1>35 DEF QueueStep, CurStep
<1> HIDE DEF WorkOK, waitVars, lists, workVars, envVars, joinVars, vars, At, Finish, Fail, Go,
    Worker, JoinGo, Notified, MutexFree, Dispatching
<1> QED
  BY LifecycleJoins, <1>1, <1>2, <1>3, <1>4, <1>5, <1>6, <1>7, <1>8, <1>9, <1>10, <1>11, <1>12,
      <1>13, <1>14, <1>15, <1>16, <1>17, <1>18, <1>19, <1>20, <1>21, <1>22, <1>23, <1>24, <1>25,
      <1>26, <1>27, <1>28, <1>29, <1>30, <1>31, <1>32, <1>33, <1>34, <1>35 DEF Next, WaitNext,
      CallStep, WorkerStep, JoinStep, Finalizer

(* A call nobody has and nobody touches stays as it is. *)
LEMMA FreeKept ==
  ASSUME ProgOK, \A t \in Threads : Inside(t), ListsOK, WorkOK, CallInv, CombInv, TaskInv,
      [Next]_vars,
         NEW c \in Calls, Free(c), \A t \in Threads : Touch(t) => Op(t).c # c
  PROVE  Free(c)' /\ result'[c] = result[c]
<1>1. \A a \in Actors : cur[a] # c /\ \A i \in DOMAIN queue[a] : queue[a][i] # c
  BY DEF Free
<1>2. \A a \in Actors : queue[a] \in Seq(Calls)
  BY DEF WorkOK
<1>3. \A a \in Actors : queue[a] # <<>> => Head(queue[a]) # c
  BY <1>1, <1>2
<1>4. result'[c] = result[c]
  BY <1>1, <1>3, CallResult DEF Range
<1>5. ASSUME NEW b \in Actors PROVE cur'[b] # c
  <2>1. NoCall # c
    BY ActorAssumption
  <2> QED
    BY <1>1, <1>3, <2>1, HoldStep DEF CurStep
<1>6. ASSUME NEW b \in Actors, NEW i \in DOMAIN queue'[b] PROVE queue'[b][i] # c
  <2>1. CASE queue'[b] = queue[b]
    BY <1>1, <2>1
  <2>2. CASE queue[b] # <<>> /\ queue'[b] = Tail(queue[b])
    BY <1>1, <1>2, <2>2, Rest
  <2>3. CASE queue'[b] = <<>>
    <3>1. DOMAIN <<>> = {}
      OBVIOUS
    <3> QED
      BY <2>3, <3>1
  <2>4. ASSUME NEW t \in Threads, Pushed(t, b) PROVE queue'[b][i] # c
    <3>1. PICK d : d = Op(t).c
      OBVIOUS
    <3>2. d # c /\ d \in Calls /\ queue'[b] = Append(queue[b], d)
      <4>1. prog[t] # <<>> /\ Op(t).op = "call"
        BY <2>4 DEF Pushed, Push, At
      <4> QED
        BY <2>4, <3>1, <4>1, OpType DEF Pushed, Touch, ProgOK
    <3> QED
      BY <1>1, <1>2, <3>2
  <2> QED
    BY <2>1, <2>2, <2>3, <2>4, HoldStep DEF QueueStep
<1> QED
  BY <1>4, <1>5, <1>6 DEF Free

(* A call in a program is made there and nowhere else. *)
LEMMA OnePlace ==
  ASSUME prog \in Programs, NEW t \in Threads, NEW u \in Threads, prog[t] # <<>>,
         Op(t).op = "call", NEW i \in DOMAIN prog[u], prog[u][i].op = "call",
         prog[u][i].c = Op(t).c
  PROVE  u = t /\ i = 1
<1>1. prog[t][1] = Op(t) /\ 1 \in DOMAIN prog[t]
  BY OpType
<1>2. Apart(prog, u, i, t, 1)
  BY <1>1 DEF Programs
<1>3. ~(<<u, i>> # <<t, 1>>)
  BY <1>1, <1>2 DEF Apart
<1> QED
  BY <1>3

(* What is left of a program has not been made. *)
LEMMA MadeStep ==
  ASSUME ProgOK, \A t \in Threads : Inside(t), ListsOK, WorkOK, CallInv, CombInv, TaskInv,
      [Next]_vars,
         NEW u \in Threads, NEW i \in DOMAIN prog'[u]
  PROVE  Made(u, i)'
<1>0. /\ prog \in Programs /\ prog \in [Threads -> Seq(Operations)] /\ pc \in [Threads -> ThreadPC]
      /\ world' = world
  BY Moves DEF ProgOK, Programs
<1>1. ASSUME NEW t \in Threads, Touch(t)
      PROVE  prog[t] # <<>> /\ Op(t).op = "call" /\ pc[t] \in {"ready", "marshal"}
  BY <1>1 DEF Touch, QueueCall, Push, MarshalThrows, At
<1>2. ASSUME NEW k \in DOMAIN prog[u], NEW c, c = prog[u][k].c, prog[u][k].op = "call",
             ~(k = 1 /\ pc[u] = "notify"), ~(k = 1 /\ Touch(u))
      PROVE  /\ Free(c)' /\ result'[c] = result[c]
             /\ IF k = 1 /\ pc[u] = "marshal" THEN Pending(c) ELSE result[c] = Absent
  <2>1. Made(u, k)
    BY DEF CallInv
  <2>2. Free(c) /\ (IF k = 1 /\ pc[u] = "marshal" THEN Pending(c) ELSE result[c] = Absent)
    BY <1>2, <2>1 DEF Made
  <2>3. c \in Calls
    <3>1. prog[u][k] \in Operations
      BY <1>0
    <3> QED
      BY <1>2, <3>1 DEF Operations
  <2>4. ASSUME NEW t \in Threads, Touch(t) PROVE Op(t).c # c
    BY <1>0, <1>1, <1>2, <2>4, OnePlace
  <2> QED
    BY <2>2, <2>3, <2>4, FreeKept
<1>3. ASSUME NEW c, c = prog'[u][i].c, Free(c)',
             IF i = 1 /\ pc'[u] = "marshal" THEN Pending(c)' ELSE result'[c] = Absent
      PROVE  Made(u, i)'
  BY <1>3 DEF Made
<1>4. ASSUME NEW c, Pending(c), result'[c] = result[c] PROVE Pending(c)'
  BY <1>0, <1>4 DEF Pending
<1>5. CASE prog'[u][i].op # "call"
  BY <1>5 DEF Made
<1>6. CASE prog'[u][i].op = "call" /\ ~TStep(u)
  <2>1. prog'[u] = prog[u] /\ (pc'[u] = pc[u] \/ (pc[u] = "asleep" /\ pc'[u] = "ready"))
    <3>1. ASSUME NEW t \in Threads, TStep(t) PROVE prog'[u] = prog[u] /\ pc'[u] = pc[u]
      <4>1. t # u
        BY <1>6, <3>1
      <4> QED
        BY <1>0, <3>1, <4>1, ThreadMove
    <3> QED
      BY <3>1, Moves, DeliverMove, WorkerMove DEF Quiet
  <2>2. PICK c : c = prog[u][i].c
    OBVIOUS
  <2>3. CASE i = 1 /\ pc[u] = "notify"
    BY <2>1, <2>3 DEF Made
  <2>4. CASE ~(i = 1 /\ pc[u] = "notify")
    <3>1. /\ Free(c)' /\ result'[c] = result[c]
          /\ IF i = 1 /\ pc[u] = "marshal" THEN Pending(c) ELSE result[c] = Absent
      BY <1>2, <1>6, <2>1, <2>2, <2>4 DEF TStep, CallStep, Touch
    <3> QED
      BY <1>3, <1>4, <2>1, <2>2, <3>1
  <2> QED
    BY <2>3, <2>4
<1>7. CASE prog'[u][i].op = "call" /\ TStep(u) /\ prog' # prog
  <2>1. /\ prog[u] # <<>> /\ pc'[u] = "ready"
        /\ prog' = [prog EXCEPT ![u] = Tail(@)] \/ prog' = [prog EXCEPT ![u] = <<>>]
    BY <1>7, ThreadMove
  <2>2. i + 1 \in DOMAIN prog[u] /\ i \in Nat \ {0} /\ prog'[u][i] = prog[u][i + 1]
    BY <1>0, <2>1, Earlier
  <2>3. PICK k, c : k = i + 1 /\ c = prog[u][k].c
    OBVIOUS
  <2>4. k \in DOMAIN prog[u] /\ k # 1 /\ prog'[u][i] = prog[u][k]
    BY <2>2, <2>3
  <2>5. Free(c)' /\ result'[c] = Absent
    BY <1>2, <1>7, <2>3, <2>4
  <2> QED
    BY <1>3, <2>1, <2>3, <2>4, <2>5
<1>8. CASE prog'[u][i].op = "call" /\ TStep(u) /\ prog' = prog
  <2>1. PICK c : c = prog[u][i].c
    OBVIOUS
  <2>2. \/ /\ prog[u] # <<>> /\ Op(u).op # "call" /\ pc'[u] \notin {"marshal", "notify"}
        \/ pc'[u] = "notify"
        \/ /\ QueueCall(u) /\ pc'[u] = "marshal"
           /\ result' = [result EXCEPT ![Op(u).c] = IF Op(u).c \in world.procs THEN Absent ELSE None]
    <3> USE <1>0, <1>8 DEF At, Finish, Fail
    <3>1. CASE Leave(u) \/ TryResolve(u) \/ Register(u) \/ Sleep(u)
      <4>1. CASE Leave(u)
        <5>1. prog'[u] = <<>> /\ DOMAIN <<>> = {}
          BY <4>1 DEF Leave
        <5> QED
          BY <5>1
      <4> QED
        BY <3>1, <4>1 DEF TryResolve, Register, Sleep
    <3>2. CASE Timeout(u)
      <4>1. Inside(u)
        OBVIOUS
      <4> QED
        BY <3>2, <4>1 DEF Timeout, Inside
    <3>3. CASE WireSlot(u) \/ Gather(u)
      BY <3>3, ZenonT(120) DEF WireSlot, Gather
    <3>4. CASE ProbeSlot(u)
      BY <3>4 DEF ProbeSlot
    <3>5. CASE QueueCall(u) /\ pc'[u] = "marshal"
      <4>1. pc[u] = "ready"
        BY <3>5 DEF QueueCall
      <4> QED
        BY <3>5, <4>1 DEF QueueCall
    <3>6. ASSUME prog' = [prog EXCEPT ![u] = Tail(@)], prog[u] # <<>> PROVE FALSE
      <4>1. Tail(prog[u]) = prog[u] /\ prog[u] \in Seq(Operations)
        BY <3>6
      <4>2. Len(Tail(prog[u])) = Len(prog[u]) - 1 /\ Len(prog[u]) \in Nat
        BY <3>6, <4>1, Rest
      <4> QED
        BY <4>1, <4>2
    <3>7. CASE QueueCall(u) /\ pc'[u] # "marshal"
      BY <3>6, <3>7 DEF QueueCall
    <3>8. CASE MarshalThrows(u) \/ NotifyQueue(u)
      BY <3>6, <3>8 DEF MarshalThrows, NotifyQueue
    <3>9. CASE Push(u)
      BY <3>6, <3>9 DEF Push
    <3> HIDE DEF At, Finish, Fail
    <3> QED
      BY <1>8, <3>1, <3>2, <3>3, <3>4, <3>5, <3>7, <3>8, <3>9 DEF TStep, ThreadStep, CallStep
  <2>3. CASE prog[u] # <<>> /\ Op(u).op # "call" /\ pc'[u] \notin {"marshal", "notify"}
    <3>1. prog[u][1] = Op(u)
      BY <1>0, <2>3, OpType
    <3>2. i # 1
      BY <1>8, <2>3, <3>1
    <3>3. Free(c)' /\ result'[c] = Absent
      BY <1>2, <1>8, <2>1, <3>2
    <3> QED
      BY <1>3, <1>8, <2>1, <3>2, <3>3
  <2>4. CASE i = 1 /\ pc'[u] = "notify"
    BY <2>4 DEF Made
  <2>5. CASE i # 1
    <3>1. Free(c)' /\ result'[c] = Absent
      BY <1>2, <1>8, <2>1, <2>5
    <3> QED
      BY <1>3, <1>8, <2>1, <2>5, <3>1
  <2>6. CASE /\ i = 1 /\ QueueCall(u) /\ pc'[u] = "marshal"
             /\ result' = [result EXCEPT ![Op(u).c] = IF Op(u).c \in world.procs THEN Absent ELSE None]
    <3>1. prog[u] # <<>> /\ Op(u).op = "call" /\ pc[u] = "ready"
      BY <2>6 DEF QueueCall, At
    <3>2. prog[u][1] = Op(u) /\ c = Op(u).c /\ c \in Calls /\ Free(c)
      BY <1>0, <2>1, <2>6, <3>1, OpType, NotMade
    <3>3. Pending(c)'
      BY <1>0, <2>6, <3>2 DEF Pending, ListsOK, Futures
    <3>4. UNCHANGED <<queue, cur>>
      BY <2>6 DEF QueueCall, workVars
    <3>5. Free(c)'
      BY <3>2, <3>4 DEF Free
    <3> QED
      BY <1>3, <1>8, <2>1, <2>6, <3>3, <3>5
  <2> QED
    BY <2>2, <2>3, <2>4, <2>5, <2>6
<1> QED
  BY <1>5, <1>6, <1>7, <1>8

(* A call that is queued, and stays so, is not answered. *)
LEMMA QueuedPending ==
  ASSUME ProgOK, \A t \in Threads : Inside(t), ListsOK, WorkOK, CallInv, CombInv, TaskInv,
      [Next]_vars,
         NEW b \in Actors, NEW j \in DOMAIN queue[b], NEW i \in DOMAIN queue'[b],
         \/ queue'[b] = queue[b] /\ i = j
         \/ queue'[b] = Tail(queue[b]) /\ j = i + 1
         \/ i = j /\ \E t \in Threads : Pushed(t, b)
  PROVE  Pending(queue[b][j]) /\ result'[queue[b][j]] = result[queue[b][j]]
<1>0. queue[b] \in Seq(Calls) /\ queue \in [Actors -> Seq(Calls)]
  BY DEF WorkOK
<1>1. PICK c : c = queue[b][j]
  OBVIOUS
<1>2. c \in Calls /\ Pending(c)
  BY <1>0, <1>1 DEF CallInv, Queued
<1>3. ASSUME NEW t \in Threads, Touch(t), Op(t).c = c PROVE FALSE
  <2>1. prog[t] # <<>> /\ Op(t).op = "call" /\ pc[t] # "notify"
    BY <1>3 DEF Touch, QueueCall, Push, MarshalThrows, At
  <2>2. Free(c)
    BY <1>3, <2>1, NotMade
  <2> QED
    BY <1>1, <2>2 DEF Free
<1>4. ASSUME NEW a \in Actors, c = cur[a] PROVE FALSE
  BY <1>1, <1>4, Place, ZenonT(120)
<1>5. ASSUME NEW a \in Actors, DrainOne(a), queue[a] # <<>>, c = Head(queue[a]) PROVE FALSE
  <2>1. queue[a][1] = c /\ 1 \in DOMAIN queue[a]
    BY <1>0, <1>5, Rest
  <2>2. a = b /\ j = 1
    BY <1>1, <2>1, Place
  <2>3. queue'[b] = Tail(queue[b])
    BY <1>0, <1>5, <2>2 DEF DrainOne
  <2>4. i \in Nat \ {0}
    <3>1. queue'[b] \in Seq(Calls)
      BY <1>0, <1>5, <2>2, <2>3, Rest
    <3> QED
      BY <3>1
  <2>5. Len(queue'[b]) = Len(queue[b]) - 1 /\ Len(queue[b]) \in Nat
    BY <1>0, <1>5, <2>2, <2>3, Rest
  <2>6. queue'[b] # queue[b]
    BY <2>5
  <2>7. ~\E t \in Threads : Pushed(t, b)
    <3>1. ASSUME NEW t \in Threads, Pushed(t, b) PROVE FALSE
      <4>1. queue'[b] = Append(queue[b], Op(t).c)
        BY <3>1 DEF Pushed
      <4>2. Len(queue'[b]) = Len(queue[b]) + 1
        BY <1>0, <4>1
      <4> QED
        BY <2>5, <4>2
    <3> QED
      BY <3>1
  <2> QED
    BY <2>2, <2>4, <2>6, <2>7
<1>6. ASSUME NEW a \in Actors, Collect(a), c \in Range(queue[a]) PROVE FALSE
  <2>1. PICK k \in DOMAIN queue[a] : queue[a][k] = c
    BY <1>6 DEF Range
  <2>2. a = b
    BY <1>1, <2>1, Place
  <2>3. queue'[b] = <<>> /\ DOMAIN <<>> = {}
    BY <1>0, <1>6, <2>2 DEF Collect
  <2> QED
    BY <2>3
<1>7. result'[c] = result[c]
  BY <1>2, <1>3, <1>4, <1>5, <1>6, CallResult
<1> QED
  BY <1>1, <1>2, <1>7

(* Queued calls stay queued once, or leave the queue. *)
LEMMA QueuedStep ==
  ASSUME ProgOK, \A t \in Threads : Inside(t), ListsOK, WorkOK, CallInv, CombInv, TaskInv,
      [Next]_vars,
         NEW b \in Actors, NEW i \in DOMAIN queue'[b]
  PROVE  Queued(b, i)'
<1>0. queue[b] \in Seq(Calls) /\ queue'[b] \in Seq(Calls) /\ world' = world
  BY Moves, WorkType DEF WorkOK
<1>1. QueueStep(b) /\ CurStep(b)
  BY HoldStep
<1>2. \A k \in DOMAIN queue[b] : Queued(b, k)
  BY DEF CallInv
<1>3. NoCall \notin Calls
  BY ActorAssumption
<1>4. queue'[b][i] \in Calls
  BY <1>0
<1>5. ASSUME NEW c, c = queue'[b][i], Target(c) = b, cur'[b] # c, Pending(c),
    result'[c] = result[c],
             \A j \in DOMAIN queue'[b] : queue'[b][i] = queue'[b][j] => i = j
      PROVE  Queued(b, i)'
  <2>1. Pending(c)' /\ Target(c)' = b
    BY <1>0, <1>5 DEF Pending, Target
  <2> QED
    BY <1>5, <2>1 DEF Queued
<1>6. CASE queue'[b] = queue[b]
  <2>1. PICK c : c = queue[b][i]
    OBVIOUS
  <2>2. Pending(c) /\ result'[c] = result[c]
    BY <1>6, <2>1, QueuedPending
  <2>3. Target(c) = b /\ cur[b] # c /\ \A j \in DOMAIN queue[b] : queue[b][i] = queue[b][j] => i = j
    BY <1>2, <1>6, <2>1 DEF Queued
  <2>4. cur'[b] # c
    <3>1. CASE cur'[b] \in {cur[b], NoCall}
      BY <1>3, <1>4, <1>6, <2>1, <2>3, <3>1
    <3>2. CASE queue[b] # <<>> /\ queue'[b] = Tail(queue[b])
      <4>1. Len(Tail(queue[b])) = Len(queue[b]) - 1 /\ Len(queue[b]) \in Nat
        BY <1>0, <3>2, Rest
      <4>2. Tail(queue[b]) = queue[b]
        BY <1>6, <3>2
      <4>3. Len(queue[b]) = Len(queue[b]) - 1
        BY <4>1, <4>2
      <4> QED
        BY <4>1, <4>3
    <3> QED
      BY <1>1, <3>1, <3>2 DEF CurStep
  <2> QED
    BY <1>5, <1>6, <2>1, <2>2, <2>3, <2>4
<1>7. CASE queue[b] # <<>> /\ queue'[b] = Tail(queue[b])
  <2>1. /\ i + 1 \in DOMAIN queue[b] /\ queue'[b][i] = queue[b][i + 1] /\ i \in Nat \ {0}
        /\ \A j \in DOMAIN queue'[b] : /\ j + 1 \in DOMAIN queue[b] /\ j \in Nat
                                       /\ queue'[b][j] = queue[b][j + 1]
    BY <1>0, <1>7, Rest
  <2>2. PICK k, c : k = i + 1 /\ c = queue[b][k]
    OBVIOUS
  <2>3. k \in DOMAIN queue[b] /\ Queued(b, k) /\ c = queue'[b][i]
    BY <1>2, <2>1, <2>2
  <2>4. Pending(c) /\ result'[c] = result[c]
    BY <1>7, <2>2, <2>3, QueuedPending
  <2>5. Target(c) = b /\ cur[b] # c
    BY <2>2, <2>3 DEF Queued
  <2>6. Head(queue[b]) # c
    <3>1. queue[b][1] = Head(queue[b]) /\ 1 \in DOMAIN queue[b]
      BY <1>0, <1>7, Rest
    <3>2. k # 1
      BY <2>1, <2>2
    <3> QED
      BY <2>2, <2>3, <3>1, <3>2 DEF Queued
  <2>7. cur'[b] # c
    BY <1>1, <1>3, <1>4, <2>3, <2>5, <2>6 DEF CurStep
  <2>8. \A j \in DOMAIN queue'[b] : queue'[b][i] = queue'[b][j] => i = j
    <3> TAKE j \in DOMAIN queue'[b]
    <3> HAVE queue'[b][i] = queue'[b][j]
    <3>1. k = j + 1
      BY <2>1, <2>2, <2>3 DEF Queued
    <3> QED
      BY <2>1, <2>2, <3>1
  <2> QED
    BY <1>5, <2>3, <2>4, <2>5, <2>7, <2>8
<1>8. CASE queue'[b] = <<>>
  <2>1. DOMAIN <<>> = {}
    OBVIOUS
  <2> QED
    BY <1>8, <2>1
<1>9. ASSUME NEW t \in Threads, Pushed(t, b) PROVE Queued(b, i)'
  <2>1. PICK d : d = Op(t).c
    OBVIOUS
  <2>2. prog[t] # <<>> /\ Op(t).op = "call" /\ pc[t] = "marshal"
    BY <1>9 DEF Pushed, Push, At
  <2>3. d \in Calls /\ Free(d) /\ Pending(d)
    BY <2>1, <2>2, NotMade
  <2>4. queue'[b] = Append(queue[b], d) /\ result' = result /\ Target(d) = b
    BY <1>9, <2>1 DEF Pushed
  <2>5. cur'[b] = cur[b]
    BY <1>9 DEF Pushed, Push
  <2>6. \A j \in DOMAIN queue[b] : queue[b][j] # d /\ cur[b] # d
    BY <2>3 DEF Free
  <2>7. /\ DOMAIN queue'[b] = DOMAIN queue[b] \cup {Len(queue[b]) + 1}
        /\ \A j \in DOMAIN queue[b] : queue'[b][j] = queue[b][j] /\ j # Len(queue[b]) + 1
        /\ queue'[b][Len(queue[b]) + 1] = d
    BY <1>0, <2>3, <2>4
  <2>8. CASE i \in DOMAIN queue[b]
    <3>1. PICK c : c = queue[b][i]
      OBVIOUS
    <3>2. Target(c) = b /\ cur[b] # c /\ Pending(c) /\ c = queue'[b][i] /\ c # d
      BY <1>2, <2>6, <2>7, <2>8, <3>1 DEF Queued
    <3>3. \A j \in DOMAIN queue[b] : queue[b][i] = queue[b][j] => i = j
      BY <1>2, <2>8 DEF Queued
    <3>4. \A j \in DOMAIN queue'[b] : queue'[b][i] = queue'[b][j] => i = j
      BY <2>7, <2>8, <3>1, <3>2, <3>3
    <3> QED
      BY <1>5, <2>4, <2>5, <3>2, <3>4
  <2>9. CASE i = Len(queue[b]) + 1
    <3>1. \A j \in DOMAIN queue'[b] : queue'[b][i] = queue'[b][j] => i = j
      BY <2>6, <2>7, <2>9
    <3>2. cur[b] # d
      BY <2>3 DEF Free
    <3>3. d = queue'[b][i]
      BY <2>7, <2>9
    <3> QED
      BY <1>5, <2>3, <2>4, <2>5, <3>1, <3>2, <3>3
  <2> QED
    BY <2>7, <2>8, <2>9
<1> QED
  BY <1>1, <1>6, <1>7, <1>8, <1>9 DEF QueueStep

(* Where a worker goes with a call in its hand. *)
Handled(b) ==
  /\ wpc'[b] = "run" => cur'[b] # NoCall
  /\ wpc'[b] \notin {"poll", "dispatch", "run", "close", "drain"} => cur'[b] = NoCall
  /\ cur'[b] # NoCall => wpc'[b] = "poll" \/ wpc[b] # "poll"

(* Workers go nowhere else. *)
LEMMA HandleStep ==
  ASSUME ProgOK, WorkOK, NEW b \in Actors, Taken(b), [Next]_vars
  PROVE  Handled(b)
<1> USE DEF WorkOK, Handled, Taken, waitVars, lists, workVars, envVars, joinVars, vars, At, Finish,
    Fail, Go, Worker, JoinGo, Notified, MutexFree, Dispatching
<1>1. ASSUME NEW t \in Threads, ThreadStep(t) \/ Timeout(t), UNCHANGED <<world, workVars, envVars,
    joinVars>> PROVE Handled(b)
  BY <1>1
<1>2. ASSUME NEW p \in Procs, Deliver(p), UNCHANGED <<world, workVars, envVars,
    joinVars>> PROVE Handled(b)
  BY <1>2
<1>3. ASSUME NEW t \in Threads, QueueCall(t) PROVE Handled(b)
  BY <1>3 DEF QueueCall
<1>4. ASSUME NEW t \in Threads, Push(t) PROVE Handled(b)
  BY <1>4 DEF Push
<1>5. ASSUME NEW t \in Threads, NotifyQueue(t) PROVE Handled(b)
  BY <1>5 DEF NotifyQueue
<1>6. ASSUME NEW t \in Threads, MarshalThrows(t) PROVE Handled(b)
  BY <1>6 DEF MarshalThrows
<1>7. ASSUME NEW a \in Actors, Poll(a) PROVE Handled(b)
  BY <1>7 DEF Poll
<1>8. ASSUME NEW a \in Actors, Check(a) PROVE Handled(b)
  <2>1. NoCall \notin Calls /\ (queue[a] # <<>> => Head(queue[a]) \in Calls)
    BY ActorAssumption, Rest
  <2>2. CASE a # b
    BY <1>8, <2>2 DEF Check
  <2>3. CASE a = b
    BY <1>8, <2>1, <2>3 DEF Check
  <2> QED
    BY <2>2, <2>3
<1>9. ASSUME NEW a \in Actors, Block(a) PROVE Handled(b)
  BY <1>9 DEF Block
<1>10. ASSUME NEW a \in Actors, ActorPark(a) PROVE Handled(b)
  BY <1>10 DEF ActorPark
<1>11. ASSUME NEW a \in Actors, ActorResume(a) PROVE Handled(b)
  BY <1>11 DEF ActorResume
<1>12. ASSUME NEW a \in Actors, DispatchQuits(a) PROVE Handled(b)
  BY <1>12 DEF DispatchQuits
<1>13. ASSUME NEW a \in Actors, Dispatch(a) PROVE Handled(b)
  BY <1>13 DEF Dispatch
<1>14. ASSUME NEW a \in Actors, HandlerFails(a) PROVE Handled(b)
  BY <1>14 DEF HandlerFails
<1>15. ASSUME NEW a \in Actors, RunCall(a) PROVE Handled(b)
  BY <1>15 DEF RunCall
<1>16. ASSUME NEW a \in Actors, RunFails(a) PROVE Handled(b)
  BY <1>16 DEF RunFails
<1>17. ASSUME NEW a \in Actors, RunThrows(a) PROVE Handled(b)
  BY <1>17 DEF RunThrows
<1>18. ASSUME NEW a \in Actors, CloseQueue(a) PROVE Handled(b)
  BY <1>18 DEF CloseQueue
<1>19. ASSUME NEW a \in Actors, DrainOne(a) PROVE Handled(b)
  BY <1>19 DEF DrainOne
<1>20. ASSUME NEW a \in Actors, EndWorker(a) PROVE Handled(b)
  BY <1>20 DEF EndWorker
<1>21. ASSUME NEW a \in Actors, GcWake(a) PROVE Handled(b)
  BY <1>21 DEF GcWake
<1>22. ASSUME NEW a \in Actors, Emit(a) PROVE Handled(b)
  BY <1>22 DEF Emit
<1>23. ASSUME NEW a \in Actors, WakeActor(a) PROVE Handled(b)
  BY <1>23 DEF WakeActor
<1>24. ASSUME NEW a \in Actors, Collect(a) PROVE Handled(b)
  BY <1>24 DEF Collect
<1>25. ASSUME NEW a \in Actors, Finalize(a) PROVE Handled(b)
  BY <1>25 DEF Finalize
<1>26. ASSUME NEW a \in Actors, DeleteInstance(a) PROVE Handled(b)
  BY <1>26 DEF DeleteInstance
<1>27. ASSUME DebugStop PROVE Handled(b)
  BY <1>27 DEF DebugStop
<1>28. ASSUME DebugRelease PROVE Handled(b)
  BY <1>28 DEF DebugRelease
<1>29. ASSUME RequestExit PROVE Handled(b)
  BY <1>29 DEF RequestExit
<1>30. ASSUME NEW j \in Joiners, NEW a \in Actors, LockJoin(j, a) PROVE Handled(b)
  BY <1>30 DEF LockJoin
<1>31. ASSUME NEW j \in Joiners, NEW a \in Actors, SignalQuit(j, a) PROVE Handled(b)
  BY <1>31 DEF SignalQuit
<1>32. ASSUME NEW j \in Joiners, NEW a \in Actors, Joined(j, a) PROVE Handled(b)
  BY <1>32 DEF Joined
<1>33. ASSUME NEW j \in Joiners, NEW a \in Actors, ResetThread(j, a) PROVE Handled(b)
  BY <1>33 DEF ResetThread
<1>34. ASSUME NEW j \in Joiners, NEW a \in Actors, JoinAll(j, a) PROVE Handled(b)
  BY <1>34 DEF JoinAll
<1>35. ASSUME UNCHANGED vars PROVE Handled(b)
  BY <1>35
<1> HIDE DEF WorkOK, Handled, Taken, waitVars, lists, workVars, envVars, joinVars, vars, At,
    Finish, Fail, Go, Worker, JoinGo, Notified, MutexFree, Dispatching
<1> QED
  BY LifecycleJoins, <1>1, <1>2, <1>3, <1>4, <1>5, <1>6, <1>7, <1>8, <1>9, <1>10, <1>11, <1>12,
      <1>13, <1>14, <1>15, <1>16, <1>17, <1>18, <1>19, <1>20, <1>21, <1>22, <1>23, <1>24, <1>25,
      <1>26, <1>27, <1>28, <1>29, <1>30, <1>31, <1>32, <1>33, <1>34, <1>35 DEF Next, WaitNext,
      CallStep, WorkerStep, JoinStep, Finalizer

(* The call a worker has taken is not answered until it ran. *)
LEMMA TakenStep ==
  ASSUME ProgOK, \A t \in Threads : Inside(t), ListsOK, WorkOK, CallInv, CombInv, TaskInv,
      [Next]_vars,
         NEW b \in Actors
  PROVE  Taken(b)'
<1>0. queue[b] \in Seq(Calls) /\ world' = world /\ Taken(b) /\ NoCall \notin Calls
  BY Moves, ActorAssumption DEF WorkOK, CallInv
<1>1. Handled(b) /\ CurStep(b)
  BY <1>0, HandleStep, HoldStep
<1>2. PICK c : c = cur'[b]
  OBVIOUS
<1>3. ASSUME c # NoCall, Target(c) = b, wpc'[b] # "poll" => Pending(c) /\ result'[c] = result[c]
      PROVE  Taken(b)'
  <2>1. Target(c)' = b /\ (wpc'[b] # "poll" => Pending(c)')
    BY <1>0, <1>3 DEF Target, Pending
  <2> QED
    BY <1>1, <1>2, <2>1 DEF Taken, Handled
<1>4. CASE c = NoCall
  BY <1>1, <1>2, <1>4 DEF Taken, Handled
<1>5. CASE c # NoCall /\ cur'[b] = cur[b]
  <2>1. c \in Calls /\ Target(c) = b /\ (wpc[b] # "poll" => Pending(c))
    BY <1>0, <1>2, <1>5 DEF Taken, WorkOK
  <2>2. ASSUME wpc'[b] # "poll" PROVE Pending(c) /\ result'[c] = result[c]
    <3>1. Pending(c)
      BY <1>1, <1>2, <1>5, <2>1, <2>2 DEF Handled
    <3>2. ASSUME NEW t \in Threads, Touch(t), Op(t).c = c PROVE FALSE
      <4>1. prog[t] # <<>> /\ Op(t).op = "call" /\ pc[t] # "notify"
        BY <3>2 DEF Touch, QueueCall, Push, MarshalThrows, At
      <4>2. Free(c)
        BY <3>2, <4>1, NotMade
      <4> QED
        BY <1>2, <1>5, <4>2 DEF Free
    <3>3. ASSUME NEW a \in Actors, c = cur[a],
                 RunCall(a) \/ RunFails(a) \/ RunThrows(a) \/ EndWorker(a)
          PROVE  FALSE
      <4>1. a = b
        BY <1>2, <1>5, <3>3, Place
      <4>2. wpc'[b] = "poll" \/ cur'[b] = NoCall
        BY <3>3, <4>1 DEF RunCall, RunFails, RunThrows, EndWorker, Go, WorkOK
      <4> QED
        BY <1>2, <1>5, <2>2, <4>2
    <3>4. ASSUME NEW a \in Actors, queue[a] # <<>>, c = Head(queue[a]) PROVE FALSE
      <4>1. queue[a] \in Seq(Calls)
        BY DEF WorkOK
      <4>2. queue[a][1] = c /\ 1 \in DOMAIN queue[a]
        BY <3>4, <4>1, Rest
      <4> QED
        BY <1>2, <1>5, <4>2, Place
    <3>5. ASSUME NEW a \in Actors, c \in Range(queue[a]) PROVE FALSE
      BY <1>2, <1>5, <3>5, Place DEF Range
    <3>6. result'[c] = result[c]
      BY <2>1, <3>2, <3>3, <3>4, <3>5, CallResult
    <3> QED
      BY <3>1, <3>6
  <2> QED
    BY <1>3, <1>5, <2>1, <2>2
<1>6. CASE c # NoCall /\ cur'[b] # cur[b]
  <2>1. queue[b] # <<>> /\ c = Head(queue[b]) /\ result' = result
    BY <1>1, <1>2, <1>6 DEF CurStep
  <2>2. queue[b][1] = c /\ 1 \in DOMAIN queue[b]
    BY <1>0, <2>1, Rest
  <2>3. Target(c) = b /\ Pending(c)
    BY <2>2 DEF CallInv, Queued
  <2> QED
    BY <1>3, <1>6, <2>1, <2>3
<1> QED
  BY <1>4, <1>5, <1>6

(* Calls are made, queued, taken and answered once each. *)
LEMMA CallsStep ==
  ASSUME ProgOK, \A t \in Threads : Inside(t), ListsOK, WorkOK, CallInv, CombInv, TaskInv,
      [Next]_vars
  PROVE  CallInv'
<1>1. \A t \in Threads : \A i \in DOMAIN prog'[t] : Made(t, i)'
  BY MadeStep
<1>2. \A a \in Actors : Taken(a)' /\ \A i \in DOMAIN queue'[a] : Queued(a, i)'
  BY TakenStep, QueuedStep
<1>3. \A c \in Calls : result'[c] \in Results
  <2>1. \A c \in Calls : result[c] \in Results
    BY DEF CallInv
  <2>2. None \in Results /\ Absent \in Results /\ Broken \in Results
    BY DEF Results
  <2> QED
    BY <2>1, <2>2, CallResult
<1>4. Results' = Results
  BY DEF Results
<1> QED
  BY <1>1, <1>2, <1>3, <1>4 DEF CallInv

-----------------------------------------------------------------------------
(* The ends of actors *)

(* A worker closes its queue before it drains it. *)
Closed(b) ==
  /\ ~alive[b] => wpc[b] \in {"drain", "ended"}
  /\ wpc[b] = "drain" => ~alive[b]

(* What the end of a worker tells. *)
Over(b) ==
  wpc[b] = "ended" => (alive[b] /\ down # "no") \/ (~alive[b] /\ queue[b] = <<>>)

(* A loop cut short with a call in hand. *)
Cut(b) == wpc[b] \in {"close", "drain"} /\ cur[b] # NoCall => down # "no"

(* An instance nobody refers to. *)
Lost(b) ==
  inst[b] # "live" => queue[b] = <<>> /\ cur[b] = NoCall /\ \A t \in Threads : ~Refers(t, b)

(* The parts of Ending. *)
LEMMA EndingParts ==
  ASSUME NEW b \in Actors
  PROVE  Ending(b) <=> /\ Closed(b) /\ Over(b) /\ Cut(b) /\ Lost(b)
                       /\ inst[b] = "live" => jpc[Lifecycle][b] = "idle"
BY DEF Ending, Closed, Over, Cut, Lost

(* alive is cleared by CloseQueue alone. *)
LEMMA ClosedStep ==
  ASSUME ProgOK, WorkOK, NEW b \in Actors, Closed(b), [Next]_vars
  PROVE  Closed(b)'
<1> USE DEF WorkOK, Closed, waitVars, lists, workVars, envVars, joinVars, vars, At, Finish, Fail,
    Go, Worker, JoinGo, Notified, MutexFree, Dispatching
<1>1. ASSUME NEW t \in Threads, ThreadStep(t) \/ Timeout(t), UNCHANGED <<world, workVars, envVars,
    joinVars>> PROVE Closed(b)'
  BY <1>1
<1>2. ASSUME NEW p \in Procs, Deliver(p), UNCHANGED <<world, workVars, envVars,
    joinVars>> PROVE Closed(b)'
  BY <1>2
<1>3. ASSUME NEW t \in Threads, QueueCall(t) PROVE Closed(b)'
  BY <1>3 DEF QueueCall
<1>4. ASSUME NEW t \in Threads, Push(t) PROVE Closed(b)'
  BY <1>4 DEF Push
<1>5. ASSUME NEW t \in Threads, NotifyQueue(t) PROVE Closed(b)'
  BY <1>5 DEF NotifyQueue
<1>6. ASSUME NEW t \in Threads, MarshalThrows(t) PROVE Closed(b)'
  BY <1>6 DEF MarshalThrows
<1>7. ASSUME NEW a \in Actors, Poll(a) PROVE Closed(b)'
  BY <1>7 DEF Poll
<1>8. ASSUME NEW a \in Actors, Check(a) PROVE Closed(b)'
  BY <1>8 DEF Check
<1>9. ASSUME NEW a \in Actors, Block(a) PROVE Closed(b)'
  BY <1>9 DEF Block
<1>10. ASSUME NEW a \in Actors, ActorPark(a) PROVE Closed(b)'
  BY <1>10 DEF ActorPark
<1>11. ASSUME NEW a \in Actors, ActorResume(a) PROVE Closed(b)'
  BY <1>11 DEF ActorResume
<1>12. ASSUME NEW a \in Actors, DispatchQuits(a) PROVE Closed(b)'
  BY <1>12 DEF DispatchQuits
<1>13. ASSUME NEW a \in Actors, Dispatch(a) PROVE Closed(b)'
  BY <1>13 DEF Dispatch
<1>14. ASSUME NEW a \in Actors, HandlerFails(a) PROVE Closed(b)'
  BY <1>14 DEF HandlerFails
<1>15. ASSUME NEW a \in Actors, RunCall(a) PROVE Closed(b)'
  BY <1>15 DEF RunCall
<1>16. ASSUME NEW a \in Actors, RunFails(a) PROVE Closed(b)'
  BY <1>16 DEF RunFails
<1>17. ASSUME NEW a \in Actors, RunThrows(a) PROVE Closed(b)'
  BY <1>17 DEF RunThrows
<1>18. ASSUME NEW a \in Actors, CloseQueue(a) PROVE Closed(b)'
  BY <1>18 DEF CloseQueue
<1>19. ASSUME NEW a \in Actors, DrainOne(a) PROVE Closed(b)'
  BY <1>19 DEF DrainOne
<1>20. ASSUME NEW a \in Actors, EndWorker(a) PROVE Closed(b)'
  BY <1>20 DEF EndWorker
<1>21. ASSUME NEW a \in Actors, GcWake(a) PROVE Closed(b)'
  BY <1>21 DEF GcWake
<1>22. ASSUME NEW a \in Actors, Emit(a) PROVE Closed(b)'
  BY <1>22 DEF Emit
<1>23. ASSUME NEW a \in Actors, WakeActor(a) PROVE Closed(b)'
  BY <1>23 DEF WakeActor
<1>24. ASSUME NEW a \in Actors, Collect(a) PROVE Closed(b)'
  BY <1>24 DEF Collect
<1>25. ASSUME NEW a \in Actors, Finalize(a) PROVE Closed(b)'
  BY <1>25 DEF Finalize
<1>26. ASSUME NEW a \in Actors, DeleteInstance(a) PROVE Closed(b)'
  BY <1>26 DEF DeleteInstance
<1>27. ASSUME DebugStop PROVE Closed(b)'
  BY <1>27 DEF DebugStop
<1>28. ASSUME DebugRelease PROVE Closed(b)'
  BY <1>28 DEF DebugRelease
<1>29. ASSUME RequestExit PROVE Closed(b)'
  BY <1>29 DEF RequestExit
<1>30. ASSUME NEW j \in Joiners, NEW a \in Actors, LockJoin(j, a) PROVE Closed(b)'
  BY <1>30 DEF LockJoin
<1>31. ASSUME NEW j \in Joiners, NEW a \in Actors, SignalQuit(j, a) PROVE Closed(b)'
  BY <1>31 DEF SignalQuit
<1>32. ASSUME NEW j \in Joiners, NEW a \in Actors, Joined(j, a) PROVE Closed(b)'
  BY <1>32 DEF Joined
<1>33. ASSUME NEW j \in Joiners, NEW a \in Actors, ResetThread(j, a) PROVE Closed(b)'
  BY <1>33 DEF ResetThread
<1>34. ASSUME NEW j \in Joiners, NEW a \in Actors, JoinAll(j, a) PROVE Closed(b)'
  BY <1>34 DEF JoinAll
<1>35. ASSUME UNCHANGED vars PROVE Closed(b)'
  BY <1>35
<1> HIDE DEF WorkOK, Closed, waitVars, lists, workVars, envVars, joinVars, vars, At, Finish, Fail,
    Go, Worker, JoinGo, Notified, MutexFree, Dispatching
<1> QED
  BY LifecycleJoins, <1>1, <1>2, <1>3, <1>4, <1>5, <1>6, <1>7, <1>8, <1>9, <1>10, <1>11, <1>12,
      <1>13, <1>14, <1>15, <1>16, <1>17, <1>18, <1>19, <1>20, <1>21, <1>22, <1>23, <1>24, <1>25,
      <1>26, <1>27, <1>28, <1>29, <1>30, <1>31, <1>32, <1>33, <1>34, <1>35 DEF Next, WaitNext,
      CallStep, WorkerStep, JoinStep, Finalizer

(* A worker that ended with its queue closed has served it. *)
LEMMA OverStep ==
  ASSUME ProgOK, WorkOK, NEW b \in Actors, Closed(b), Over(b), [Next]_vars
  PROVE  Over(b)'
<1> USE DEF WorkOK, Over, Closed, waitVars, lists, workVars, envVars, joinVars, vars, At, Finish,
    Fail, Go, Worker, JoinGo, Notified, MutexFree, Dispatching
<1>0. down' \in {"no", "exit", "error"} /\ (down # "no" => down' # "no")
  BY DownStep
<1>1. ASSUME NEW t \in Threads, ThreadStep(t) \/ Timeout(t), UNCHANGED <<world, workVars, envVars,
    joinVars>> PROVE Over(b)'
  BY <1>0, <1>1
<1>2. ASSUME NEW p \in Procs, Deliver(p), UNCHANGED <<world, workVars, envVars,
    joinVars>> PROVE Over(b)'
  BY <1>0, <1>2
<1>3. ASSUME NEW t \in Threads, QueueCall(t) PROVE Over(b)'
  BY <1>3, <1>0 DEF QueueCall
<1>4. ASSUME NEW t \in Threads, Push(t) PROVE Over(b)'
  <2>1. PICK x, c : x = Target(Op(t).c) /\ c = Op(t).c
    OBVIOUS
  <2>2. \/ queue' = queue
        \/ alive[x] /\ queue' = [queue EXCEPT ![x] = Append(queue[x], c)]
    BY <1>4, <2>1 DEF Push
  <2>3. UNCHANGED <<alive, wpc>>
    BY <1>4 DEF Push
  <2> QED
    BY <1>0, <2>2, <2>3
<1>5. ASSUME NEW t \in Threads, NotifyQueue(t) PROVE Over(b)'
  BY <1>5, <1>0 DEF NotifyQueue
<1>6. ASSUME NEW t \in Threads, MarshalThrows(t) PROVE Over(b)'
  BY <1>6, <1>0 DEF MarshalThrows
<1>7. ASSUME NEW a \in Actors, Poll(a) PROVE Over(b)'
  BY <1>7, <1>0 DEF Poll
<1>8. ASSUME NEW a \in Actors, Check(a) PROVE Over(b)'
  BY <1>8, <1>0 DEF Check
<1>9. ASSUME NEW a \in Actors, Block(a) PROVE Over(b)'
  BY <1>9, <1>0 DEF Block
<1>10. ASSUME NEW a \in Actors, ActorPark(a) PROVE Over(b)'
  BY <1>10, <1>0 DEF ActorPark
<1>11. ASSUME NEW a \in Actors, ActorResume(a) PROVE Over(b)'
  BY <1>11, <1>0 DEF ActorResume
<1>12. ASSUME NEW a \in Actors, DispatchQuits(a) PROVE Over(b)'
  BY <1>12, <1>0 DEF DispatchQuits
<1>13. ASSUME NEW a \in Actors, Dispatch(a) PROVE Over(b)'
  BY <1>13, <1>0 DEF Dispatch
<1>14. ASSUME NEW a \in Actors, HandlerFails(a) PROVE Over(b)'
  BY <1>14, <1>0 DEF HandlerFails
<1>15. ASSUME NEW a \in Actors, RunCall(a) PROVE Over(b)'
  BY <1>15, <1>0 DEF RunCall
<1>16. ASSUME NEW a \in Actors, RunFails(a) PROVE Over(b)'
  BY <1>16, <1>0 DEF RunFails
<1>17. ASSUME NEW a \in Actors, RunThrows(a) PROVE Over(b)'
  BY <1>17, <1>0 DEF RunThrows
<1>18. ASSUME NEW a \in Actors, CloseQueue(a) PROVE Over(b)'
  BY <1>18, <1>0 DEF CloseQueue
<1>19. ASSUME NEW a \in Actors, DrainOne(a) PROVE Over(b)'
  BY <1>19, <1>0 DEF DrainOne
<1>20. ASSUME NEW a \in Actors, EndWorker(a) PROVE Over(b)'
  BY <1>20, <1>0 DEF EndWorker
<1>21. ASSUME NEW a \in Actors, GcWake(a) PROVE Over(b)'
  BY <1>21, <1>0 DEF GcWake
<1>22. ASSUME NEW a \in Actors, Emit(a) PROVE Over(b)'
  BY <1>22, <1>0 DEF Emit
<1>23. ASSUME NEW a \in Actors, WakeActor(a) PROVE Over(b)'
  BY <1>23, <1>0 DEF WakeActor
<1>24. ASSUME NEW a \in Actors, Collect(a) PROVE Over(b)'
  BY <1>24, <1>0 DEF Collect
<1>25. ASSUME NEW a \in Actors, Finalize(a) PROVE Over(b)'
  BY <1>25, <1>0 DEF Finalize
<1>26. ASSUME NEW a \in Actors, DeleteInstance(a) PROVE Over(b)'
  BY <1>26, <1>0 DEF DeleteInstance
<1>27. ASSUME DebugStop PROVE Over(b)'
  BY <1>27, <1>0 DEF DebugStop
<1>28. ASSUME DebugRelease PROVE Over(b)'
  BY <1>28, <1>0 DEF DebugRelease
<1>29. ASSUME RequestExit PROVE Over(b)'
  BY <1>29, <1>0 DEF RequestExit
<1>30. ASSUME NEW j \in Joiners, NEW a \in Actors, LockJoin(j, a) PROVE Over(b)'
  BY <1>30, <1>0 DEF LockJoin
<1>31. ASSUME NEW j \in Joiners, NEW a \in Actors, SignalQuit(j, a) PROVE Over(b)'
  BY <1>31, <1>0 DEF SignalQuit
<1>32. ASSUME NEW j \in Joiners, NEW a \in Actors, Joined(j, a) PROVE Over(b)'
  BY <1>32, <1>0 DEF Joined
<1>33. ASSUME NEW j \in Joiners, NEW a \in Actors, ResetThread(j, a) PROVE Over(b)'
  BY <1>33, <1>0 DEF ResetThread
<1>34. ASSUME NEW j \in Joiners, NEW a \in Actors, JoinAll(j, a) PROVE Over(b)'
  BY <1>34, <1>0 DEF JoinAll
<1>35. ASSUME UNCHANGED vars PROVE Over(b)'
  BY <1>35, <1>0
<1> HIDE DEF WorkOK, Over, Closed, waitVars, lists, workVars, envVars, joinVars, vars, At, Finish,
    Fail, Go, Worker, JoinGo, Notified, MutexFree, Dispatching
<1> QED
  BY LifecycleJoins, <1>1, <1>2, <1>3, <1>4, <1>5, <1>6, <1>7, <1>8, <1>9, <1>10, <1>11, <1>12,
      <1>13, <1>14, <1>15, <1>16, <1>17, <1>18, <1>19, <1>20, <1>21, <1>22, <1>23, <1>24, <1>25,
      <1>26, <1>27, <1>28, <1>29, <1>30, <1>31, <1>32, <1>33, <1>34, <1>35 DEF Next, WaitNext,
      CallStep, WorkerStep, JoinStep, Finalizer

(* Only a program that goes down cuts a loop. *)
LEMMA CutStep ==
  ASSUME ProgOK, WorkOK, NEW b \in Actors, Cut(b), Lost(b), [Next]_vars
  PROVE  Cut(b)'
<1> USE DEF WorkOK, Cut, waitVars, lists, workVars, envVars, joinVars, vars, At, Finish, Fail, Go,
    Worker, JoinGo, Notified, MutexFree, Dispatching
<1>0. down' \in {"no", "exit", "error"} /\ (down # "no" => down' # "no")
  BY DownStep
<1>1. ASSUME NEW t \in Threads, ThreadStep(t) \/ Timeout(t), UNCHANGED <<world, workVars, envVars,
    joinVars>> PROVE Cut(b)'
  BY <1>0, <1>1
<1>2. ASSUME NEW p \in Procs, Deliver(p), UNCHANGED <<world, workVars, envVars,
    joinVars>> PROVE Cut(b)'
  BY <1>0, <1>2
<1>3. ASSUME NEW t \in Threads, QueueCall(t) PROVE Cut(b)'
  BY <1>3, <1>0 DEF QueueCall
<1>4. ASSUME NEW t \in Threads, Push(t) PROVE Cut(b)'
  BY <1>4, <1>0 DEF Push
<1>5. ASSUME NEW t \in Threads, NotifyQueue(t) PROVE Cut(b)'
  BY <1>5, <1>0 DEF NotifyQueue
<1>6. ASSUME NEW t \in Threads, MarshalThrows(t) PROVE Cut(b)'
  BY <1>6, <1>0 DEF MarshalThrows
<1>7. ASSUME NEW a \in Actors, Poll(a) PROVE Cut(b)'
  BY <1>7, <1>0 DEF Poll
<1>8. ASSUME NEW a \in Actors, Check(a) PROVE Cut(b)'
  BY <1>8, <1>0 DEF Check
<1>9. ASSUME NEW a \in Actors, Block(a) PROVE Cut(b)'
  BY <1>9, <1>0 DEF Block
<1>10. ASSUME NEW a \in Actors, ActorPark(a) PROVE Cut(b)'
  BY <1>10, <1>0 DEF ActorPark
<1>11. ASSUME NEW a \in Actors, ActorResume(a) PROVE Cut(b)'
  BY <1>11, <1>0 DEF ActorResume
<1>12. ASSUME NEW a \in Actors, DispatchQuits(a) PROVE Cut(b)'
  BY <1>12, <1>0 DEF DispatchQuits, Lost
<1>13. ASSUME NEW a \in Actors, Dispatch(a) PROVE Cut(b)'
  BY <1>13, <1>0 DEF Dispatch
<1>14. ASSUME NEW a \in Actors, HandlerFails(a) PROVE Cut(b)'
  <2>1. down' # "no" /\ cur' = cur /\ wpc' = [wpc EXCEPT ![a] = "close"]
    BY <1>14 DEF HandlerFails
  <2> QED
    BY <2>1
<1>15. ASSUME NEW a \in Actors, RunCall(a) PROVE Cut(b)'
  BY <1>15, <1>0 DEF RunCall
<1>16. ASSUME NEW a \in Actors, RunFails(a) PROVE Cut(b)'
  BY <1>16, <1>0 DEF RunFails
<1>17. ASSUME NEW a \in Actors, RunThrows(a) PROVE Cut(b)'
  BY <1>17, <1>0 DEF RunThrows
<1>18. ASSUME NEW a \in Actors, CloseQueue(a) PROVE Cut(b)'
  BY <1>18, <1>0 DEF CloseQueue
<1>19. ASSUME NEW a \in Actors, DrainOne(a) PROVE Cut(b)'
  BY <1>19, <1>0 DEF DrainOne
<1>20. ASSUME NEW a \in Actors, EndWorker(a) PROVE Cut(b)'
  BY <1>20, <1>0 DEF EndWorker
<1>21. ASSUME NEW a \in Actors, GcWake(a) PROVE Cut(b)'
  BY <1>21, <1>0 DEF GcWake
<1>22. ASSUME NEW a \in Actors, Emit(a) PROVE Cut(b)'
  BY <1>22, <1>0 DEF Emit
<1>23. ASSUME NEW a \in Actors, WakeActor(a) PROVE Cut(b)'
  BY <1>23, <1>0 DEF WakeActor
<1>24. ASSUME NEW a \in Actors, Collect(a) PROVE Cut(b)'
  BY <1>24, <1>0 DEF Collect
<1>25. ASSUME NEW a \in Actors, Finalize(a) PROVE Cut(b)'
  BY <1>25, <1>0 DEF Finalize
<1>26. ASSUME NEW a \in Actors, DeleteInstance(a) PROVE Cut(b)'
  BY <1>26, <1>0 DEF DeleteInstance
<1>27. ASSUME DebugStop PROVE Cut(b)'
  BY <1>27, <1>0 DEF DebugStop
<1>28. ASSUME DebugRelease PROVE Cut(b)'
  BY <1>28, <1>0 DEF DebugRelease
<1>29. ASSUME RequestExit PROVE Cut(b)'
  BY <1>29, <1>0 DEF RequestExit
<1>30. ASSUME NEW j \in Joiners, NEW a \in Actors, LockJoin(j, a) PROVE Cut(b)'
  BY <1>30, <1>0 DEF LockJoin
<1>31. ASSUME NEW j \in Joiners, NEW a \in Actors, SignalQuit(j, a) PROVE Cut(b)'
  BY <1>31, <1>0 DEF SignalQuit
<1>32. ASSUME NEW j \in Joiners, NEW a \in Actors, Joined(j, a) PROVE Cut(b)'
  BY <1>32, <1>0 DEF Joined
<1>33. ASSUME NEW j \in Joiners, NEW a \in Actors, ResetThread(j, a) PROVE Cut(b)'
  BY <1>33, <1>0 DEF ResetThread
<1>34. ASSUME NEW j \in Joiners, NEW a \in Actors, JoinAll(j, a) PROVE Cut(b)'
  BY <1>34, <1>0 DEF JoinAll
<1>35. ASSUME UNCHANGED vars PROVE Cut(b)'
  BY <1>35, <1>0
<1> HIDE DEF WorkOK, Cut, waitVars, lists, workVars, envVars, joinVars, vars, At, Finish, Fail, Go,
    Worker, JoinGo, Notified, MutexFree, Dispatching
<1> QED
  BY LifecycleJoins, <1>1, <1>2, <1>3, <1>4, <1>5, <1>6, <1>7, <1>8, <1>9, <1>10, <1>11, <1>12,
      <1>13, <1>14, <1>15, <1>16, <1>17, <1>18, <1>19, <1>20, <1>21, <1>22, <1>23, <1>24, <1>25,
      <1>26, <1>27, <1>28, <1>29, <1>30, <1>31, <1>32, <1>33, <1>34, <1>35 DEF Next, WaitNext,
      CallStep, WorkerStep, JoinStep, Finalizer

(* What becomes of the instance of actor b in a step: while it lives the
   lifecycle thread has not come for it, and it dies only when collected. *)
InstMove(b) ==
  /\ inst'[b] = "live" => jpc'[Lifecycle][b] = "idle"
  /\ (inst[b] = "live" /\ inst'[b] # "live") => Collect(b)
(* An instance dies when it is collected. *)
LEMMA InstStep ==
  ASSUME ProgOK, WorkOK, NEW b \in Actors, inst[b] = "live" => jpc[Lifecycle][b] = "idle",
      [Next]_vars
  PROVE  InstMove(b)
<1> USE DEF InstMove, WorkOK, waitVars, lists, workVars, envVars, joinVars, vars, At, Finish, Fail,
    Go, Worker, JoinGo, Notified, MutexFree, Dispatching
<1>0. Lifecycle \in Joiners
  BY LifecycleJoins
<1>1. ASSUME NEW t \in Threads, ThreadStep(t) \/ Timeout(t), UNCHANGED <<world, workVars, envVars,
    joinVars>> PROVE InstMove(b)
  BY <1>1
<1>2. ASSUME NEW p \in Procs, Deliver(p), UNCHANGED <<world, workVars, envVars,
    joinVars>> PROVE InstMove(b)
  BY <1>2
<1>3. ASSUME NEW t \in Threads, QueueCall(t) PROVE InstMove(b)
  BY <1>3, <1>0 DEF QueueCall
<1>4. ASSUME NEW t \in Threads, Push(t) PROVE InstMove(b)
  BY <1>4, <1>0 DEF Push
<1>5. ASSUME NEW t \in Threads, NotifyQueue(t) PROVE InstMove(b)
  BY <1>5, <1>0 DEF NotifyQueue
<1>6. ASSUME NEW t \in Threads, MarshalThrows(t) PROVE InstMove(b)
  BY <1>6, <1>0 DEF MarshalThrows
<1>7. ASSUME NEW a \in Actors, Poll(a) PROVE InstMove(b)
  BY <1>7, <1>0 DEF Poll
<1>8. ASSUME NEW a \in Actors, Check(a) PROVE InstMove(b)
  BY <1>8, <1>0 DEF Check
<1>9. ASSUME NEW a \in Actors, Block(a) PROVE InstMove(b)
  BY <1>9, <1>0 DEF Block
<1>10. ASSUME NEW a \in Actors, ActorPark(a) PROVE InstMove(b)
  BY <1>10, <1>0 DEF ActorPark
<1>11. ASSUME NEW a \in Actors, ActorResume(a) PROVE InstMove(b)
  BY <1>11, <1>0 DEF ActorResume
<1>12. ASSUME NEW a \in Actors, DispatchQuits(a) PROVE InstMove(b)
  BY <1>12, <1>0 DEF DispatchQuits
<1>13. ASSUME NEW a \in Actors, Dispatch(a) PROVE InstMove(b)
  BY <1>13, <1>0 DEF Dispatch
<1>14. ASSUME NEW a \in Actors, HandlerFails(a) PROVE InstMove(b)
  BY <1>14, <1>0 DEF HandlerFails
<1>15. ASSUME NEW a \in Actors, RunCall(a) PROVE InstMove(b)
  BY <1>15, <1>0 DEF RunCall
<1>16. ASSUME NEW a \in Actors, RunFails(a) PROVE InstMove(b)
  BY <1>16, <1>0 DEF RunFails
<1>17. ASSUME NEW a \in Actors, RunThrows(a) PROVE InstMove(b)
  BY <1>17, <1>0 DEF RunThrows
<1>18. ASSUME NEW a \in Actors, CloseQueue(a) PROVE InstMove(b)
  BY <1>18, <1>0 DEF CloseQueue
<1>19. ASSUME NEW a \in Actors, DrainOne(a) PROVE InstMove(b)
  BY <1>19, <1>0 DEF DrainOne
<1>20. ASSUME NEW a \in Actors, EndWorker(a) PROVE InstMove(b)
  BY <1>20, <1>0 DEF EndWorker
<1>21. ASSUME NEW a \in Actors, GcWake(a) PROVE InstMove(b)
  BY <1>21, <1>0 DEF GcWake
<1>22. ASSUME NEW a \in Actors, Emit(a) PROVE InstMove(b)
  BY <1>22, <1>0 DEF Emit
<1>23. ASSUME NEW a \in Actors, WakeActor(a) PROVE InstMove(b)
  BY <1>23, <1>0 DEF WakeActor
<1>24. ASSUME NEW a \in Actors, Collect(a) PROVE InstMove(b)
  <2>1. CASE a = b
    BY <1>24, <2>1 DEF Collect
  <2>2. CASE a # b
    BY <1>24, <2>2 DEF Collect
  <2> QED
    BY <2>1, <2>2
<1>25. ASSUME NEW a \in Actors, Finalize(a) PROVE InstMove(b)
  BY <1>25, <1>0 DEF Finalize
<1>26. ASSUME NEW a \in Actors, DeleteInstance(a) PROVE InstMove(b)
  BY <1>26, <1>0 DEF DeleteInstance
<1>27. ASSUME DebugStop PROVE InstMove(b)
  BY <1>27, <1>0 DEF DebugStop
<1>28. ASSUME DebugRelease PROVE InstMove(b)
  BY <1>28, <1>0 DEF DebugRelease
<1>29. ASSUME RequestExit PROVE InstMove(b)
  BY <1>29, <1>0 DEF RequestExit
<1>30. ASSUME NEW j \in Joiners, NEW a \in Actors, LockJoin(j, a) PROVE InstMove(b)
  BY <1>30, <1>0 DEF LockJoin
<1>31. ASSUME NEW j \in Joiners, NEW a \in Actors, SignalQuit(j, a) PROVE InstMove(b)
  BY <1>31, <1>0 DEF SignalQuit
<1>32. ASSUME NEW j \in Joiners, NEW a \in Actors, Joined(j, a) PROVE InstMove(b)
  BY <1>32, <1>0 DEF Joined
<1>33. ASSUME NEW j \in Joiners, NEW a \in Actors, ResetThread(j, a) PROVE InstMove(b)
  BY <1>33, <1>0 DEF ResetThread
<1>34. ASSUME NEW j \in Joiners, NEW a \in Actors, JoinAll(j, a) PROVE InstMove(b)
  BY <1>34, <1>0 DEF JoinAll
<1>35. ASSUME UNCHANGED vars PROVE InstMove(b)
  BY <1>35, <1>0
<1> HIDE DEF InstMove, WorkOK, waitVars, lists, workVars, envVars, joinVars, vars, At, Finish,
    Fail, Go, Worker, JoinGo, Notified, MutexFree, Dispatching
<1> QED
  BY LifecycleJoins, <1>1, <1>2, <1>3, <1>4, <1>5, <1>6, <1>7, <1>8, <1>9, <1>10, <1>11, <1>12,
      <1>13, <1>14, <1>15, <1>16, <1>17, <1>18, <1>19, <1>20, <1>21, <1>22, <1>23, <1>24, <1>25,
      <1>26, <1>27, <1>28, <1>29, <1>30, <1>31, <1>32, <1>33, <1>34, <1>35 DEF Next, WaitNext,
      CallStep, WorkerStep, JoinStep, Finalizer

(* Who does not refer to an actor does not begin to. *)
LEMMA RefersKept ==
  ASSUME ProgOK, \A t \in Threads : Inside(t), TaskInv, [Next]_vars, NEW b \in Actors,
         NEW u \in Threads, ~Refers(u, b)
  PROVE  ~Refers(u, b)'
<1>0. prog \in Programs /\ prog \in [Threads -> Seq(Operations)] /\ world' = world
  BY Moves DEF ProgOK, Programs
<1>1. \A i \in DOMAIN prog'[u] : \E j \in DOMAIN prog[u] : prog'[u][i] = prog[u][j]
  <2>1. ASSUME NEW t \in Threads, TStep(t)
        PROVE  \A i \in DOMAIN prog'[u] : \E j \in DOMAIN prog[u] : prog'[u][i] = prog[u][j]
    <3>1. CASE prog' = prog
      BY <3>1
    <3>2. CASE /\ prog[t] # <<>>
               /\ prog' = [prog EXCEPT ![t] = Tail(@)] \/ prog' = [prog EXCEPT ![t] = <<>>]
      BY <1>0, <3>2, Earlier, ZenonT(120)
    <3> QED
      BY <2>1, <3>1, <3>2, ThreadMove
  <2>2. prog' = prog => \A i \in DOMAIN prog'[u] : \E j \in DOMAIN prog[u] : prog'[u][i] = prog[u][j]
    OBVIOUS
  <2> QED
    BY <2>1, <2>2, Moves, DeliverMove, WorkerMove DEF Quiet
<1> QED
  BY <1>0, <1>1 DEF Refers, Target

(* An instance nobody refers to is given no call. *)
LEMMA LostStep ==
  ASSUME ProgOK, \A t \in Threads : Inside(t), WorkOK, TaskInv, [Next]_vars, NEW b \in Actors,
         Ending(b)
  PROVE  Lost(b)'
<1> SUFFICES ASSUME inst'[b] # "live"
             PROVE  queue'[b] = <<>> /\ cur'[b] = NoCall /\ \A t \in Threads : ~Refers(t, b)'
  BY DEF Lost
<1>1. CASE inst[b] = "live"
  <2>1. Collect(b)
    BY <1>1, EndingParts, InstStep DEF InstMove
  <2>2. queue'[b] = <<>> /\ cur'[b] = NoCall /\ \A t \in Threads : ~Refers(t, b)
    BY <2>1 DEF Collect, WorkOK
  <2> QED
    BY <2>2, RefersKept
<1>2. CASE inst[b] # "live"
  <2>1. queue[b] = <<>> /\ cur[b] = NoCall /\ \A t \in Threads : ~Refers(t, b)
    BY <1>2, EndingParts DEF Lost
  <2>2. ASSUME NEW t \in Threads, Pushed(t, b) PROVE FALSE
    <3>1. prog[t] # <<>> /\ Op(t).op = "call"
      BY <2>2 DEF Pushed, Push, At
    <3>2. prog[t][1] = Op(t) /\ 1 \in DOMAIN prog[t]
      BY <3>1, OpType DEF ProgOK
    <3>3. Target(Op(t).c) = b
      BY <2>2 DEF Pushed
    <3>4. Refers(t, b)
      BY <3>1, <3>2, <3>3 DEF Refers
    <3> QED
      BY <2>1, <3>4
  <2>3. queue'[b] = <<>>
    BY <2>1, <2>2, HoldStep DEF QueueStep
  <2>4. cur'[b] = NoCall
    BY <2>1, HoldStep DEF CurStep
  <2> QED
    BY <2>1, <2>3, <2>4, RefersKept
<1> QED
  BY <1>1, <1>2

(* Workers end as they should. *)
LEMMA EndStep ==
  ASSUME ProgOK, \A t \in Threads : Inside(t), WorkOK, TaskInv, EndInv, [Next]_vars
  PROVE  EndInv'
<1> SUFFICES ASSUME NEW b \in Actors PROVE Ending(b)'
  BY DEF EndInv
<1>1. /\ Ending(b) /\ Closed(b) /\ Over(b) /\ Cut(b) /\ Lost(b)
      /\ inst[b] = "live" => jpc[Lifecycle][b] = "idle"
  BY EndingParts DEF EndInv
<1>2. Closed(b)'
  BY <1>1, ClosedStep
<1>3. Over(b)'
  BY <1>1, OverStep
<1>4. Cut(b)'
  BY <1>1, CutStep
<1>5. Lost(b)'
  BY <1>1, LostStep
<1>6. inst'[b] = "live" => jpc'[Lifecycle][b] = "idle"
  BY <1>1, InstStep DEF InstMove
<1> QED
  BY <1>2, <1>3, <1>4, <1>5, <1>6 DEF Ending, Closed, Over, Cut, Lost

(* Promises are broken only by a program that goes down, or a precise
   collector. *)
LEMMA BrokenStep ==
  ASSUME ProgOK, \A t \in Threads : Inside(t), ListsOK, WorkOK, CallInv, CombInv, TaskInv,
      [Next]_vars,
         EndInv, BrokenOK
  PROVE  BrokenOK'
<1>0. world' = world /\ (down # "no" => down' # "no")
  BY Moves, DownStep
<1> SUFFICES ASSUME NEW c \in Calls, result'[c] = Broken, down' = "no", ~world.precise
             PROVE  FALSE
  BY <1>0 DEF BrokenOK
<1>1. result[c] # Broken
  BY <1>0 DEF BrokenOK
<1>2. ASSUME NEW a \in Actors, EndWorker(a), c = cur[a] PROVE FALSE
  <2>1. wpc[a] = "drain" /\ cur[a] # NoCall
    BY <1>2, ActorAssumption DEF EndWorker, Worker
  <2> QED
    BY <1>0, <2>1 DEF EndInv, Ending
<1>3. ASSUME NEW a \in Actors, Collect(a), c \in Range(queue[a]) PROVE FALSE
  <2>1. queue[a] # <<>>
    <3>1. DOMAIN <<>> = {}
      OBVIOUS
    <3> QED
      BY <1>3, <3>1 DEF Range
  <2>2. wpc[a] = "ended"
    BY <1>3, <2>1 DEF Collect
  <2> QED
    BY <1>0, <2>1, <2>2 DEF EndInv, Ending
<1>4. None # Broken /\ Absent # Broken
  BY Values
<1> QED
  BY <1>1, <1>2, <1>3, <1>4, CallResult

-----------------------------------------------------------------------------
(* The theorems *)

(* The inductive invariant. *)
Inv ==
  /\ ProgOK /\ (\A t \in Threads : Inside(t)) /\ ListsOK /\ WorkOK /\ CallInv /\ EndInv
  /\ BrokenOK /\ CombInv /\ SlotInv /\ TaskInv

(* It holds when a program starts. *)
LEMMA InvInit == Init => Inv
<1> SUFFICES ASSUME Init PROVE Inv
  OBVIOUS
<1> USE DEF Init, WaitInit
<1>1. ProgOK
  BY ActorAssumption DEF ProgOK, ThreadPC
<1>2. \A t \in Threads : Inside(t)
  BY DEF Inside
<1>3. ListsOK
  BY FS_EmptySet DEF ListsOK
<1>4. WorkOK
  BY LifecycleJoins DEF WorkOK, WorkerPC, JoinPC
<1>5. \A a \in Actors : queue[a] = <<>> /\ cur[a] = NoCall
  OBVIOUS
<1>6. \A c \in Calls : result[c] = Absent
  BY DEF Futures
<1>7. CallInv
  <2>1. DOMAIN <<>> = {}
    OBVIOUS
  <2>2. ASSUME NEW c \in Calls PROVE Free(c)
    BY <1>5, <2>1, ActorAssumption DEF Free
  <2>3. ASSUME NEW t \in Threads, NEW i \in DOMAIN prog[t] PROVE Made(t, i)
    <3>1. prog \in [Threads -> Seq(Operations)] /\ pc[t] = "ready"
      BY <1>1 DEF ProgOK, Programs
    <3>2. prog[t][i] \in Operations
      BY <3>1
    <3>3. prog[t][i].op = "call" => prog[t][i].c \in Calls
      BY <3>2 DEF Operations
    <3> HIDE DEF Init, WaitInit
    <3> QED
      BY <1>6, <2>2, <3>1, <3>3 DEF Made
  <2>4. ASSUME NEW a \in Actors PROVE Taken(a) /\ \A i \in DOMAIN queue[a] : Queued(a, i)
    <3>1. wpc[a] # "run"
      OBVIOUS
    <3> QED
      BY <1>5, <2>1, <3>1 DEF Taken
  <2>5. Absent \in Results
    BY DEF Results
  <2> HIDE DEF Init, WaitInit
  <2> QED
    BY <1>6, <2>3, <2>4, <2>5 DEF CallInv
<1>8. EndInv
  <2> SUFFICES ASSUME NEW a \in Actors PROVE Ending(a)
    BY DEF EndInv
  <2>1. CASE a \in world.actors
    BY <2>1, LifecycleJoins DEF Ending
  <2>2. CASE a \notin world.actors
    <3>1. ~alive[a] /\ wpc[a] = "ended" /\ queue[a] = <<>> /\ cur[a] = NoCall /\ inst[a] # "live"
      BY <2>2
    <3>2. ASSUME NEW t \in Threads, Refers(t, a) PROVE FALSE
      <4>1. PICK i \in DOMAIN prog[t] : prog[t][i].op = "call" /\ Target(prog[t][i].c) = a
        BY <3>2 DEF Refers
      <4>2. prog \in [Threads -> Seq(Operations)]
        BY <1>1 DEF ProgOK, Programs
      <4>3. prog[t][i] \in Operations
        BY <4>2
      <4>4. prog[t][i].c \in Calls
        BY <4>1, <4>3 DEF Operations
      <4>5. world.target \in [Calls -> world.actors]
        BY ActorAssumption
      <4> QED
        BY <2>2, <4>1, <4>4, <4>5 DEF Target
    <3> HIDE DEF Init, WaitInit
    <3> QED
      BY <3>1, <3>2 DEF Ending
  <2> QED
    BY <2>1, <2>2
<1>9. BrokenOK
  BY <1>6, Values DEF BrokenOK
<1>10. CombInv
  BY DEF CombInv, Gathered, Futures
<1>11. SlotInv
  BY DEF SlotInv
<1>12. TaskInv
  <2>1. todo \in [Procs -> Seq({})]
    OBVIOUS
  <2>2. TasksOK({})
    BY <2>1 DEF TasksOK
  <2> QED
    BY <2>2 DEF TaskInv
<1> HIDE DEF Init, WaitInit
<1> QED
  BY <1>1, <1>2, <1>3, <1>4, <1>7, <1>8, <1>9, <1>10, <1>11, <1>12 DEF Inv

(* Every step preserves it. *)
LEMMA InvNext == Inv /\ [Next]_vars => Inv'
<1> SUFFICES ASSUME Inv, [Next]_vars PROVE Inv'
  OBVIOUS
<1>0. /\ ProgOK /\ (\A t \in Threads : Inside(t)) /\ ListsOK /\ WorkOK /\ CallInv /\ EndInv
      /\ BrokenOK /\ CombInv /\ SlotInv /\ TaskInv
  BY DEF Inv
<1>1. ProgOK' /\ (\A t \in Threads : Inside(t)')
  BY <1>0, ProgStep, InsideStep
<1>2. ListsOK'
  BY <1>0, ListStep
<1>3. WorkOK'
  BY <1>0, WorkType
<1>4. CallInv'
  BY <1>0, CallsStep
<1>5. EndInv'
  BY <1>0, EndStep
<1>6. BrokenOK'
  BY <1>0, BrokenStep
<1>7. CombInv'
  BY <1>0, CombinatorStep
<1>8. SlotInv'
  BY <1>0, SlotStep
<1>9. TaskInv'
  BY <1>0, TaskStep
<1> QED
  BY <1>1, <1>2, <1>3, <1>4, <1>5, <1>6, <1>7, <1>8, <1>9 DEF Inv

(* The inductive invariant holds throughout every behaviour. *)
THEOREM InvHolds == Spec => []Inv
<1>1. Init => Inv
  BY InvInit
<1>2. Inv /\ [Next]_vars => Inv'
  BY InvNext
<1> QED
  BY <1>1, <1>2, PTL DEF Spec

(* Type correctness of futures, threads, queues, workers and joiners. *)
THEOREM TypeCorrect == Spec => []TypeOK
<1>1. Inv => TypeOK
  BY DEF Inv, TypeOK, ProgOK, ListsOK, WorkOK, CallInv, ThreadPC, WorkerPC, JoinPC
<1> QED
  BY <1>1, InvHolds, PTL

(* No call is left in the queue of a worker that has ended, however queueCall
   raced the worker's last critical section (Object.cpp queueCall, Thread.cpp
   act). *)
THEOREM NoStrandedHolds == Spec => []NoStranded
<1>1. Inv => NoStranded
  BY DEF Inv, EndInv, Ending, NoStranded
<1> QED
  BY <1>1, InvHolds, PTL

(* A promise is destroyed unfulfilled only when the program goes down, or by a
   precise collector (Thread.cpp act, ActorInstance::dropReferences). *)
THEOREM BrokenOnlyWhenDownHolds == Spec => []BrokenOnlyWhenDown
<1>1. Inv => BrokenOnlyWhenDown
  BY DEF Inv, BrokenOK, BrokenOnlyWhenDown
<1> QED
  BY <1>1, InvHolds, PTL

(* allof() and anyof() are fulfilled with what their inputs gave, whoever tells
   a combinator of them and in whatever order (ModuleSys.cpp wireCombinatorSlot,
   Object.cpp notifySlotReady). *)
THEOREM CombinatorRightHolds == Spec => []CombinatorRight
<1>1. Inv => CombinatorRight
  <2> SUFFICES ASSUME Inv, NEW t \in Threads, comb[t] # NoComb, result[t] # None
               PROVE  Right(t, result[t])
    BY DEF CombinatorRight, Right, Inputs
  <2> QED
    BY DEF Inv, CombInv, Gathered
<1> QED
  BY <1>1, InvHolds, PTL

=============================================================================
