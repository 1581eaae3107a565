----------------------------- MODULE FutureWait -----------------------------
(***************************************************************************)
(* Futures, the threads that wait for them, and allof() / anyof().         *)
(*                                                                         *)
(* A future is a std::shared_future beside a FutureWaitList (Object.cpp).  *)
(* Fulfilling one is two steps: set_value, then wake, which takes the list *)
(* and, outside the list's mutex, wakes each thread and tells each         *)
(* combinator.  A waiting thread registers, tests again under its          *)
(* sleepMutex and sleeps at most 1 ms (VM.cpp waitForFuture, Value.cpp     *)
(* resolveFuture).  A combinator (ObjCombinator) is told of each input at  *)
(* most once by the thread that fulfilled it or by the one that builds it  *)
(* (ModuleSys.cpp wireCombinatorSlot), and fulfils a future of its own.    *)
(*                                                                         *)
(* A script thread runs a fixed program: a sequence of operations          *)
(*   call c          queue a call to an actor (see ActorCalls)             *)
(*   wait f          await a future                                        *)
(*   gather m, in    allof() or anyof() of futures                         *)
(* A thread gathers at most once, and its combinator's future has the      *)
(* thread's name.  Only futures are gathered: the event and signal slots   *)
(* of a combinator reach notifySlotReady from processPendingEvents.        *)
(***************************************************************************)
EXTENDS Integers, Sequences, FiniteSets, SequencesExt

CONSTANTS
  Threads,   \* threads that run scripts
  Workers,   \* threads that fulfil futures: the actors' workers
  Calls      \* actor calls; a call's future has the call's name

ASSUME NamesAssumption ==
  Threads \cap Workers = {} /\ Calls \cap Threads = {} /\ IsFiniteSet(Threads)

Futures == Calls \cup Threads
Procs == Threads \cup Workers

(* Programs.  A call is made at one place, and a thread gathers once. *)
Operations == [op : {"call"}, c : Calls] \cup [op : {"wait"}, f : Futures]
              \cup [op : {"gather"}, mode : {"all", "any"}, in : Seq(Futures) \ {<<>>}]

Apart(p, t, i, u, j) ==
  <<t, i>> # <<u, j>> =>
    /\ p[t][i].op = "call" /\ p[u][j].op = "call" => p[t][i].c # p[u][j].c
    /\ p[t][i].op = "gather" /\ p[u][j].op = "gather" => t # u

Programs ==
  {p \in [Threads -> Seq(Operations)] :
     \A t, u \in Threads : \A i \in DOMAIN p[t], j \in DOMAIN p[u] : Apart(p, t, i, u, j)}

(* What a future's shared state may hold. *)
Absent == <<"absent">>    \* there is no such future: the Value is nil
None   == <<"none">>      \* not ready
Nil    == <<"nil">>       \* fulfilled with nil
Broken == <<"broken">>    \* the promise was destroyed unfulfilled
Ok(c)  == <<"ok", c>>     \* what the call returned
Exc(c) == <<"exc", c>>    \* the exception it raised

Ready(v) == v \notin {Absent, None}
IsExc(v) == v[1] = "exc"

NoComb == [mode |-> "none"]

VARIABLES
  prog,            \* per thread the operations it still has to do
  pc,              \* per thread where it is in the first of them
  result,          \* per future its shared state
  threadWaiters,   \* per future the threads on its FutureWaitList
  slotWaiters,     \* per future the combinator slots on it
  todo,            \* per process the wakes it still has to deliver
  comb,            \* per thread the combinator it built, or NoComb
  down             \* "no", "exit" (requestExit) or "error" (runtimeError)

waitVars == <<prog, pc, result, threadWaiters, slotWaiters, todo, comb, down>>
lists == <<threadWaiters, slotWaiters>>

Op(t) == Head(prog[t])
At(t, where, op) ==
  /\ pc[t] = where
  /\ todo[t] = <<>>
  /\ prog[t] # <<>>
  /\ Op(t).op = op
  /\ down = "no" \/ where # "ready"   \* an execute() loop leaves first

WaitInit ==
  /\ pc = [t \in Threads |-> "ready"]
  /\ result = [f \in Futures |-> Absent]
  /\ threadWaiters = [f \in Futures |-> {}]
  /\ slotWaiters = [f \in Futures |-> {}]
  /\ todo = [p \in Procs |-> <<>>]
  /\ comb = [t \in Threads |-> NoComb]
  /\ down = "no"

Finish(t) == /\ prog' = [prog EXCEPT ![t] = Tail(@)]
             /\ pc' = [pc EXCEPT ![t] = "ready"]

(* runtimeError or a requested exit ends every execute() at the top of its *)
(* loop: the thread does nothing more of its program.                      *)
Leave(t) ==
  /\ down # "no" /\ pc[t] = "ready" /\ todo[t] = <<>> /\ prog[t] # <<>>
  /\ prog' = [prog EXCEPT ![t] = <<>>]
  /\ UNCHANGED <<pc, result, lists, todo, comb, down>>

Fail(t) == /\ prog' = [prog EXCEPT ![t] = <<>>]
           /\ pc' = [pc EXCEPT ![t] = "ready"]
           /\ down' = IF down = "no" THEN "error" ELSE down

----------------------------------------------------------------------------
(* Waiting. *)

WakeTask(f) == [k |-> "wake", f |-> f]
NotifyTask(t) == [k |-> "notify", t |-> t]
SlotTask(t, i, v) == [k |-> "slot", t |-> t, i |-> i, v |-> v]
OutTask(t, v) == [k |-> "out", t |-> t, v |-> v]

(* queueCall, allof or anyof has not returned f yet: nobody else has it. *)
Building(f) == \E u \in Threads :
  /\ prog[u] # <<>> /\ pc[u] # "ready"
  /\ Op(u) = [op |-> "call", c |-> f] \/ (Op(u).op = "gather" /\ u = f)

(* tryResolveFuture.  A nil is no future; a ready future gives its value   *)
(* (an exception is raised in the script, which may catch it); get() on a  *)
(* broken promise throws future_error, which execute() reports.            *)
TryResolve(t) ==
  /\ At(t, "ready", "wait") /\ ~Building(Op(t).f)
  /\ LET v == result[Op(t).f] IN
     \/ v = None /\ pc' = [pc EXCEPT ![t] = "register"] /\ UNCHANGED <<prog, down>>
     \/ v = Broken /\ Fail(t)
     \/ v \notin {None, Broken} /\ Finish(t) /\ UNCHANGED down
  /\ UNCHANGED <<result, lists, todo, comb>>

Register(t) ==
  /\ At(t, "register", "wait")
  /\ threadWaiters' = [threadWaiters EXCEPT ![Op(t).f] = @ \cup {t}]
  /\ pc' = [pc EXCEPT ![t] = "recheck"]
  /\ UNCHANGED <<prog, result, slotWaiters, todo, comb, down>>

(* The test and the sleep are one step: wake() notifies under sleepMutex. *)
Sleep(t) ==
  /\ At(t, "recheck", "wait")
  /\ pc' = [pc EXCEPT ![t] = IF Ready(result[Op(t).f]) THEN "ready" ELSE "asleep"]
  /\ UNCHANGED <<prog, result, lists, todo, comb, down>>

(* The 1 ms fallback of wait_for, and spurious wakes. *)
Timeout(t) ==
  /\ pc[t] = "asleep"
  /\ pc' = [pc EXCEPT ![t] = "ready"]
  /\ UNCHANGED <<prog, result, lists, todo, comb, down>>

----------------------------------------------------------------------------
(* Fulfilling. *)

HeadIs(p, kind) == todo[p] # <<>> /\ Head(todo[p]).k = kind

(* FutureWaitList::wake takes the whole list under its mutex. *)
TakeList(p) ==
  /\ HeadIs(p, "wake")
  /\ LET f == Head(todo[p]).f
         told == SetToSeq({NotifyTask(t) : t \in threadWaiters[f]})
         slots == SetToSeq({SlotTask(s[1], s[2], result[f]) : s \in slotWaiters[f]})
     IN /\ todo' = [todo EXCEPT ![p] = told \o slots \o Tail(@)]
        /\ threadWaiters' = [threadWaiters EXCEPT ![f] = {}]
        /\ slotWaiters' = [slotWaiters EXCEPT ![f] = {}]
  /\ UNCHANGED <<prog, pc, result, comb, down>>

(* Thread::wake: a notification finds the thread asleep or does nothing. *)
WakeThread(p) ==
  /\ HeadIs(p, "notify")
  /\ pc' = [pc EXCEPT ![Head(todo[p]).t] = IF @ = "asleep" THEN "ready" ELSE @]
  /\ todo' = [todo EXCEPT ![p] = Tail(@)]
  /\ UNCHANGED <<prog, result, lists, comb, down>>

(* Seeded fault: the slot is not tested, only counted. *)
AfterSlot_Twice(c, i, v) ==
  LET d == [c EXCEPT !.got[i] = v]
      left == Cardinality({j \in DOMAIN d.got : d.got[j] = None})
  IN IF IsExc(v) \/ c.mode = "any" \/ left = 0
     THEN [comb |-> [d EXCEPT !.fulfilled = TRUE],
           fires |-> IF IsExc(v) THEN v
                     ELSE IF c.mode = "any" THEN <<"any", i, v>> ELSE <<"all", d.got>>]
     ELSE [comb |-> d, fires |-> None]

(* The combinator c after input i is fulfilled with v; fires is what its   *)
(* own future is fulfilled with, if anything.                              *)
AfterSlot(c, i, v) ==
  LET d == [c EXCEPT !.got[i] = v]
      left == Cardinality({j \in DOMAIN d.got : d.got[j] = None})
  IN IF c.fulfilled \/ c.got[i] # None THEN [comb |-> c, fires |-> None]
     ELSE IF IsExc(v) THEN [comb |-> [d EXCEPT !.fulfilled = TRUE], fires |-> v]
     ELSE IF c.mode = "any" THEN [comb |-> [d EXCEPT !.fulfilled = TRUE],
                                  fires |-> <<"any", i, v>>]
     ELSE IF left = 0 THEN [comb |-> [d EXCEPT !.fulfilled = TRUE],
                            fires |-> <<"all", d.got>>]
     ELSE [comb |-> d, fires |-> None]

(* notifySlotReady decides under the combinator's mutex ... *)
NotifySlot(p) ==
  /\ HeadIs(p, "slot")
  /\ LET k == Head(todo[p])
         a == AfterSlot(comb[k.t], k.i, k.v)
     IN /\ comb' = [comb EXCEPT ![k.t] = a.comb]
        /\ todo' = [todo EXCEPT ![p] =
             (IF a.fires = None THEN <<>> ELSE <<OutTask(k.t, a.fires)>>) \o Tail(@)]
  /\ UNCHANGED <<prog, pc, result, lists, down>>

(* ... and fulfils its promise and wakes its waiters outside it. *)
FulfilOut(p) ==
  /\ HeadIs(p, "out")
  /\ LET k == Head(todo[p]) IN
     /\ result' = [result EXCEPT ![k.t] = k.v]
     /\ todo' = [todo EXCEPT ![p] = <<WakeTask(k.t)>> \o Tail(@)]
  /\ UNCHANGED <<prog, pc, lists, comb, down>>

----------------------------------------------------------------------------
(* allof() and anyof(). *)

(* Anything that is not awaitable makes the builtin throw. *)
Gather(t) ==
  /\ At(t, "ready", "gather")
  /\ \A i \in DOMAIN Op(t).in : ~Building(Op(t).in[i])
  /\ LET o == Op(t) IN
     IF \E i \in DOMAIN o.in : result[o.in[i]] = Absent
     THEN Finish(t) /\ UNCHANGED <<comb, result>>
     ELSE /\ comb' = [comb EXCEPT ![t] =
               [mode |-> o.mode, in |-> o.in, got |-> [i \in DOMAIN o.in |-> None],
                fulfilled |-> FALSE, wired |-> 0, raised |-> FALSE]]
          /\ result' = [result EXCEPT ![t] = None]
          /\ pc' = [pc EXCEPT ![t] = "wire"]
          /\ UNCHANGED prog
  /\ UNCHANGED <<lists, todo, down>>

WireSlot(t) ==
  /\ At(t, "wire", "gather")
  /\ LET i == comb[t].wired + 1 IN
     slotWaiters' = [slotWaiters EXCEPT ![comb[t].in[i]] = @ \cup {<<t, i>>}]
  /\ pc' = [pc EXCEPT ![t] = "probe"]
  /\ UNCHANGED <<prog, result, threadWaiters, todo, comb, down>>

(* Seeded fault: a future fulfilled before the slot was wired is not seen. *)
ProbeSlot_Never(t) ==
  /\ At(t, "probe", "gather")
  /\ LET i == comb[t].wired + 1
         last == i = Len(comb[t].in)
     IN /\ comb' = [comb EXCEPT ![t].wired = i]
        /\ prog' = IF last THEN [prog EXCEPT ![t] = Tail(@)] ELSE prog
        /\ pc' = [pc EXCEPT ![t] = IF last THEN "ready" ELSE "wire"]
  /\ UNCHANGED <<result, lists, todo, down>>

(* The synchronous test that follows: a pending future gets the thread as  *)
(* a waiter too; a value is delivered here; an exception is raised in the  *)
(* script and delivered by nobody, after which the script does not go on   *)
(* to wait for the combinator's future.                                    *)
ProbeSlot(t) ==
  /\ At(t, "probe", "gather")
  /\ LET i == comb[t].wired + 1
         f == comb[t].in[i]
         raised == comb[t].raised \/ IsExc(result[f])
         last == i = Len(comb[t].in)
     IN /\ \/ result[f] = Broken /\ Fail(t) /\ UNCHANGED comb
           \/ /\ result[f] # Broken
              /\ comb' = [comb EXCEPT ![t].wired = i, ![t].raised = raised]
              /\ prog' = IF ~last THEN prog
                         ELSE [prog EXCEPT ![t] = IF raised THEN <<>> ELSE Tail(@)]
              /\ pc' = [pc EXCEPT ![t] = IF last THEN "ready" ELSE "wire"]
              /\ UNCHANGED down
        /\ threadWaiters' = IF result[f] # None THEN threadWaiters
                            ELSE [threadWaiters EXCEPT ![f] = @ \cup {t}]
        /\ todo' = IF result[f] \in {None, Broken} \/ IsExc(result[f]) THEN todo
                   ELSE [todo EXCEPT ![t] = <<SlotTask(t, i, result[f])>>]
  /\ UNCHANGED <<result, slotWaiters>>

----------------------------------------------------------------------------
ThreadStep(t) ==
  \/ Leave(t) \/ TryResolve(t) \/ Register(t) \/ Sleep(t)
  \/ Gather(t) \/ WireSlot(t) \/ ProbeSlot(t)

Deliver(p) == TakeList(p) \/ WakeThread(p) \/ NotifySlot(p) \/ FulfilOut(p)

WaitNext ==
  \/ \E t \in Threads : ThreadStep(t) \/ Timeout(t)
  \/ \E p \in Procs : Deliver(p)

----------------------------------------------------------------------------
(* Properties. *)

(* allof() is fulfilled with the values of all its inputs, in their order, *)
(* anyof() with the value of one of them and its index, and either of them *)
(* with the exception of an input that failed.                             *)
CombinatorRight ==
  \A t \in Threads : comb[t] # NoComb /\ result[t] # None =>
    LET c == comb[t]
        r == [i \in DOMAIN c.in |-> result[c.in[i]]]
    IN \/ \E i \in DOMAIN r : IsExc(r[i]) /\ result[t] = r[i]
       \/ /\ c.mode = "all" /\ result[t] = <<"all", r>>
          /\ \A i \in DOMAIN r : Ready(r[i]) /\ ~IsExc(r[i])
       \/ c.mode = "any" /\ \E i \in DOMAIN r : Ready(r[i]) /\ result[t] = <<"any", i, r[i]>>

(* A combinator whose inputs are all fulfilled is fulfilled, whichever of  *)
(* them was fulfilled while it was being built.                            *)
CombinatorFires ==
  \A t \in Threads :
    (/\ comb[t] # NoComb /\ ~comb[t].raised /\ down = "no"
     /\ \A i \in DOMAIN comb[t].in : Ready(result[comb[t].in[i]]) /\ result[comb[t].in[i]] # Broken)
    ~> (result[t] # None \/ comb[t].raised \/ down # "no")
=============================================================================
