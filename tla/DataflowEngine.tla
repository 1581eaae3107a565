--------------------------- MODULE DataflowEngine ---------------------------
(***************************************************************************)
(* The dataflow engine (dataflow/DataflowEngine.cpp): who evaluates which  *)
(* island, when, and under which lock.                                     *)
(*                                                                         *)
(* Threads: script, which sets event-driven sources and evaluates their    *)
(* island in place; dds, a thread with no VM context, which only queues    *)
(* its updates; engine, the actor thread that drains the queue and polls   *)
(* asynchronous nodes; and host, which drives the clocked island in slices *)
(* (tickFor).  m_evalMutex serialises evaluation, node by node; sources    *)
(* are written, and the network is rebuilt by the run loop, without it.    *)
(* Environment: the worker that resolves A's future, the debugger's gate,  *)
(* and the collector's request, which ends a host's slice at the next      *)
(* node.                                                                   *)
(*                                                                         *)
(* A world fixes the programs and the environment's budget (Worlds).       *)
(***************************************************************************)
EXTENDS DataflowNode, FiniteSets

CONSTANT Worlds, None

Retry == {"no", "waiting", "due"}

ASSUME NoneAssumption == None \notin [t : Nat, retry : Retry]

VARIABLES
    flow,     \* the network's data (DataflowNode)
    queue,    \* m_pendingEventUpdates: [s, t]
    batch,    \* m_drainingEventUpdates, coalesced
    polled,   \* m_asyncYields: the record of A, or None
    net,      \* m_networkModified, m_networkGeneration, the clocked island's
              \*   execution order, m_runStart, m_tickNumber
    tick,     \* m_yieldState, and the layout and start of the tick in hand
    gate,     \* debugGate closed
    gc,       \* a collection is requested
    mutex,    \* the holder of m_evalMutex, or None
    eval,     \* evaluateIsland in progress: time, index, functionsExecuted
    pc,       \* where each thread is
    stamp,    \* the time of a set in progress
    now,      \* TimePoint::currentTime
    prog,     \* what script and dds have left to do
    left,     \* the environment's remaining budget
    world

dataVars == <<flow, queue, batch, polled>>
envVars  == <<gate, gc, left>>
tickVars == <<net, tick>>
vars == <<dataVars, envVars, tickVars, mutex, eval, pc, stamp, now, prog, world>>

Threads == {"script", "dds", "engine", "host"}

EventOrder == <<"A", "B">>

NoEval == [t |-> 0, i |-> 1, ran |-> FALSE]

NoTick == [active |-> FALSE, func |-> "none", t |-> 0, gen |-> 0, i |-> 1, order |-> <<>>]

Go(p, l) == pc' = [pc EXCEPT ![p] = l]

Use(b) == left[b] > 0 /\ left' = [left EXCEPT ![b] = @ - 1]

-----------------------------------------------------------------------------
(* The network.                                                            *)

(* buildNetworkCacheData: the schedule restarts with the new layout.       *)
Rebuilt(n) == [n EXCEPT !.modified = FALSE, !.gen = @ + 1, !.runStart = 0,
                        !.tickNumber = 0, !.order = n.wanted]

buildIfModified(n) == IF n.modified THEN Rebuilt(n) ELSE n

(* nextPeriodOnPeriodBoundary: beyond every tick so far.                   *)
NextBoundary == Latest(flow.sig["c"]) + 1

Init ==
    /\ world \in Worlds
    /\ flow = [sig   |-> [s \in Signals |->
                             <<[t |-> 0, v |-> IF s \in {"a", "b"} THEN <<0, 0>> ELSE 0]>>],
               avail |-> [s \in Signals |-> 0],
               node  |-> [n \in Nodes |->
                             [prev |-> [s \in Inputs[n] |->
                                           IF s = "a" THEN <<0, 0>> ELSE 0],
                              yield |-> NoYield, reported |-> FALSE]],
               fut   |-> "none"]
    /\ queue = <<>> /\ batch = <<>> /\ polled = None
    /\ net = [modified |-> FALSE, gen |-> 0, order |-> <<"C", "P", "Q">>,
              wanted |-> <<"C", "P", "Q">>, runStart |-> 0, tickNumber |-> 0]
    /\ tick = NoTick
    /\ gate = FALSE /\ gc = FALSE /\ mutex = None /\ eval = NoEval
    /\ pc = [p \in Threads |-> "idle"]
    /\ stamp = [p \in {"script", "dds"} |-> 0]
    /\ now = 0
    /\ prog = [script |-> world.script, dds |-> world.dds]
    /\ left = world.left

-----------------------------------------------------------------------------
(* Setting an event-driven source: Signal::set, setValueAt, publishSample. *)

(* The clock is read first, and the sample stored after.                   *)
SetStamp(p) ==
    /\ pc[p] = "idle" /\ prog[p] # <<>> /\ Head(prog[p]).op = "set"
    /\ now' = now + 1
    /\ stamp' = [stamp EXCEPT ![p] = now + 1]
    /\ Go(p, "store")
    /\ UNCHANGED <<dataVars, envVars, tickVars, mutex, eval, prog, world>>

SetStore(p) ==
    /\ pc[p] = "store"
    /\ LET s == Head(prog[p]).s
       IN flow' = Available([flow EXCEPT !.sig[s] = setValueAt(@, stamp[p], Head(prog[p]).v)],
                            s, stamp[p])
    /\ Go(p, "update")
    /\ UNCHANGED <<queue, batch, polled, envVars, tickVars, mutex, eval, stamp, now,
                   prog, world>>

Update(p) == [s |-> Head(prog[p]).s, t |-> stamp[p]]

(* processEventDrivenSignalUpdate: queued by a thread that may not evaluate,
   and by one the debugger's gate turns away.                              *)
UpdateQueue(p) ==
    /\ pc[p] = "update"
    /\ p = "dds" \/ gate
    /\ queue' = Append(queue, Update(p))
    /\ prog' = [prog EXCEPT ![p] = Tail(@)]
    /\ Go(p, "idle")
    /\ UNCHANGED <<flow, batch, polled, envVars, tickVars, mutex, eval, stamp, now, world>>

(* Otherwise evaluated in place, under m_evalMutex.                        *)
Evaluating(p, t, i) ==
    /\ mutex = None
    /\ mutex' = p
    /\ net' = buildIfModified(net)
    /\ eval' = [t |-> t, i |-> i, ran |-> FALSE]

(* The gate is asked before the lock is waited for.                        *)
UpdateAdmit ==
    /\ pc["script"] = "update" /\ ~gate
    /\ Go("script", "lock")
    /\ UNCHANGED <<dataVars, envVars, tickVars, mutex, eval, stamp, now, prog, world>>

UpdateInPlace ==
    /\ pc["script"] = "lock"
    /\ Evaluating("script", stamp["script"], 1)
    /\ prog' = [prog EXCEPT !["script"] = Tail(@)]
    /\ Go("script", "eval")
    /\ UNCHANGED <<dataVars, envVars, tick, stamp, now, world>>

(* Adding or dropping a node marks the network, and the next evaluator, or
   the run loop, rebuilds it; here initializeNode does, under the lock.    *)
NetworkChange ==
    /\ pc["script"] = "idle" /\ prog["script"] # <<>>
    /\ Head(prog["script"]).op \in {"add", "remove"}
    /\ net' = [net EXCEPT !.modified = TRUE,
                          !.wanted = IF Head(prog["script"]).op = "add"
                                     THEN <<"C", "P", "Q">> ELSE <<"P", "Q">>]
    /\ Go("script", IF Head(prog["script"]).op = "add" THEN "init" ELSE "idle")
    /\ prog' = [prog EXCEPT !["script"] = Tail(@)]
    /\ UNCHANGED <<dataVars, envVars, tick, mutex, eval, stamp, now, world>>

InitializeNode ==
    /\ pc["script"] = "init"
    /\ mutex = None /\ ~gate
    /\ net' = buildIfModified(net)
    /\ Go("script", "idle")
    /\ UNCHANGED <<dataVars, envVars, tick, mutex, eval, stamp, now, prog, world>>

-----------------------------------------------------------------------------
(* evaluateIsland on the event-driven island, by script or engine.         *)

(* A body that threw is reported here: nothing above may catch it.         *)
Settle(x, n) == IF x.res = "Thrown" THEN reportBodyFailure(x.flow, n) ELSE x

(* noteAsyncYield.                                                         *)
Noted(f, t) == [t |-> IF polled = None THEN t ELSE f.node["A"].yield.at, retry |-> "no"]

EvalNode(p) ==
    /\ pc[p] = "eval" /\ mutex = p /\ eval.i <= Len(EventOrder)
    /\ LET n == EventOrder[eval.i]
           x == Settle(conditionallyExecute(flow, n, eval.t, world.async, 0), n)
           skip == [eval EXCEPT !.i = @ + 1]
       IN \/ /\ ~inputsAvailableAt(flow, n, eval.t)
             /\ eval' = skip
             /\ UNCHANGED <<flow, polled>>
          \/ /\ inputsAvailableAt(flow, n, eval.t)
             /\ x.res = "Error"
             /\ flow' = x.flow
             /\ eval' = [eval EXCEPT !.i = Len(EventOrder) + 1, !.ran = FALSE]
             /\ UNCHANGED polled
          \/ /\ inputsAvailableAt(flow, n, eval.t)
             /\ x.res = "NotExecuted"
             /\ flow' = x.flow
             /\ eval' = skip
             /\ UNCHANGED polled
          \/ /\ inputsAvailableAt(flow, n, eval.t)
             /\ x.res = "Completed"
             /\ flow' = Available(x.flow, Output[n], eval.t)
             /\ eval' = [skip EXCEPT !.ran = TRUE]
             /\ UNCHANGED polled
          \/ /\ inputsAvailableAt(flow, n, eval.t)
             /\ x.res = "Yielded"
             /\ flow' = Available(x.flow, Output[n], eval.t)
             /\ eval' = skip
             /\ polled' = Noted(x.flow, eval.t)
    /\ UNCHANGED <<queue, batch, envVars, tickVars, mutex, pc, stamp, now, prog, world>>

(* Another pass while a node ran in this one.                              *)
EvalDone(p) ==
    /\ pc[p] = "eval" /\ mutex = p /\ eval.i > Len(EventOrder)
    /\ \/ /\ eval.ran
          /\ eval' = [eval EXCEPT !.i = 1, !.ran = FALSE]
          /\ UNCHANGED <<mutex, pc>>
       \/ /\ ~eval.ran
          /\ eval' = NoEval
          /\ mutex' = None
          /\ Go(p, IF p = "script" THEN "idle" ELSE IF batch # <<>> THEN "drain" ELSE "poll")
    /\ UNCHANGED <<dataVars, envVars, tickVars, stamp, now, prog, world>>

-----------------------------------------------------------------------------
(* The run loop, host-driven branch.                                       *)

(* The rebuild at the loop's head takes no m_evalMutex.                    *)
EngineRebuild ==
    /\ pc["engine"] = "idle" /\ net.modified
    /\ net' = [Rebuilt(net) EXCEPT !.runStart = NextBoundary]
    /\ UNCHANGED <<dataVars, envVars, tick, mutex, eval, pc, stamp, now, prog, world>>

(* processPendingEventUpdates: the newest time per signal, in the order the
   signals first appear.                                                   *)
Coalesced(q) ==
    LET first == SelectSeq([k \in DOMAIN q |-> k],
                           LAMBDA k : \A j \in 1..(k - 1) : q[j].s # q[k].s)
        newest(s) == CHOOSE u \in Range(q) :
                        u.s = s /\ \A v \in Range(q) : v.s = s => v.t <= u.t
    IN [k \in DOMAIN first |-> newest(q[first[k]].s)]

EngineDrain ==
    /\ pc["engine"] = "idle" /\ ~net.modified
    /\ queue # <<>> \/ polled # None
    /\ batch' = Coalesced(queue)
    /\ queue' = <<>>
    /\ Go("engine", IF queue = <<>> THEN "poll" ELSE "drain")
    /\ UNCHANGED <<flow, polled, envVars, tickVars, mutex, eval, stamp, now, prog, world>>

EngineAdmit ==
    /\ pc["engine"] = "drain" /\ ~gate
    /\ Go("engine", "lock")
    /\ UNCHANGED <<dataVars, envVars, tickVars, mutex, eval, stamp, now, prog, world>>

EngineUpdate ==
    /\ pc["engine"] = "lock"
    /\ Evaluating("engine", Head(batch).t, 1)
    /\ batch' = Tail(batch)
    /\ Go("engine", "eval")
    /\ UNCHANGED <<flow, queue, polled, envVars, tick, stamp, now, prog, world>>

(* Seeded fault: a requeued update stays in the batch as well.             *)
EngineRequeue_Keep ==
    /\ pc["engine"] = "drain"
    /\ gate
    /\ queue' = Append(queue, Head(batch))
    /\ UNCHANGED <<flow, batch, polled, envVars, tickVars, mutex, eval, pc, stamp, now, prog, world>>

(* The gate is closed: back to the queue, for the drain after the stop.    *)
EngineRequeue ==
    /\ pc["engine"] = "drain"
    /\ gate
    /\ queue' = Append(queue, Head(batch))
    /\ batch' = Tail(batch)
    /\ Go("engine", IF Tail(batch) = <<>> THEN "poll" ELSE "drain")
    /\ UNCHANGED <<flow, polled, envVars, tickVars, mutex, eval, stamp, now, prog, world>>

(* serviceAsyncYields: nothing listed, or turned away by the gate.         *)
EnginePoll ==
    /\ pc["engine"] = "poll"
    /\ Go("engine", IF polled = None \/ gate THEN "idle" ELSE "service")
    /\ UNCHANGED <<dataVars, envVars, tickVars, mutex, eval, stamp, now, prog, world>>

Polling ==
    /\ pc["engine"] = "service" /\ mutex = None
    /\ net' = buildIfModified(net)

(* Still in flight, or held and its retry not due.                         *)
EngineLater ==
    /\ Polling
    /\ \/ polled.retry = "waiting"
       \/ polled.retry = "no" /\ hasPendingFutureYield(flow, "A") /\ flow.fut = "pending"
    /\ Go("engine", "idle")
    /\ UNCHANGED <<dataVars, envVars, tick, mutex, eval, stamp, now, prog, world>>

(* A held node's retry has come due: evaluated afresh.                     *)
EngineRetry ==
    /\ Polling /\ polled.retry = "due"
    /\ now' = now + 1
    /\ LET x == Settle(conditionallyExecute(flow, "A", now + 1, world.async, 0), "A")
       IN /\ flow' = x.flow
          /\ polled' = IF hasPendingFutureYield(x.flow, "A")
                       THEN [t |-> x.flow.node["A"].yield.at, retry |-> "no"] ELSE None
    /\ Go("engine", "idle")
    /\ UNCHANGED <<queue, batch, envVars, tick, mutex, eval, stamp, prog, world>>

(* Delivered elsewhere, by an event's evaluation.                          *)
EngineForget ==
    /\ Polling /\ polled.retry = "no"
    /\ ~hasPendingFutureYield(flow, "A")
    /\ polled' = None
    /\ Go("engine", "idle")
    /\ UNCHANGED <<flow, queue, batch, envVars, tick, mutex, eval, stamp, now, prog, world>>

EngineResume ==
    /\ Polling /\ polled.retry = "no"
    /\ hasPendingFutureYield(flow, "A") /\ flow.fut # "pending"
    /\ LET x == Settle(resumeExecution(flow, "A"), "A")
           y == x.flow.node["A"].yield
           again == [t |-> y.at, retry |-> "no"]
           pending == hasPendingFutureYield(x.flow, "A")
       IN \/ /\ x.res = "Completed"
             /\ flow' = Available(x.flow, "a", polled.t)
             /\ polled' = IF pending THEN again ELSE None
             /\ mutex' = "engine"
             /\ eval' = [t |-> polled.t, i |-> 2, ran |-> FALSE]
             /\ Go("engine", "eval")
          \/ /\ x.res = "Held"
             /\ flow' = x.flow
             /\ polled' = IF pending THEN again ELSE [t |-> now, retry |-> "waiting"]
             /\ Go("engine", "idle")
             /\ UNCHANGED <<mutex, eval>>
          \/ /\ x.res \in {"Error", "NotExecuted"}
             /\ flow' = x.flow
             /\ polled' = None
             /\ Go("engine", "idle")
             /\ UNCHANGED <<mutex, eval>>
    /\ UNCHANGED <<queue, batch, envVars, tick, stamp, now, prog, world>>

-----------------------------------------------------------------------------
(* tickFor: the host drives the clocked island in slices.                  *)

(* Seeded fault: a suspended tick is resumed on whatever network there is. *)
yieldedTickStale_Never == FALSE

yieldedTickStale == net.modified \/ net.gen # tick.gen

(* abandonYieldedTick: the body suspended in the tick goes with it.        *)
Abandon ==
    /\ tick' = NoTick
    /\ flow' = IF tick.func = "none" THEN flow
               ELSE [flow EXCEPT !.node[tick.func].yield = NoYield]

Release == mutex' = None /\ Go("host", "idle")

(* Admitted and not Busy; a suspended tick of another network restarts.    *)
HostAdmit ==
    /\ pc["host"] = "idle" /\ left.ticks > 0
    /\ ~gate /\ mutex = None
    /\ mutex' = "host"
    /\ \/ /\ tick.active /\ yieldedTickStale
          /\ Abandon
          /\ Go("host", "start")
       \/ /\ ~(tick.active /\ yieldedTickStale)
          /\ Go("host", IF tick.active THEN "resume" ELSE "start")
          /\ UNCHANGED <<flow, tick>>
    /\ UNCHANGED <<queue, batch, polled, envVars, net, eval, stamp, now, prog, world>>

(* A fresh tick: the schedule, and the clock's next sample.                *)
HostStart ==
    /\ pc["host"] = "start"
    /\ LET built == buildIfModified(net)
           m == [built EXCEPT !.runStart = IF @ = 0 THEN NextBoundary ELSE @]
           t == m.runStart + m.tickNumber
       IN /\ net' = m
          /\ tick' = [NoTick EXCEPT !.t = t]
          /\ flow' = Available([flow EXCEPT !.sig["c"] = setValueAt(@, t, LastValue(@) + 1)],
                               "c", t)
    /\ Go("host", "copy")
    /\ UNCHANGED <<queue, batch, polled, envVars, mutex, eval, stamp, now, prog, world>>

HostCopy ==
    /\ pc["host"] = "copy"
    /\ tick' = [tick EXCEPT !.order = net.order, !.gen = net.gen]
    /\ eval' = [t |-> tick.t, i |-> 1, ran |-> FALSE]
    /\ Go("host", "tick")
    /\ UNCHANGED <<dataVars, envVars, net, mutex, stamp, now, prog, world>>

(* evaluateIsland under a deadline.  The slice ends at the next node when a
   collection is requested, or inside a body at the deadline; a body that
   raises ends the tick, and settleHostTick discards it.                   *)
HostYield ==
    /\ pc["host"] = "tick" /\ eval.i <= Len(tick.order) /\ gc
    /\ tick' = [tick EXCEPT !.active = TRUE, !.func = "none", !.i = eval.i]
    /\ eval' = NoEval
    /\ Release
    /\ UNCHANGED <<dataVars, envVars, net, stamp, now, prog, world>>

HostNode ==
    /\ pc["host"] = "tick" /\ eval.i <= Len(tick.order) /\ ~gc
    /\ \E slices \in {0, world.slices, Raises} :
         LET n == tick.order[eval.i]
             x == conditionallyExecute(flow, n, eval.t, FALSE, slices)
             skip == [eval EXCEPT !.i = @ + 1]
         IN \/ /\ slices = 0
               /\ ~inputsAvailableAt(flow, n, eval.t) \/ x.res = "NotExecuted"
               /\ eval' = skip
               /\ UNCHANGED <<flow, tick, mutex, pc, left>>
            \/ /\ inputsAvailableAt(flow, n, eval.t)
               /\ x.res = "Completed"
               /\ flow' = Available(x.flow, Output[n], eval.t)
               /\ eval' = [skip EXCEPT !.ran = TRUE]
               /\ UNCHANGED <<tick, mutex, pc, left>>
            \/ /\ inputsAvailableAt(flow, n, eval.t)
               /\ x.res = "Yielded"
               /\ flow' = x.flow
               /\ tick' = [tick EXCEPT !.active = TRUE, !.func = n, !.i = eval.i]
               /\ eval' = NoEval
               /\ Release
               /\ UNCHANGED left
            \/ /\ inputsAvailableAt(flow, n, eval.t)
               /\ x.res = "Error"
               /\ Use("errors")
               /\ flow' = x.flow
               /\ tick' = NoTick
               /\ eval' = NoEval
               /\ Release
    /\ UNCHANGED <<queue, batch, polled, gate, gc, net, stamp, now, prog, world>>

HostPass ==
    /\ pc["host"] = "tick" /\ eval.i > Len(tick.order)
    /\ \/ /\ eval.ran
          /\ eval' = [eval EXCEPT !.i = 1, !.ran = FALSE]
          /\ UNCHANGED <<tick, pc>>
       \/ /\ ~eval.ran
          /\ eval' = NoEval
          /\ tick' = [tick EXCEPT !.active = FALSE]
          /\ Go("host", "notify")
    /\ UNCHANGED <<dataVars, envVars, net, mutex, stamp, now, prog, world>>

(* invokeTickCallbacks, then the tick is counted.                          *)
HostDone ==
    /\ pc["host"] = "notify"
    /\ net' = [net EXCEPT !.tickNumber = @ + 1]
    /\ Use("ticks")
    /\ tick' = NoTick
    /\ Release
    /\ UNCHANGED <<dataVars, gate, gc, eval, stamp, now, prog, world>>

(* runHostTick with a suspended tick, Strict: the period has expired.      *)
HostOverrun ==
    /\ pc["host"] = "resume"
    /\ Use("overruns")
    /\ Abandon
    /\ Release
    /\ UNCHANGED <<queue, batch, polled, gate, gc, net, eval, stamp, now, prog, world>>

(* resumeTickEvaluation: checked again with the layout it copies.          *)
HostResumeStale ==
    /\ pc["host"] = "resume" /\ yieldedTickStale
    /\ Abandon
    /\ Release
    /\ UNCHANGED <<queue, batch, polled, envVars, net, eval, stamp, now, prog, world>>

HostResumeNext ==
    /\ pc["host"] = "resume" /\ ~yieldedTickStale /\ tick.func = "none"
    /\ tick' = [tick EXCEPT !.order = net.order]
    /\ eval' = [t |-> tick.t, i |-> tick.i, ran |-> FALSE]
    /\ Go("host", "tick")
    /\ UNCHANGED <<dataVars, envVars, net, mutex, stamp, now, prog, world>>

(* Seeded fault: a resumed body starts over.                               *)
HostResumeBody_Restart ==
    /\ pc["host"] = "resume" /\ ~yieldedTickStale /\ tick.func # "none"
    /\ flow' = [flow EXCEPT !.node[tick.func].yield.slices = world.slices - 1]
    /\ Release
    /\ UNCHANGED <<queue, batch, polled, envVars, net, tick, eval, stamp, now, prog, world>>

(* A suspended body goes on first: into its next deadline, or to its end.
   It does not run while a collection is requested.                        *)
HostResumeBody ==
    /\ pc["host"] = "resume" /\ ~yieldedTickStale /\ tick.func # "none"
    /\ LET n == tick.func
           y == flow.node[n].yield
           f == [flow EXCEPT !.node[n].yield = NoYield]
       IN \/ /\ gc \/ y.slices > 0
             /\ flow' = IF gc THEN flow ELSE [flow EXCEPT !.node[n].yield.slices = @ - 1]
             /\ Release
             /\ UNCHANGED <<tick, eval, left>>
          \/ /\ ~gc
             /\ Use("errors")
             /\ flow' = f
             /\ tick' = NoTick
             /\ Release
             /\ UNCHANGED eval
          \/ /\ ~gc /\ y.slices = 0
             /\ flow' = Available(finishEvaluation(f, n, y.at, y.ins, FALSE).flow,
                                  Output[n], tick.t)
             /\ tick' = [tick EXCEPT !.func = "none", !.order = net.order]
             /\ eval' = [t |-> tick.t, i |-> tick.i + 1, ran |-> FALSE]
             /\ Go("host", "tick")
             /\ UNCHANGED <<mutex, left>>
    /\ UNCHANGED <<queue, batch, polled, gate, gc, net, stamp, now, prog, world>>

-----------------------------------------------------------------------------
(* The environment.                                                        *)

(* The worker resolves A's future: a value, an UnavailableError, or another
   failure.                                                                *)
Resolve ==
    /\ flow.fut = "pending"
    /\ \/ flow' = [flow EXCEPT !.fut = "value"] /\ UNCHANGED left
       \/ flow' = [flow EXCEPT !.fut = "unavailable"] /\ Use("unavailable")
       \/ flow' = [flow EXCEPT !.fut = "fatal"] /\ Use("fatal")
    /\ UNCHANGED <<queue, batch, polled, gate, gc, tickVars, mutex, eval, pc, stamp, now,
                   prog, world>>

RetryDue ==
    /\ polled # None /\ polled.retry = "waiting"
    /\ polled' = [polled EXCEPT !.retry = "due"]
    /\ UNCHANGED <<flow, queue, batch, envVars, tickVars, mutex, eval, pc, stamp, now,
                   prog, world>>

GateClose ==
    /\ ~gate /\ Use("gates")
    /\ gate' = TRUE
    /\ UNCHANGED <<dataVars, gc, tickVars, mutex, eval, pc, stamp, now, prog, world>>

GateOpen ==
    /\ gate
    /\ gate' = FALSE
    /\ UNCHANGED <<dataVars, gc, left, tickVars, mutex, eval, pc, stamp, now, prog, world>>

CollectRequest ==
    /\ ~gc /\ Use("collections")
    /\ gc' = TRUE
    /\ UNCHANGED <<dataVars, gate, tickVars, mutex, eval, pc, stamp, now, prog, world>>

CollectDone ==
    /\ gc
    /\ gc' = FALSE
    /\ UNCHANGED <<dataVars, gate, left, tickVars, mutex, eval, pc, stamp, now, prog, world>>

-----------------------------------------------------------------------------
Script == \/ SetStamp("script") \/ SetStore("script") \/ UpdateQueue("script")
          \/ UpdateAdmit \/ UpdateInPlace \/ NetworkChange \/ InitializeNode
          \/ EvalNode("script") \/ EvalDone("script")

Dds == SetStamp("dds") \/ SetStore("dds") \/ UpdateQueue("dds")

Engine == \/ EngineRebuild \/ EngineDrain \/ EngineAdmit \/ EngineUpdate \/ EngineRequeue
          \/ EnginePoll \/ EngineLater \/ EngineRetry \/ EngineForget \/ EngineResume
          \/ EvalNode("engine") \/ EvalDone("engine")

Host == \/ HostAdmit \/ HostStart \/ HostCopy \/ HostYield \/ HostNode \/ HostPass
        \/ HostDone \/ HostOverrun \/ HostResumeStale \/ HostResumeNext \/ HostResumeBody

Next == \/ Script \/ Dds \/ Engine \/ Host
        \/ Resolve \/ RetryDue \/ GateClose \/ GateOpen \/ CollectRequest \/ CollectDone

Spec == Init /\ [][Next]_vars

(* Every thread keeps running (the engine's waits are timed), a future is
   resolved, time passes, and a stop and a collection end.                 *)
FairSpec == /\ Spec
            /\ WF_vars(Script) /\ WF_vars(Dds) /\ WF_vars(Engine) /\ WF_vars(Host)
            /\ WF_vars(Resolve) /\ WF_vars(RetryDue)
            /\ WF_vars(GateOpen) /\ WF_vars(CollectDone)

-----------------------------------------------------------------------------
(* The threads, the lock and the records of suspended work agree: m_evalMutex
   is held exactly by the thread that evaluates, a suspended body belongs to
   the suspended tick, a pending future to a polled node, and an update is
   in one place at a time.                                                 *)
TypeOK ==
    /\ \A s \in Signals : /\ flow.sig[s] # <<>>
                           /\ \A k \in 2..Len(flow.sig[s]) :
                                  flow.sig[s][k - 1].t < flow.sig[s][k].t
    /\ \A n \in Nodes : flow.node[n].yield.kind =
            IF n = tick.func /\ tick.active THEN "body"
            ELSE IF flow.fut # "none" /\ n = "A" THEN "future" ELSE "none"
    /\ mutex \in Threads \union {None}
    /\ \A p \in {"script", "engine"} : pc[p] = "eval" <=> mutex = p
    /\ pc["host"] # "idle" <=> mutex = "host"
    /\ Len(queue) + Len(batch) + Len(prog["script"]) + Len(prog["dds"])
            <= Len(world.script) + Len(world.dds)
    /\ flow.fut # "none" => polled # None \/ pc["engine"] = "service"
    /\ tick.active => tick.i \in 1..3

(* An event-driven node settles on its sources' latest values, with a future
   in flight, an evaluation held, an update queued behind a stop or a rebuild
   under way when they are set -- unless it stands reported as failed.

   This is claimed within limits that the worlds of Programs keep and outside
   which the program does not deliver (section 4 of the README): one producer
   sets the island, and does not retry between a stamp and its store; with A
   asynchronous no source returns to a value it had; with A synchronous the
   updates coalesced in one drain are in the order of their times; and of B
   it is claimed only when A is synchronous, for serviceAsyncYields finishes
   the island at the delivered time, which may be older than A's.          *)
Delivered ==
    LET latest == <<LastValue(flow.sig["s1"]), LastValue(flow.sig["s2"])>>
    IN <>[](\/ flow.node["A"].reported
            \/ /\ LastValue(flow.sig["a"]) = latest
               /\ world.async \/ LastValue(flow.sig["b"]) = latest)

(* Only a node whose body failed is reported, and fails its owner's run
   (reportBodyFailure, "a body failed outside the VM"): the evaluation that
   waited behind a pending future runs "on the current inputs", so it can
   always be made (resumeExecution).                                       *)
FailuresReal == \A n \in Nodes : flow.node[n].reported => world.left.fatal > left.fatal

(* The tick callbacks see one consistent tick, however it was sliced: every
   signal of the clocked island carries the clock's sample, at its time.   *)
TickCoherent ==
    pc["host"] = "notify" =>
        \A s \in {"p", "q"} : Last(flow.sig[s]) = Last(flow.sig["c"])

(* A suspended tick ends: resumed to completion, failed, or abandoned.     *)
TicksEnd == tick.active ~> ~tick.active
=============================================================================
