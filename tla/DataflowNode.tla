---------------------------- MODULE DataflowNode ----------------------------
(***************************************************************************)
(* The data of a dataflow network and what one node does with it           *)
(* (dataflow/Signal.cpp, dataflow/FuncNode.cpp).                           *)
(*                                                                         *)
(* A signal keeps a short history of time-stamped samples.  A node reads   *)
(* its inputs as they stood at an evaluation time, skips a body whose      *)
(* inputs are those of its last delivery, and publishes at that same time. *)
(* An asynchronous body returns a future: the node keeps it pending, is    *)
(* polled, and remembers the newest evaluation asked for meanwhile.  A     *)
(* script body on a host's tick may be suspended at its deadline.          *)
(*                                                                         *)
(* Two islands.  Event driven: s1, s2 -> A -> a -> B -> b, the sources set *)
(* by programs; A pairs its inputs.  Clocked: c -> C -> d and              *)
(* c -> P -> p -> Q -> q, each body the identity.  The operators here are  *)
(* pure: they map the network's data to an outcome, the data afterwards    *)
(* and a FuncExecResult.                                                   *)
(***************************************************************************)
EXTENDS Integers, Sequences, SequencesExt

Nodes == {"A", "B", "C", "P", "Q"}

Inputs == [A |-> {"s1", "s2"}, B |-> {"a"}, C |-> {"c"}, P |-> {"c"}, Q |-> {"p"}]

Output == [A |-> "a", B |-> "b", C |-> "d", P |-> "p", Q |-> "q"]

Signals == {"s1", "s2", "c"} \union {Output[n] : n \in Nodes}

Earlier(s, t) == IF s < t THEN s ELSE t

-----------------------------------------------------------------------------
(* Signals.                                                                *)

(* m_maxHistoryPeriods of a signal no input reads with a delay.            *)
MaxHistory == 2

Latest(h) == Last(h).t

LastValue(h) == Last(h).v

(* setValueAt: a sample newer than all others pushes the oldest out of a
   full history; any other is inserted, or replaces the one of its time.   *)
setValueAt(h, t, v) ==
    LET kept   == IF t > Latest(h) /\ Len(h) >= MaxHistory THEN Tail(h) ELSE h
        before == SelectSeq(kept, LAMBDA x : x.t < t)
        after  == SelectSeq(kept, LAMBDA x : x.t > t)
    IN before \o <<[t |-> t, v |-> v]>> \o after

(* valueAt throws when the history no longer reaches back to t.            *)
Known(h, t) == h[1].t <= t

valueAt(h, t) == Last(SelectSeq(h, LAMBDA x : x.t <= t)).v

-----------------------------------------------------------------------------
(* Nodes.  flow.sig holds the histories, flow.avail the latestAvailableTime
   of the input that consumes a signal, flow.node each node's
   previousInputValues (prev), m_funcYieldState (yield) and
   m_failureReported, and flow.fut the future of A's last body.            *)

NoYield == [kind |-> "none", at |-> 0, ins |-> <<>>, rerun |-> 0, slices |-> 0]

hasPendingFutureYield(f, n) == f.node[n].yield.kind = "future"

Out(f, res) == [flow |-> f, res |-> res]

inputsAvailableAt(f, n, t) ==
    \A s \in Inputs[n] :
        LET at == Earlier(t, Latest(f.sig[s]))
        IN f.avail[s] >= at /\ Known(f.sig[s], at)

Body(n, ins) == IF n = "A" THEN <<ins["s1"], ins["s2"]>>
                           ELSE ins[CHOOSE s \in Inputs[n] : TRUE]

(* updateSignalConsumerInputAvailability: assigned, not raised to t.       *)
Available(f, s, t) == [f EXCEPT !.avail[s] = t]

Publish(f, n, t, ins) ==
    Available([f EXCEPT !.sig[Output[n]] = setValueAt(@, t, Body(n, ins)),
                        !.node[n].prev = ins,
                        !.node[n].reported = FALSE], Output[n], t)

Suspend(f, n, kind, t, ins, slices) ==
    [f EXCEPT !.node[n].yield = [kind |-> kind, at |-> t, ins |-> ins,
                                 rerun |-> 0, slices |-> slices]]

(* An asynchronous body has handed back a future: nothing is published.    *)
finishEvaluation(f, n, t, ins, async) ==
    IF async /\ n = "A"
    THEN Out([Suspend(f, n, "future", t, ins, 0) EXCEPT !.fut = "pending"], "Yielded")
    ELSE Out(Publish(f, n, t, ins), "Completed")

(* What a body is about to do: run into that many deadlines, or raise.     *)
Raises == -1

(* The part of conditionallyExecute below the future check.                *)
Evaluate(f, n, t, async, slices) ==
    LET ins == [s \in Inputs[n] |-> valueAt(f.sig[s], Earlier(t, Latest(f.sig[s])))]
    IN IF \E s \in Inputs[n] : ~Known(f.sig[s], Earlier(t, Latest(f.sig[s])))
       THEN Out(f, "Thrown")
       ELSE IF ins = f.node[n].prev
       THEN Out(f, "NotExecuted")
       ELSE IF slices = Raises
       THEN Out(f, "Error")
       ELSE IF slices > 0
       THEN Out(Suspend(f, n, "body", t, ins, slices - 1), "Yielded")
       ELSE finishEvaluation(f, n, t, ins, async)

(* reportBodyFailure: the first failure of a streak fails the owner's run. *)
reportBodyFailure(f, n) ==
    Out([f EXCEPT !.node[n].reported = TRUE],
        IF f.node[n].reported THEN "NotExecuted" ELSE "Error")

(* resumeExecution on a pending future.  An UnavailableError holds the node:
   nothing is delivered.  The evaluation asked for meanwhile runs next,
   after a delivery or a hold, and is dropped after a failure.             *)
resumeExecution(f, n) ==
    LET y       == f.node[n].yield
        settled == [f EXCEPT !.node[n].yield = NoYield, !.fut = "none"]
        held    == f.fut = "unavailable"
        after   == IF held THEN settled ELSE Publish(settled, n, y.at, y.ins)
        rerun   == IF y.rerun > y.at THEN Evaluate(after, n, y.rerun, TRUE, 0)
                                     ELSE Out(after, "NotExecuted")
    IN IF f.fut = "pending"
       THEN Out(f, "Yielded")
       ELSE IF f.fut = "fatal"
       THEN reportBodyFailure(settled, n)
       ELSE IF rerun.res \in {"Error", "Thrown"}
       THEN rerun
       ELSE Out(rerun.flow, IF held THEN "Held" ELSE "Completed")

(* Seeded fault: an evaluation asked for behind a pending one is dropped.  *)
AskRerun_Drop(f, n, t) == f

(* rerunTime: the newest evaluation asked for while one is pending.        *)
AskRerun(f, n, t) ==
    LET y == f.node[n].yield
    IN IF t > y.at /\ t > y.rerun THEN [f EXCEPT !.node[n].yield.rerun = t] ELSE f

conditionallyExecute(f, n, t, async, slices) ==
    LET y == f.node[n].yield
        r == resumeExecution(f, n)
        e == Evaluate(r.flow, n, t, async, slices)
    IN IF ~hasPendingFutureYield(f, n)
       THEN Evaluate(f, n, t, async, slices)
       ELSE IF r.res = "Yielded" \/ hasPendingFutureYield(r.flow, n)
       THEN Out(AskRerun(r.flow, n, t), "Yielded")
       ELSE IF r.res \notin {"Completed", "Held"}
       THEN r
       ELSE IF t <= y.at
       THEN Out(r.flow, IF r.res = "Held" THEN "NotExecuted" ELSE "Completed")
       ELSE IF e.res = "NotExecuted"
       THEN Out(e.flow, IF r.res = "Held" THEN "NotExecuted" ELSE "Completed")
       ELSE e
=============================================================================
