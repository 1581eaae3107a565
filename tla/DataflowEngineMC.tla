-------------------------- MODULE DataflowEngineMC --------------------------
(***************************************************************************)
(* Instances of DataflowEngine.  One producer drives the event-driven      *)
(* island in every world.                                                  *)
(***************************************************************************)
EXTENDS DataflowEngine

set(s, v) == [op |-> "set", s |-> s, v |-> v]

change(op) == [op |-> op]

Idle == [ticks |-> 0, gates |-> 0, collections |-> 0, overruns |-> 0, errors |-> 0,
         unavailable |-> 0, fatal |-> 0]

Calm == [script |-> <<>>, dds |-> <<>>, async |-> TRUE, slices |-> 0, left |-> Idle]

Programs ==
    { \* a script sets both sources and changes the network, A asynchronous
      [Calm EXCEPT !.script = <<set("s1", 1), set("s2", 1), change("add"), set("s1", 2)>>,
                   !.left.fatal = 1],
      \* and synchronous, the sources returning to their values
      [Calm EXCEPT !.script = <<set("s1", 1), set("s2", 1), set("s1", 0), set("s2", 0)>>,
                   !.async = FALSE],
      \* a foreign thread sets one source, behind a debugger's stop
      [Calm EXCEPT !.dds = <<set("s1", 1), set("s1", 2), set("s1", 3)>>, !.left.gates = 1],
      [Calm EXCEPT !.dds = <<set("s1", 1), set("s1", 0), set("s1", 1), set("s1", 0)>>,
                   !.async = FALSE, !.left.gates = 1],
      \* the body's service is unavailable twice
      [Calm EXCEPT !.script = <<set("s1", 1)>>, !.left.unavailable = 2, !.left.gates = 1],
      \* a host's ticks, sliced: the network changes, a tick overruns
      [Calm EXCEPT !.script = <<change("remove")>>, !.slices = 1, !.left.ticks = 2,
                   !.left.collections = 1, !.left.overruns = 1],
      \* a body raises
      [Calm EXCEPT !.script = <<change("remove"), change("add")>>, !.slices = 2,
                   !.left.ticks = 1, !.left.collections = 1, !.left.errors = 1],
      \* the ticks contend with event-driven evaluation
      [Calm EXCEPT !.script = <<set("s1", 1), change("remove")>>, !.slices = 2,
                   !.async = FALSE, !.left.ticks = 2, !.left.gates = 1] }

(* A foreign thread sets a source once more than its history has samples,
   after the set whose future is in flight and the one that asks for the
   rerun; nothing fails or holds.                                          *)
Outrun == { [Calm EXCEPT !.dds = <<set("s1", 1), set("s1", 2), set("s1", 3), set("s1", 4)>>] }

=============================================================================
