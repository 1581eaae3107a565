--------------------------- MODULE ComputeCallsMC ---------------------------
(* Small programs for ComputeCalls. *)
EXTENDS ComputeCalls

World(script) ==
  [script |-> script, init |-> <<>>, answer |-> <<>>, early |-> FALSE, refuses |-> FALSE,
   drops |-> FALSE, forgets |-> FALSE, losses |-> 0]

Method(arg, body) == [arg |-> arg, body |-> body, gives |-> FALSE]

(* A method that calls the client's actor twice, then a plain one; two     *)
(* methods whose calls of the client's actor overlap; one that stores the  *)
(* actor for the next to call, while the client forgets it; a server that  *)
(* refuses; a handshake answered early.                                    *)
Talk == World(<<Method("L", <<"print", "back", "await", "back", "await">>),
                Method("none", <<"print">>)>>)
Overlap == World(<<Method("L", <<"back">>), Method("L", <<"print", "back", "await">>)>>)
Stored == World(<<Method("L", <<"keep", "back", "await">>),
                  Method("none", <<"back", "await", "back", "await">>)>>)

Programs ==
  { [Talk EXCEPT !.answer = <<"print">>, !.drops = TRUE],
    [Talk EXCEPT !.losses = 1],
    [Overlap EXCEPT !.answer = <<"print">>, !.losses = 1],
    [Overlap EXCEPT !.drops = TRUE],
    [Stored EXCEPT !.forgets = TRUE],
    [World(<<Plain>>) EXCEPT !.init = <<"print">>, !.refuses = TRUE, !.losses = 1],
    [World(<<>>) EXCEPT !.early = TRUE, !.losses = 1] }

(* References that come home: the client passes its proxy to the actor it  *)
(* stands for; the server returns an actor of its own.                     *)
Homecoming ==
  { World(<<Method("L", <<"back", "await">>), Method("A", <<"back">>)>>),
    World(<<[Plain EXCEPT !.gives = TRUE]>>) }

=============================================================================
