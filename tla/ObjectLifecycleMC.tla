------------------------- MODULE ObjectLifecycleMC -------------------------
(* Small programs for ObjectLifecycle. *)
EXTENDS ObjectLifecycle

CONSTANTS a, b, v, x, s, u, m, n

(* A graph with cycles, native state and a version chain on one thread; a  *)
(* promise and an actor shared by two threads, weakly too; two threads     *)
(* that intern the same content.                                           *)
Programs ==
  { [objs |-> {a, b, v}, threads |-> {m}],
    [objs |-> {a, x}, threads |-> {m, n}],
    [objs |-> {s, u}, threads |-> {m, n}] }

=============================================================================
