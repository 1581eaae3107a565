---------------------------- MODULE ActorCallsMC ----------------------------
(* Small programs for ActorCalls. *)
EXTENDS ActorCalls

Call(c) == [op |-> "call", c |-> c]
Wait(f) == [op |-> "wait", f |-> f]
AllOf(in) == [op |-> "gather", mode |-> "all", in |-> in]
AnyOf(in) == [op |-> "gather", mode |-> "any", in |-> in]

World(p, q, target) ==
  [actors |-> Range(target), prog |-> [t1 |-> p, t2 |-> q],
   target |-> [c1 |-> target[1], c2 |-> target[2]], procs |-> {},
   precise |-> FALSE, ends |-> TRUE, wakes |-> 0, events |-> 0,
   stops |-> 0, exits |-> 0,
   outcomes |-> {"ok"}]

One(c) == <<Call(c), Wait(c)>>

(* Two threads that call the same actor, one of which waits for the        *)
(* other's call; two threads that wait for their own; one that queues a    *)
(* proc and a function; one that gathers from two actors.                  *)
Shared == World(One("c1"), <<Call("c2"), Wait("c1")>>, <<"w1", "w1">>)
Own == World(One("c1"), One("c2"), <<"w1", "w1">>)
OneWay == World(<<Call("c1"), Call("c2"), Wait("c2")>>, <<>>, <<"w1", "w1">>)
Gathering(g) == World(<<Call("c1"), Call("c2"), g, Wait("t1")>>, <<>>, <<"w1", "w2">>)

Scripts ==
  { [Shared EXCEPT !.exits = 1, !.outcomes = {"nil", "throw"}],
    [Own EXCEPT !.stops = 1, !.wakes = 1],
    [OneWay EXCEPT !.procs = {"c1"}, !.events = 1, !.precise = TRUE,
                   !.outcomes = {"exc", "fail"}],
    [Gathering(AllOf(<<"c1", "c2">>)) EXCEPT !.ends = FALSE, !.outcomes = {"ok", "exc"}],
    [Gathering(AnyOf(<<"c1", "c2">>)) EXCEPT !.ends = FALSE, !.outcomes = {"ok", "exc"}] }

=============================================================================
