----------------------------- MODULE ObjectHeap -----------------------------
(***************************************************************************)
(* What the reference counts, the sweep and the reclaimer promise a Roxal  *)
(* program together, with no count, queue or batch in sight: every object  *)
(* is born, dies and is destroyed once, in that order, and whatever a      *)
(* thread can reach from a Value it holds has not died.  ObjectLifecycle   *)
(* implements this specification.                                          *)
(***************************************************************************)
CONSTANT Objs

VARIABLES
  status,     \* "none", "live", "dead" (claimed by one death path), "gone"
  reachable   \* the objects some thread can reach through the Values it holds

vars == <<status, reachable>>

Live == {o \in Objs : status[o] = "live"}

Init ==
  /\ status = [o \in Objs |-> "none"]
  /\ reachable = {}

(* Objects are allocated; only what is live afterwards can be reached. *)
Birth(S) ==
  /\ \A o \in S : status[o] = "none"
  /\ status' = [o \in Objs |-> IF o \in S THEN "live" ELSE status[o]]
  /\ reachable' \subseteq Live \cup S

(* Objects die: none of them can be reached, and none is reached again. *)
Death(S) ==
  /\ S \subseteq Live \ reachable
  /\ status' = [o \in Objs |-> IF o \in S THEN "dead" ELSE status[o]]
  /\ reachable' \subseteq reachable

(* The destructor of a dead object runs. *)
Destroy(o) ==
  /\ status[o] = "dead"
  /\ status' = [status EXCEPT ![o] = "gone"]
  /\ UNCHANGED reachable

(* Values are copied, stored, loaded, promoted and dropped. *)
Use ==
  /\ reachable' \subseteq Live
  /\ UNCHANGED status

Next ==
  \/ \E S \in SUBSET Objs : Birth(S) \/ Death(S)
  \/ \E o \in Objs : Destroy(o)
  \/ Use

Spec == Init /\ [][Next]_vars
=============================================================================
