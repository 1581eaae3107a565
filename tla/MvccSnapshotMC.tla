--------------------------- MODULE MvccSnapshotMC ---------------------------
(* Small worlds for MvccSnapshot. *)
EXTENDS MvccSnapshot, TLC

CONSTANTS w1, w2, o1, o2

OneOwner == [o \in Objs |-> w1]

(* One owner, two snapshots that die; two owners and three snapshots, with *)
(* rejected writes to the second owner's object.                           *)
Programs ==
  { [owner |-> OneOwner, drops |-> TRUE, throws |-> FALSE,
     writes |-> (o1 :> 2 @@ o2 :> 1), snaps |-> 2],
    [owner |-> (o1 :> w1 @@ o2 :> w2), drops |-> FALSE, throws |-> TRUE,
     writes |-> (o1 :> 0 @@ o2 :> 2), snaps |-> 3] }

(* Rejected writes, and snapshots that die. *)
Rejected ==
  { [owner |-> OneOwner, drops |-> TRUE, throws |-> TRUE,
     writes |-> (o1 :> 3 @@ o2 :> 0), snaps |-> 2] }

(* Snapshots are interchangeable. *)
Symmetry == Permutations(Snaps)

=============================================================================
