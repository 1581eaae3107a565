-------------------------- MODULE StopCoordinatorMC --------------------------
(* Small worlds for StopCoordinator. *)
EXTENDS StopCoordinator

CONSTANTS t1, t2

(* A parking and a sliced thread under traps, pauses and an exit, and over   *)
(* two executions under traps and holds; one thread of either kind with the  *)
(* host as well; one with fatal errors; one under requests that overlap.     *)
Programs ==
  { [threads |-> {t1, t2}, may |-> {"trap", "pause", "exit"}, epochs |-> 2, runs |-> 1],
    [threads |-> {t1, t2}, may |-> {"trap", "host"}, epochs |-> 1, runs |-> 2],
    [threads |-> {t1}, may |-> {"trap", "pause", "host", "exit"}, epochs |-> 2, runs |-> 1],
    [threads |-> {t2}, may |-> {"trap", "pause", "host", "exit"}, epochs |-> 2, runs |-> 1],
    [threads |-> {t1}, may |-> Abilities \ {"block", "race"}, epochs |-> 2, runs |-> 1],
    [threads |-> {t1}, may |-> {"trap", "host", "block", "race", "fatal"}, epochs |-> 1,
     runs |-> 1] }

=============================================================================
