---------------------------- MODULE ComputeLink ----------------------------
(***************************************************************************)
(* One connection of the compute protocol: two processes, the socket       *)
(* between them, and at each end the table of calls that await an answer   *)
(* (ComputeConnection.cpp).                                                *)
(*                                                                         *)
(* A frame is sent whole under writeMu_ and arrives in order.  An end that *)
(* has closed loses what the other still sends; the other may notice when  *)
(* it sends (the connection was reset) or not, and it may or may not get   *)
(* to read what was sent before the end closed.                            *)
(***************************************************************************)
EXTENDS Integers, Sequences

CONSTANT MaxId       \* how many call ids an end may hand out

ASSUME LinkAssumption == MaxId \in Nat \ {0}

Ends == {"C", "S"}   \* the client and the server
Peer(e) == IF e = "C" THEN "S" ELSE "C"
Ids == 0 .. MaxId    \* 0 is the slot of the handshake

VARIABLES
  proc,      \* "up", "crashed" or "terminated" (an exception left a thread)
  phase,     \* "open"; closeSocket: "marked" (alive_ is false), "shut" (fd
             \* closed), "closed" (the pending calls have been rejected)
  net,       \* per end the frames on their way to it
  nextId,    \* nextCallId_
  pending,   \* the keys of pendingCalls_
  promise    \* per end and id the state of the promise, and whose result it is

linkVars == <<proc, phase, net, nextId, pending, promise>>

Open == [st |-> "none", from |-> 0]

LinkInit ==
  /\ proc = [e \in Ends |-> "up"]
  /\ phase = [e \in Ends |-> "open"]
  /\ net = [e \in Ends |-> <<>>]
  /\ nextId = [e \in Ends |-> 1]
  /\ pending = [e \in Ends |-> {}]
  /\ promise = [e \in Ends |-> [i \in Ids |-> Open]]

Up(e) == proc[e] = "up"
FdOpen(e) == phase[e] \in {"open", "marked"}
Broken(e) == ~Up(Peer(e)) \/ ~FdOpen(Peer(e))   \* the peer's socket is gone

(* sendFrame when the frames under way are n: ok is whether ::send         *)
(* succeeded; it throws when not.                                          *)
Sends(n, e, f, ok) ==
  /\ IF ok THEN FdOpen(e) ELSE ~FdOpen(e) \/ Broken(e)
  /\ net' = IF ok /\ ~Broken(e) THEN [n EXCEPT ![Peer(e)] = Append(@, f)] ELSE n

Reads(e, t) ==
  /\ net[e] # <<>>
  /\ Head(net[e]).t = t

Rest(e) == [net EXCEPT ![e] = Tail(@)]

(* Seeded fault: the counter is read and not advanced. *)
TakeId_Stale(e) == UNCHANGED nextId

(* The id a call is given, and its entry in the table. *)
TakeId(e) == nextId' = [nextId EXCEPT ![e] = @ + 1]

Enter(e, i) == pending' = [pending EXCEPT ![e] = @ \union {i}]

(* Seeded fault: the answer goes to whichever call has waited longest. *)
Fulfil_First(e, i, st, k) ==
  IF pending[e] # {}
    THEN LET j == CHOOSE j \in pending[e] : \A l \in pending[e] : j <= l
         IN /\ promise' = [promise EXCEPT ![e][j] = [st |-> st, from |-> k]]
            /\ pending' = [pending EXCEPT ![e] = @ \ {j}]
    ELSE UNCHANGED <<promise, pending>>

(* resolveCall and rejectCall: an id the table does not hold is ignored. *)
Fulfil(e, i, st, k) ==
  IF i \in pending[e]
    THEN /\ promise' = [promise EXCEPT ![e][i] = [st |-> st, from |-> k]]
         /\ pending' = [pending EXCEPT ![e] = @ \ {i}]
    ELSE UNCHANGED <<promise, pending>>

(* closeSocket, in the order of its three effects.  Only the thread whose  *)
(* exchange of alive_ succeeds goes past the first; a later one returns.   *)
Mark(e) == phase' = IF phase[e] = "open" THEN [phase EXCEPT ![e] = "marked"] ELSE phase

CloseFd(e) ==
  /\ Up(e) /\ phase[e] = "marked"
  /\ phase' = [phase EXCEPT ![e] = "shut"]
  /\ UNCHANGED <<proc, net, nextId, pending, promise>>

(* Seeded fault: the table is cleared and the promises are kept. *)
RejectPending_Kept(e) ==
  /\ pending' = [pending EXCEPT ![e] = {}]
  /\ UNCHANGED promise

RejectPending(e) ==
  /\ promise' = [promise EXCEPT ![e] =
                   [i \in Ids |-> IF i \in pending[e] THEN [st |-> "err", from |-> 0] ELSE @[i]]]
  /\ pending' = [pending EXCEPT ![e] = {}]

CloseTable(e) ==
  /\ Up(e) /\ phase[e] = "shut"
  /\ phase' = [phase EXCEPT ![e] = "closed"]
  /\ RejectPending(e)
  /\ UNCHANGED <<proc, net, nextId>>

(* The process is gone, and its socket with it. *)
Dies(e, how) ==
  /\ proc' = [proc EXCEPT ![e] = how]
  /\ phase' = [phase EXCEPT ![e] = "closed"]

LinkTypeOK ==
  /\ proc \in [Ends -> {"up", "crashed", "terminated"}]
  /\ phase \in [Ends -> {"open", "marked", "shut", "closed"}]
  /\ nextId \in [Ends -> 1 .. MaxId + 1]
  /\ \A e \in Ends : pending[e] \subseteq 0 .. nextId[e] - 1
  /\ promise \in [Ends -> [Ids -> [st : {"none", "ok", "err"}, from : Nat]]]

=============================================================================
