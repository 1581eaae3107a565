---------------------------- MODULE ComputeCalls ----------------------------
(***************************************************************************)
(* Remote actors: `T() at "host"`.                                         *)
(*                                                                         *)
(* The client connects (Hello), has actor A spawned on the server and gets *)
(* a proxy, whose worker turns each queued call into a CALL_METHOD frame   *)
(* and waits for its CALL_RESULT.  The server's session reads the frames,  *)
(* gives each call to a detached thread that queues it on A, waits for A   *)
(* and sends the result.  An actor of the client passed as an argument     *)
(* becomes a proxy on the server, and A's calls on it come back as frames  *)
(* of the same kind, answered by the client's reader in the same way (the  *)
(* back-channel).  What a method prints travels as OUTPUT_EVENT to the end *)
(* that made the call, and from there along the call's own output route.   *)
(*                                                                         *)
(* A connection carries one spawned actor: the only caller of connect is   *)
(* the instruction that also spawns.  BYE is never sent (sendBye has no    *)
(* caller); neither is ACTOR_DROPPED, because joining a proxy's worker,    *)
(* which precedes its destructor, aborts the connection.                   *)
(*                                                                         *)
(* A call is known by its position in `calls`; the frames carry it beside  *)
(* the ids of the protocol so that properties can tell calls apart.        *)
(***************************************************************************)
EXTENDS ComputeLink, FiniteSets

CONSTANT Worlds      \* programs: see the assumption below

Ops == {"print", "keep", "back", "await"}
Methods == [arg : {"none", "L", "A"}, body : Seq(Ops), gives : BOOLEAN]

ASSUME CallsAssumption ==
  \A w \in Worlds :
    /\ w.script \in Seq(Methods)     \* the calls the client queues on A
    /\ w.init \in Seq(Ops)           \* what A's init does
    /\ w.answer \in Seq({"print"})   \* what the client's actor does when called
    /\ w.early \in BOOLEAN           \* HELLO_OK may come before it is awaited
    /\ w.refuses \in BOOLEAN         \* HELLO or SPAWN_ACTOR may be refused
    /\ w.drops \in BOOLEAN           \* the server collects unused proxies
    /\ w.forgets \in BOOLEAN         \* the client collects its actor
    /\ w.losses \in Nat              \* crashes and exits

VARIABLES
  world,      \* the program this behaviour is about: it never changes
  main,       \* where the client's script is in `T() at host`
  session,    \* handleClient: "hello", "loop", "cleanup", "done"
  registry,   \* A is in the session's ServerActorRegistry, as id 1
  locals,     \* localActors_, whose ids are the positions
  proxies,    \* the actor instances with isRemote
  calls,      \* the remote calls, and the spawn as the first of them
  actors,     \* A on the server, L on the client, X on the server
  kept,       \* the proxy A has stored
  printed,    \* calls that have printed
  delivered,  \* calls whose print has reached the client's output
  left        \* crashes and exits still to come

own == <<world, main, session, registry, locals, proxies, calls, actors, kept,
         printed, delivered, left>>
vars == <<linkVars, own>>

Home(a) == IF a = "L" THEN "C" ELSE "S"

NewProxy(e, aid, target) == [end |-> e, aid |-> aid, target |-> target, st |-> "up"]

(* Seeded fault: a call does not take over the output route of its caller. *)
NewCall_LocalRoute(e, via, m, caller) ==
  [end |-> e, via |-> via, id |-> 0, pc |-> "queued", res |-> "none", from |-> 0,
   arg |-> m.arg, body |-> m.body, gives |-> m.gives, wire |-> 0, ref |-> 0, gift |-> 0,
   to |-> "none", job |-> "none", ran |-> <<>>, route |-> 0, for |-> caller,
   last |-> 0, waited |-> FALSE]

NewCall(e, via, m, caller) ==
  [end |-> e, via |-> via, id |-> 0, pc |-> "queued", res |-> "none", from |-> 0,
   arg |-> m.arg, body |-> m.body, gives |-> m.gives, wire |-> 0, ref |-> 0, gift |-> 0,
   to |-> "none", job |-> "none", ran |-> <<>>, route |-> caller, for |-> caller,
   last |-> 0, waited |-> FALSE]

Plain == [arg |-> "none", body |-> <<>>, gives |-> FALSE]

Init ==
  /\ LinkInit
  /\ world \in Worlds
  /\ main = "start"
  /\ session = "hello"
  /\ registry = FALSE
  /\ locals = [e \in Ends |-> <<>>]
  /\ proxies = <<>>
  /\ calls = <<>>
  /\ actors = [a \in {"A", "L", "X"} |->
                 [st |-> IF a = "A" THEN "none" ELSE "up", q |-> <<>>, cur |-> 0]]
  /\ kept = 0
  /\ printed = {} /\ delivered = {}
  /\ left = world.losses

Keys == DOMAIN calls
KeyOf(e, i) == CHOOSE k \in Keys : calls[k].end = e /\ calls[k].id = i
Peered(k) == Peer(calls[k].end)          \* the end a call runs at

-----------------------------------------------------------------------------
(* connect: the reader thread runs from the construction of the object on; *)
(* the slot for the answer is entered only after HELLO has been sent, and  *)
(* its promise is looked up in a third step.                               *)
Connect ==
  /\ main = "start" /\ Up("C")
  /\ \E ok \in BOOLEAN : /\ Sends(net, "C", [t |-> "hello"], ok)
                         /\ main' = IF ok THEN "slot" ELSE "failed"
  /\ UNCHANGED <<proc, phase, nextId, pending, promise, world, session, registry, locals,
                 proxies, calls, actors, kept, printed, delivered, left>>

EnterSlot ==
  /\ main = "slot" /\ Up("C")
  /\ Enter("C", 0)
  /\ main' = "future"
  /\ UNCHANGED <<proc, phase, net, nextId, promise, world, session, registry, locals,
                 proxies, calls, actors, kept, printed, delivered, left>>

(* pendingCalls_[0] of a slot that is gone is a new entry with no promise. *)
TakeFuture ==
  /\ main = "future" /\ Up("C")
  /\ IF 0 \in pending["C"]
       THEN main' = "hello" /\ UNCHANGED <<proc, phase>>
       ELSE Dies("C", "crashed") /\ UNCHANGED main
  /\ UNCHANGED <<net, nextId, pending, promise, world, session, registry, locals,
                 proxies, calls, actors, kept, printed, delivered, left>>

(* connect returns and spawnActor begins, or connect throws. *)
Greeted ==
  /\ main = "hello" /\ Up("C")
  /\ promise["C"][0].st # "none"
  /\ IF promise["C"][0].st = "ok"
       THEN /\ main' = "spawning"
            /\ calls' = <<[NewCall("C", 0, [Plain EXCEPT !.body = world.init], 0)
                             EXCEPT !.pc = "ready", !.id = nextId["C"], !.to = "A"]>>
            /\ TakeId("C")
       ELSE main' = "failed" /\ UNCHANGED <<calls, nextId>>
  /\ UNCHANGED <<proc, phase, net, pending, promise, world, session, registry, locals,
                 proxies, actors, kept, printed, delivered, left>>

(* The exception has released the last reference: ~ComputeConnection. *)
Unwind ==
  /\ main = "failed" /\ Up("C") /\ phase["C"] = "open"
  /\ Mark("C")
  /\ UNCHANGED <<proc, net, nextId, pending, promise, own>>

-----------------------------------------------------------------------------
(* A proxy's worker: Thread::act for a remote actor, callRemoteMethod.     *)

Busy(p) == \E k \in Keys : calls[k].via = p /\ calls[k].pc \in {"ready", "entered", "wait"}

(* The frame's actor reference: an actor of this end is entered in the     *)
(* table of local actors under a new id; a proxy of this connection        *)
(* travels as the id it stands for.                                        *)
RefOf(k) == CASE calls[k].arg = "L" -> Len(locals["C"]) + 1
              [] calls[k].arg = "A" -> proxies[1].aid
              [] OTHER -> 0

TakeCall(k) ==
  LET p == calls[k].via
      e == calls[k].end
  IN /\ Up(e) /\ calls[k].pc = "queued"
     /\ proxies[p].st = "up" /\ ~Busy(p)
     /\ nextId[e] <= MaxId           \* a bound of the model
     /\ \A j \in Keys : calls[j].via = p /\ calls[j].pc = "queued" => k <= j
     /\ TakeId(e)
     /\ calls' = [calls EXCEPT ![k].pc = "ready", ![k].id = nextId[e], ![k].wire = RefOf(k)]
     /\ locals' = IF calls[k].arg = "L" THEN [locals EXCEPT !["C"] = Append(@, "L")] ELSE locals
     /\ UNCHANGED <<proc, phase, net, pending, promise, world, main, session, registry,
                    proxies, actors, kept, printed, delivered, left>>

EnterCall(k) ==
  /\ Up(calls[k].end) /\ calls[k].pc = "ready"
  /\ Enter(calls[k].end, calls[k].id)
  /\ calls' = [calls EXCEPT ![k].pc = "entered"]
  /\ UNCHANGED <<proc, phase, net, nextId, promise, world, main, session, registry, locals,
                 proxies, actors, kept, printed, delivered, left>>

(* Seeded fault: the worker leaves its loop and forgets the queue. *)
Failed_NoDrain(k) ==
  LET p == calls[k].via
  IN /\ calls' = [calls EXCEPT ![k].pc = "done", ![k].res = "nil"]
     /\ proxies' = IF p = 0 THEN proxies ELSE [proxies EXCEPT ![p].st = "exited"]
     /\ main' = IF p = 0 THEN "failed" ELSE main

(* The call threw: the worker answers nil, leaves its loop and answers the *)
(* calls still queued with nil; a spawn is an error of the script.         *)
Failed(k) ==
  LET p == calls[k].via
      Gone(j) == j = k \/ (p # 0 /\ calls[j].via = p /\ calls[j].pc = "queued")
  IN /\ calls' = [j \in Keys |-> IF Gone(j) THEN [calls[j] EXCEPT !.pc = "done", !.res = "nil"]
                                 ELSE calls[j]]
     /\ proxies' = IF p = 0 THEN proxies ELSE [proxies EXCEPT ![p].st = "exited"]
     /\ main' = IF p = 0 THEN "failed" ELSE main

Frame(k) ==
  [t |-> IF calls[k].via = 0 THEN "spawn" ELSE "call", id |-> calls[k].id,
   aid |-> IF calls[k].via = 0 THEN 0 ELSE proxies[calls[k].via].aid,
   ref |-> calls[k].wire, k |-> k]

SendCall(k) ==
  /\ Up(calls[k].end) /\ calls[k].pc = "entered"
  /\ \E ok \in BOOLEAN :
       /\ Sends(net, calls[k].end, Frame(k), ok)
       /\ IF ok THEN /\ calls' = [calls EXCEPT ![k].pc = "wait"]
                     /\ UNCHANGED <<proxies, main>>
                ELSE Failed(k)
  /\ UNCHANGED <<proc, phase, nextId, pending, promise, world, session, registry, locals,
                 actors, kept, printed, delivered, left>>

(* waitForComputeFuture returns.  The spawned actor's proxy is made and    *)
(* the script queues its calls; an actor in a result is called once.       *)
Returned(k) ==
  LET done == [calls EXCEPT ![k].pc = "done", ![k].res = "ok",
                            ![k].from = promise[calls[k].end][calls[k].id].from]
      e == calls[k].end
  IN IF calls[k].via = 0
       THEN /\ main' = "running"
            /\ proxies' = <<NewProxy("C", 1, "A")>>
            /\ calls' = done \o [i \in DOMAIN world.script |-> NewCall("C", 1, world.script[i], 0)]
       ELSE /\ calls' = IF calls[k].gift # 0 THEN Append(done, NewCall(e, calls[k].gift, Plain, 0))
                                            ELSE done
            /\ UNCHANGED <<main, proxies>>

ReturnCall(k) ==
  /\ Up(calls[k].end) /\ calls[k].pc = "wait"
  /\ promise[calls[k].end][calls[k].id].st # "none"
  /\ IF promise[calls[k].end][calls[k].id].st = "ok" THEN Returned(k) ELSE Failed(k)
  /\ UNCHANGED <<linkVars, world, session, registry, locals, actors, kept, printed,
                 delivered, left>>

(* CALL_RESULT or SPAWN_RESULT for call k. *)
Answer(k, good, ref) ==
  [t |-> "result", id |-> calls[k].id, k |-> k, ref |-> ref, st |-> IF good THEN "ok" ELSE "err"]

-----------------------------------------------------------------------------
(* The server's session, handleClient. *)

Reading == session = "loop" /\ Up("S") /\ FdOpen("S")

(* Seeded fault: the join waits and does not ask. *)
Quit_NotAsked(a) == actors

(* An actor's worker is told to quit by the join; it first serves its queue. *)
Quit(a) == IF actors[a].st = "up" THEN [actors EXCEPT ![a].st = "quit"] ELSE actors

(* An exception that handleClient does not catch: no cleanupActors; the    *)
(* registry's last reference to A is gone and A is collected.              *)
Abandon == session' = "done" /\ registry' = FALSE /\ actors' = Quit("A")

Welcome ==
  /\ session = "hello" /\ Up("S") /\ FdOpen("S") /\ Reads("S", "hello")
  /\ \E ok, valid \in BOOLEAN :
       /\ valid \/ world.refuses
       /\ Sends(Rest("S"), "S", [t |-> IF valid THEN "helloOk" ELSE "helloErr"], ok)
       /\ IF ok THEN /\ session' = IF valid THEN "loop" ELSE "done"
                     /\ UNCHANGED <<registry, actors>>
                ELSE Abandon
  /\ UNCHANGED <<proc, phase, nextId, pending, promise, world, main, locals, proxies,
                 calls, kept, printed, delivered, left>>

(* A's thread runs, and its init is the first call in its queue. *)
Spawned(st) == [actors EXCEPT !["A"].st = st, !["A"].q = <<1>>]

(* SPAWN_ACTOR: A's thread is started and its init queued; the answer does *)
(* not wait for init.  An answer that cannot be sent is an exception, and  *)
(* so is the report of it.                                                 *)
Spawn ==
  /\ Reading /\ Reads("S", "spawn")
  /\ \E ok, valid \in BOOLEAN :
       /\ valid \/ world.refuses
       /\ Sends(Rest("S"), "S", Answer(1, valid, 0), ok)
       /\ actors' = IF valid THEN Spawned(IF ok THEN "up" ELSE "quit") ELSE actors
       /\ registry' = (valid /\ ok)
       /\ session' = IF ok THEN session ELSE "done"
  /\ UNCHANGED <<proc, phase, nextId, pending, promise, world, main, locals, proxies,
                 calls, kept, printed, delivered, left>>

(* readValue turns a reference whose id this end's own table holds into    *)
(* that local actor, any other into a new proxy.                           *)
IsProxy(e, ref) == ref > Len(locals[e])

(* CALL_METHOD. *)
Serve ==
  /\ Reading /\ Reads("S", "call")
  /\ LET f == Head(net["S"])
         known == f.aid = 1 /\ registry
         proxy == known /\ IsProxy("S", f.ref)
     IN /\ IF known
             THEN /\ net' = Rest("S")
                  /\ calls' = [calls EXCEPT ![f.k].job = "new", ![f.k].to = "A",
                                            ![f.k].ref = IF proxy THEN Len(proxies) + 1 ELSE 0]
                  /\ proxies' = IF proxy
                                  THEN Append(proxies, NewProxy("S", f.ref, calls[f.k].arg))
                                  ELSE proxies
                  /\ UNCHANGED <<session, registry, actors>>
             ELSE /\ \E ok \in BOOLEAN :
                       /\ Sends(Rest("S"), "S", Answer(f.k, FALSE, 0), ok)
                       /\ IF ok THEN UNCHANGED <<session, registry, actors>> ELSE Abandon
                  /\ UNCHANGED <<calls, proxies>>
  /\ UNCHANGED <<proc, phase, nextId, pending, promise, world, main, locals,
                 kept, printed, delivered, left>>

(* The read fails: cleanupActors joins A, and only then does the session   *)
(* let go of the connection.                                               *)
Disconnected ==
  /\ session \in {"hello", "loop"} /\ Up("S")
  /\ Broken("S") \/ ~FdOpen("S")
  /\ session' = "cleanup"
  /\ registry' = FALSE
  /\ actors' = Quit("A")
  /\ UNCHANGED <<linkVars, world, main, locals, proxies, calls, kept, printed,
                 delivered, left>>

CleanedUp ==
  /\ session = "cleanup" /\ Up("S")
  /\ actors["A"].st \in {"none", "exited"}
  /\ session' = "done"
  /\ UNCHANGED <<linkVars, world, main, registry, locals, proxies, calls, actors, kept,
                 printed, delivered, left>>

(* The last reference to the server's connection is gone: detached threads *)
(* and proxies hold one too.                                               *)
Released ==
  /\ session = "done" /\ Up("S") /\ phase["S"] = "open"
  /\ \A p \in DOMAIN proxies : proxies[p].end = "S" => proxies[p].st = "gone"
  /\ \A k \in Keys : Peered(k) = "S" => calls[k].job \in {"none", "sent"}
  /\ Mark("S")
  /\ UNCHANGED <<proc, net, nextId, pending, promise, own>>

-----------------------------------------------------------------------------
(* The client's reader, readerLoop. *)

Listening == phase["C"] = "open" /\ Up("C")

(* A reply normally takes longer than the two critical sections of connect *)
(* that follow the sending of HELLO; w.early is the case that it does not. *)
HelloAnswer ==
  /\ Listening
  /\ Reads("C", "helloOk") \/ Reads("C", "helloErr")
  /\ world.early \/ main = "hello"
  /\ net' = Rest("C")
  /\ IF Reads("C", "helloOk")
       THEN Fulfil("C", 0, "ok", 0) /\ UNCHANGED phase
       ELSE Fulfil("C", 0, "err", 0) /\ Mark("C")
  /\ UNCHANGED <<proc, nextId, own>>

(* handleIncomingCall: an actor that is not there is answered by rejecting *)
(* the call of that id in this end's own table.                            *)
Refer ==
  /\ Listening /\ Reads("C", "call")
  /\ net' = Rest("C")
  /\ LET f == Head(net["C"])
         there == f.aid <= Len(locals["C"]) /\ actors[locals["C"][f.aid]].st = "up"
     IN IF there
          THEN /\ calls' = [calls EXCEPT ![f.k].job = "new", ![f.k].to = locals["C"][f.aid]]
               /\ UNCHANGED <<promise, pending>>
          ELSE Fulfil("C", f.id, "err", 0) /\ UNCHANGED calls
  /\ UNCHANGED <<proc, phase, nextId, world, main, session, registry, locals, proxies,
                 actors, kept, printed, delivered, left>>

(* The read fails: closeSocket. *)
Hangup ==
  /\ Listening /\ Broken("C")
  /\ Mark("C")
  /\ UNCHANGED <<proc, net, nextId, pending, promise, own>>

-----------------------------------------------------------------------------
(* Either end. *)

Hears(e) == IF e = "C" THEN Listening ELSE Reading

(* CALL_RESULT and SPAWN_RESULT.  A reference in the result is read like   *)
(* one in an argument.                                                     *)
Result(e) ==
  /\ Hears(e) /\ Reads(e, "result")
  /\ net' = Rest(e)
  /\ LET f == Head(net[e])
     IN /\ Fulfil(e, f.id, f.st, f.k)
        /\ IF IsProxy(e, f.ref)
             THEN /\ proxies' = Append(proxies, NewProxy(e, f.ref, "X"))
                  /\ calls' = [calls EXCEPT ![f.k].gift = Len(proxies) + 1]
             ELSE UNCHANGED <<proxies, calls>>
  /\ UNCHANGED <<proc, phase, nextId, world, main, session, registry, locals, actors,
                 kept, printed, delivered, left>>

(* deliverOutputEvent: to this process's output, or on along the route of  *)
(* the call; an event of a call no longer pending is dropped.              *)
Output(e) ==
  /\ Hears(e) /\ Reads(e, "out")
  /\ LET f == Head(net[e])
         up == calls[KeyOf(e, f.id)].route
     IN IF f.id \notin pending[e]
          THEN net' = Rest(e) /\ UNCHANGED delivered
          ELSE IF up = 0
                 THEN /\ delivered' = delivered \union (IF e = "C" THEN {f.k} ELSE {})
                      /\ net' = Rest(e)
                 ELSE /\ \E ok \in BOOLEAN :
                           IF phase[e] = "open"
                             THEN Sends(Rest(e), e, [f EXCEPT !.id = calls[up].id], ok)
                             ELSE net' = Rest(e)
                      /\ UNCHANGED delivered
  /\ UNCHANGED <<proc, phase, nextId, pending, promise, world, main, session, registry,
                 locals, proxies, calls, actors, kept, printed, left>>

(* The detached thread of an incoming call: queueCall, wait, answer.  Its  *)
(* handler for exceptions sends an answer too, and nothing catches what    *)
(* that throws.                                                            *)
JobQueue(k) ==
  LET e == Peered(k)
      a == calls[k].to
  IN /\ Up(e) /\ calls[k].job = "new"
     /\ IF actors[a].st = "exited"
          THEN calls' = [calls EXCEPT ![k].job = "dead"] /\ UNCHANGED actors
          ELSE /\ calls' = [calls EXCEPT ![k].job = "queued"]
               /\ actors' = [actors EXCEPT ![a].q = Append(@, k)]
     /\ UNCHANGED <<linkVars, world, main, session, registry, locals, proxies, kept,
                    printed, delivered, left>>

JobReply(k) ==
  LET e == Peered(k)
      good == calls[k].job = "ran"
      gives == good /\ calls[k].gives
  IN /\ Up(e) /\ calls[k].job \in {"ran", "dead"}
     /\ \E ok \in BOOLEAN :
          /\ Sends(net, e, Answer(k, good, IF gives THEN Len(locals[e]) + 1 ELSE 0), ok)
          /\ IF ok THEN UNCHANGED <<proc, phase>> ELSE Dies(e, "terminated")
     /\ locals' = IF gives THEN [locals EXCEPT ![e] = Append(@, "X")] ELSE locals
     /\ calls' = [calls EXCEPT ![k].job = "sent"]
     /\ UNCHANGED <<nextId, pending, promise, world, main, session, registry, proxies,
                    actors, kept, printed, delivered, left>>

-----------------------------------------------------------------------------
(* An actor's worker, Thread::act for a local actor: the methods print;    *)
(* those of A store the actor they were given, call it and wait for that   *)
(* call.                                                                   *)

Begin(a) ==
  /\ Up(Home(a)) /\ actors[a].cur = 0 /\ actors[a].q # <<>>
  /\ LET k == Head(actors[a].q)
     IN /\ actors' = [actors EXCEPT ![a].cur = k, ![a].q = Tail(@)]
        /\ calls' = [calls EXCEPT ![k].ran = Append(@, a)]
  /\ UNCHANGED <<linkVars, world, main, session, registry, locals, proxies, kept,
                 printed, delivered, left>>

Doing(a, op) ==
  /\ Up(Home(a)) /\ actors[a].cur # 0
  /\ calls[actors[a].cur].body # <<>>
  /\ Head(calls[actors[a].cur].body) = op

Did(k) == [calls EXCEPT ![k].body = Tail(@)]

(* print, under the route of the call being served: sendOutputEvent.  A    *)
(* throw of it ends the method, whose answer then cannot be sent either.   *)
DoPrint(a) ==
  LET k == actors[a].cur
      e == Home(a)
  IN /\ Doing(a, "print")
     /\ \E ok \in BOOLEAN :
          IF phase[e] = "open" THEN Sends(net, e, [t |-> "out", id |-> calls[k].id, k |-> k], ok)
                               ELSE UNCHANGED net
     /\ printed' = printed \union {k}
     /\ calls' = Did(k)
     /\ UNCHANGED <<proc, phase, nextId, pending, promise, world, main, session, registry,
                    locals, proxies, actors, kept, delivered, left>>

DoKeep(a) ==
  /\ Doing(a, "keep")
  /\ kept' = calls[actors[a].cur].ref
  /\ calls' = Did(actors[a].cur)
  /\ UNCHANGED <<linkVars, world, main, session, registry, locals, proxies, actors,
                 printed, delivered, left>>

(* The reference a method calls: its argument, or the stored one. *)
Callee(k) == IF calls[k].ref # 0 THEN calls[k].ref ELSE kept

(* queueCall on a proxy, whose worker may have stopped; the call carries   *)
(* the output route of the one being served.                               *)
DoBack(a) ==
  LET k == actors[a].cur
      p == Callee(k)
      new == NewCall(Home(a), p, [Plain EXCEPT !.body = world.answer], k)
  IN /\ Doing(a, "back")
     /\ calls' = IF p = 0 THEN Did(k)
                 ELSE Append([Did(k) EXCEPT ![k].last = Len(calls) + 1],
                             IF proxies[p].st = "up" THEN new
                             ELSE [new EXCEPT !.pc = "done", !.res = "nil"])
     /\ UNCHANGED <<linkVars, world, main, session, registry, locals, proxies, actors,
                    kept, printed, delivered, left>>

DoAwait(a) ==
  LET k == actors[a].cur
      c == calls[k].last
  IN /\ Doing(a, "await")
     /\ c # 0 => calls[c].pc = "done"
     /\ calls' = IF c = 0 THEN Did(k) ELSE [Did(k) EXCEPT ![c].waited = TRUE]
     /\ UNCHANGED <<linkVars, world, main, session, registry, locals, proxies, actors,
                    kept, printed, delivered, left>>

Finish(a) ==
  LET k == actors[a].cur
  IN /\ Up(Home(a)) /\ k # 0 /\ calls[k].body = <<>>
     /\ actors' = [actors EXCEPT ![a].cur = 0]
     /\ calls' = [calls EXCEPT ![k].job = IF calls[k].via = 0 THEN "sent" ELSE "ran"]
     /\ UNCHANGED <<linkVars, world, main, session, registry, locals, proxies, kept,
                    printed, delivered, left>>

Exit(a) ==
  /\ Up(Home(a)) /\ actors[a].st = "quit"
  /\ actors[a].cur = 0 /\ actors[a].q = <<>>
  /\ actors' = [actors EXCEPT ![a].st = "exited"]
  /\ UNCHANGED <<linkVars, world, main, session, registry, locals, proxies, calls, kept,
                 printed, delivered, left>>

-----------------------------------------------------------------------------
(* The end of proxies, actors and processes. *)

(* Nothing on the server refers to proxy p any more: its worker is joined, *)
(* which aborts the connection, and its destructor finds it closed.        *)
Unused(p) ==
  /\ kept # p \/ actors["A"].st = "exited"
  /\ \A k \in Keys : /\ calls[k].via = p => calls[k].pc = "done"
                     /\ calls[k].ref = p => calls[k].job = "sent"

Drop(p) ==
  /\ world.drops \/ session = "done"
  /\ Up("S") /\ proxies[p].end = "S" /\ proxies[p].st # "gone"
  /\ Unused(p)
  /\ proxies' = [proxies EXCEPT ![p].st = "gone"]
  /\ Mark("S")
  /\ UNCHANGED <<proc, net, nextId, pending, promise, world, main, session, registry,
                 locals, calls, actors, kept, printed, delivered, left>>

(* The client's actor is registered weakly: it lives as long as the client *)
(* itself has a use for it.                                                *)
Forget ==
  /\ world.forgets /\ Up("C") /\ actors["L"].st = "up"
  /\ actors["L"].cur = 0 /\ actors["L"].q = <<>>
  /\ \A k \in Keys : /\ calls[k].arg = "L" => calls[k].pc = "done"
                     /\ calls[k].to = "L" => calls[k].job \notin {"new", "queued"}
  /\ actors' = [actors EXCEPT !["L"].st = "exited"]
  /\ UNCHANGED <<linkVars, world, main, session, registry, locals, proxies, calls, kept,
                 printed, delivered, left>>

(* The end of the client's script joins the proxy's worker. *)
Leave ==
  /\ left > 0 /\ left' = left - 1
  /\ main = "running" /\ Up("C") /\ phase["C"] = "open"
  /\ Mark("C")
  /\ UNCHANGED <<proc, net, nextId, pending, promise, world, main, session, registry,
                 locals, proxies, calls, actors, kept, printed, delivered>>

Crash(e) ==
  /\ left > 0 /\ left' = left - 1
  /\ Up(e)
  /\ Dies(e, "crashed")
  /\ UNCHANGED <<net, nextId, pending, promise, world, main, session, registry,
                 locals, proxies, calls, actors, kept, printed, delivered>>

-----------------------------------------------------------------------------
Step ==
  \/ Connect \/ EnterSlot \/ TakeFuture \/ Greeted \/ Unwind
  \/ \E k \in Keys : \/ TakeCall(k) \/ EnterCall(k) \/ SendCall(k) \/ ReturnCall(k)
                     \/ JobQueue(k) \/ JobReply(k)
  \/ Welcome \/ Spawn \/ Serve \/ Disconnected \/ CleanedUp \/ Released
  \/ HelloAnswer \/ Refer \/ Hangup
  \/ \E e \in Ends : Result(e) \/ Output(e)
                     \/ (CloseFd(e) /\ UNCHANGED own) \/ (CloseTable(e) /\ UNCHANGED own)
  \/ \E a \in {"A", "L"} : Begin(a) \/ DoPrint(a) \/ Finish(a)
  \/ DoKeep("A") \/ DoBack("A") \/ DoAwait("A") \/ Exit("A")

Environment ==
  \/ \E p \in DOMAIN proxies : Drop(p)
  \/ Forget \/ Leave
  \/ \E e \in Ends : Crash(e)

Next == Step \/ Environment

Spec == Init /\ [][Next]_vars

(* No step of the two processes can be repeated for ever, so that this is  *)
(* fairness to each of their threads; nothing has to be collected and      *)
(* nobody has to leave or to crash.                                        *)
FairSpec == Spec /\ WF_vars(Step)

-----------------------------------------------------------------------------
(* Type correctness; among the types: the table holds no id that has not   *)
(* been handed out.                                                        *)
TypeOK ==
  /\ LinkTypeOK
  /\ main \in {"start", "slot", "future", "hello", "spawning", "running", "failed"}
  /\ session \in {"hello", "loop", "cleanup", "done"}
  /\ \A k \in Keys :
       /\ calls[k].pc \in {"queued", "ready", "entered", "wait", "done"}
       /\ calls[k].res \in {"none", "ok", "nil"}
       /\ calls[k].job \in {"none", "new", "queued", "ran", "dead", "sent"}
  /\ \A p \in DOMAIN proxies : proxies[p].st \in {"up", "exited", "gone"}
  /\ \A a \in DOMAIN actors : actors[a].st \in {"none", "up", "quit", "exited"}
  /\ left \in Nat

(* A thread blocked in waitForComputeFuture has an entry in pendingCalls_, *)
(* or its promise has been fulfilled: no order of entering, sending,       *)
(* answering and closing leaves a caller that nobody will answer at this   *)
(* end.                                                                    *)
NoStrandedCall ==
  \A k \in Keys :
    Up(calls[k].end) /\ calls[k].pc = "wait" =>
      \/ calls[k].id \in pending[calls[k].end]
      \/ promise[calls[k].end][calls[k].id].st # "none"

Target(k) == IF calls[k].via = 0 THEN "A" ELSE proxies[calls[k].via].target

(* A call made on a reference runs once, on the actor that the reference   *)
(* was made from, and what its caller gets is the result of that very      *)
(* call (implementation-notes.md, Back-channel Actor References).          *)
CallRouted ==
  \A k \in Keys :
    /\ calls[k].ran \in {<<>>, <<Target(k)>>}
    /\ calls[k].res = "ok" => /\ calls[k].from = k
                              /\ calls[k].via # 0 => /\ calls[k].ran = <<Target(k)>>
                                                     /\ calls[k].body = <<>>

(* When a call has returned to the client its output is there already:     *)
(* what its method printed, and what the client's own actor printed when   *)
(* the method called it and waited, which has been to the server and back. *)
OutputBeforeResult ==
  \A k \in Keys :
    (calls[k].end = "C" /\ calls[k].via # 0 /\ calls[k].res = "ok" /\ phase["S"] = "open") =>
      \A j \in printed :
        (j = k \/ (calls[j].for = k /\ calls[j].waited)) => j \in delivered

(* The client has read a back-channel call and will not answer it. *)
Unanswered ==
  \E j \in Keys : /\ calls[j].end = "S" /\ calls[j].pc = "wait" /\ calls[j].job = "none"
                   /\ promise["S"][calls[j].id].st = "none"
                   /\ \A i \in DOMAIN net["C"] : net["C"][i].t = "call" => net["C"][i].k # j

(* Every call of the client comes back, with a result or with nil, whether *)
(* the connection is lost, aborted or kept: unless the remote method       *)
(* itself waits for a back-channel call that the client has dropped.  The  *)
(* calls a script queues are among the first MaxId.                        *)
CallsEnd ==
  \A k \in 1 .. MaxId :
    (k \in Keys /\ calls[k].end = "C") ~>
      ((k \in Keys /\ calls[k].pc = "done") \/ ~Up("C") \/ Unanswered)

(* A session whose client is gone ends and has joined its actor, unless a  *)
(* back-channel call is still waiting.                                     *)
SessionEnds ==
  ~FdOpen("C") ~>
    \/ session = "done" \/ ~Up("S")
    \/ \E k \in Keys : calls[k].end = "S" /\ calls[k].pc = "wait"

=============================================================================
