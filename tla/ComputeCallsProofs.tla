------------------------- MODULE ComputeCallsProofs --------------------------
(***************************************************************************)
(* The theorems about ComputeCalls: the invariant, and what follows from it *)
(* about types, blocked callers, results and prints.                       *)
(***************************************************************************)
EXTENDS ComputeCallsSteps

-----------------------------------------------------------------------------
(* What a step does to the calls being served, and to the frames under way *)

(* The request for k is read. *)
Consumed(e, k) ==
  net[e] # <<>> /\ net'[e] = Tail(net[e]) /\ IsRequest(net[e][1]) /\ net[e][1].k = k

JobMove(k) ==
  \/ calls'[k].job = calls[k].job /\ calls'[k].ran = calls[k].ran
  \/ k # 1 /\ calls[k].job # "none"
  \/ k = 1 /\ ~Unspawned
  \/ \E e \in Ends : Consumed(e, k)

JobsMove == \A k \in Keys : JobMove(k)

(* No call is served. *)
LEMMA JobsKept ==
  ASSUME \A j \in Keys : calls'[j].job = calls[j].job /\ calls'[j].ran = calls[j].ran
  PROVE  JobsMove
BY DEF JobsMove, JobMove

(* One is. *)
LEMMA JobsMoved ==
  ASSUME NEW k, NEW F, Alters(k, F), JobMove(k)
  PROVE  JobsMove
BY DEF JobsMove, JobMove, Alters

(* A call has thrown. *)
LEMMA JobsThrown ==
  ASSUME NEW k, Threw(k)
  PROVE  JobsMove
<1>1. \A j \in Keys : calls'[j].job = calls[j].job /\ calls'[j].ran = calls[j].ran
  BY DEF Threw, Fields
<1> QED
  BY <1>1, JobsKept

(* No call changes. *)
LEMMA JobsSame ==
  ASSUME UNCHANGED <<calls>>
  PROVE  JobsMove
BY DEF JobsMove, JobMove

(* Every call, as it is served. *)
LEMMA JobsStep ==
  ASSUME Inv, [Next]_vars
  PROVE  JobsMove
<1>0. /\ TypeInv /\ StageInv /\ RefInv /\ FrameInv /\ IdInv /\ SlotInv /\ JobInv /\ QueueInv
      /\ TakenInv /\ SpawnInv
  BY DEF Inv
<1>1. ASSUME Connect PROVE JobsMove
  BY <1>1, <1>0, JobsSame, ConnectShape
<1>2. ASSUME EnterSlot PROVE JobsMove
  BY <1>2, <1>0, JobsSame, EnterSlotShape
<1>3. ASSUME TakeFuture PROVE JobsMove
  BY <1>3, <1>0, JobsSame, TakeFutureShape
<1>4. ASSUME Greeted PROVE JobsMove
  <2>1. Keys = {}
    BY <1>4, <1>0, GreetedShape DEF Keys
  <2> QED
    BY <2>1 DEF JobsMove
<1>5. ASSUME Unwind PROVE JobsMove
  BY <1>5, <1>0, JobsSame, UnwindShape DEF own
<1>6. ASSUME NEW k \in Keys, TakeCall(k) PROVE JobsMove
  <2>1. \A j \in Keys : calls'[j].job = calls[j].job /\ calls'[j].ran = calls[j].ran
    <3> DEFINE c == k
    <3>1. Alters(c, {"pc", "id", "wire"})
      BY <1>6, <1>0, TakeCallShape
    <3> HIDE DEF c
    <3> QED
      BY <3>1 DEF Alters, Fields
  <2> QED
    BY <2>1, JobsKept
<1>7. ASSUME NEW k \in Keys, EnterCall(k) PROVE JobsMove
  <2>1. \A j \in Keys : calls'[j].job = calls[j].job /\ calls'[j].ran = calls[j].ran
    <3> DEFINE c == k
    <3>1. Alters(c, {"pc"})
      BY <1>7, <1>0, EnterCallShape
    <3> HIDE DEF c
    <3> QED
      BY <3>1 DEF Alters, Fields
  <2> QED
    BY <2>1, JobsKept
<1>8. ASSUME NEW k \in Keys, SendCall(k) PROVE JobsMove
  <2>1. CASE Threw(k)
    BY <2>1, JobsThrown
  <2>2. CASE Alters(k, {"pc"})
    <3>1. \A j \in Keys : calls'[j].job = calls[j].job /\ calls'[j].ran = calls[j].ran
      BY <2>2 DEF Came, Alters, Fields
    <3> QED
      BY <3>1, JobsKept
  <2> QED
    BY <1>8, <1>0, <2>1, <2>2, SendCallShape
<1>9. ASSUME NEW k \in Keys, ReturnCall(k) PROVE JobsMove
  <2>1. CASE Threw(k)
    BY <2>1, JobsThrown
  <2>2. CASE Came(k)
    <3>1. \A j \in Keys : calls'[j].job = calls[j].job /\ calls'[j].ran = calls[j].ran
      BY <2>2 DEF Came, Alters, Fields
    <3> QED
      BY <3>1, JobsKept
  <2> QED
    BY <1>9, <1>0, <2>1, <2>2, ReturnCallShape
<1>10. ASSUME NEW k \in Keys, JobQueue(k) PROVE JobsMove
  <2>1. Alters(k, {"job"}) /\ k # 1 /\ calls[k].job # "none"
    BY <1>10, <1>0, JobQueueShape
  <2> QED
    BY <2>1, JobsMoved DEF JobMove
<1>11. ASSUME NEW k \in Keys, JobReply(k) PROVE JobsMove
  <2>1. Alters(k, {"job"}) /\ calls[k].job \in {"ran", "dead"}
    BY <1>11, <1>0, JobReplyShape
  <2>2. k # 1
    BY <1>0, <2>1 DEF JobInv, JobOK
  <2> QED
    BY <2>1, <2>2, JobsMoved DEF JobMove
<1>12. ASSUME Welcome PROVE JobsMove
  BY <1>12, <1>0, JobsSame, WelcomeShape
<1>13. ASSUME Spawn PROVE JobsMove
  BY <1>13, <1>0, JobsSame, SpawnShape
<1>14. ASSUME Serve PROVE JobsMove
  <2> DEFINE k == net["S"][1].k
  <2>1. CASE UNCHANGED calls
    BY <2>1, JobsKept
  <2>2. CASE ~UNCHANGED calls
    <3>1. Alters(k, {"job", "to", "ref"}) /\ Reading1("S") /\ net["S"][1].t = "call"
      BY <1>14, <1>0, <2>2, ServeShape
    <3>2. Consumed("S", k)
      BY <3>1 DEF Consumed, Reading1, Taking, IsRequest
    <3> HIDE DEF k
    <3> QED
      BY <3>1, <3>2, JobsMoved, EndParts DEF JobMove
  <2> QED
    BY <2>1, <2>2
<1>15. ASSUME Disconnected PROVE JobsMove
  BY <1>15, <1>0, JobsSame, DisconnectedShape DEF linkVars
<1>16. ASSUME CleanedUp PROVE JobsMove
  BY <1>16, <1>0, JobsSame DEF CleanedUp, linkVars
<1>17. ASSUME Released PROVE JobsMove
  BY <1>17, <1>0, JobsSame DEF Released, own
<1>18. ASSUME HelloAnswer PROVE JobsMove
  BY <1>18, <1>0, JobsSame, HelloAnswerShape DEF own
<1>19. ASSUME Refer PROVE JobsMove
  <2> DEFINE k == net["C"][1].k
  <2>1. CASE UNCHANGED calls
    BY <2>1, JobsKept
  <2>2. CASE ~UNCHANGED calls
    <3>1. Alters(k, {"job", "to"}) /\ Reading1("C") /\ net["C"][1].t = "call"
      BY <1>19, <1>0, <2>2, ReferShape
    <3>2. Consumed("C", k)
      BY <3>1 DEF Consumed, Reading1, Taking, IsRequest
    <3> HIDE DEF k
    <3> QED
      BY <3>1, <3>2, JobsMoved, EndParts DEF JobMove
  <2> QED
    BY <2>1, <2>2
<1>20. ASSUME Hangup PROVE JobsMove
  BY <1>20, <1>0, JobsSame DEF Hangup, own
<1>21. ASSUME NEW e \in Ends, Result(e) PROVE JobsMove
  <2>1. \A j \in Keys : calls'[j].job = calls[j].job /\ calls'[j].ran = calls[j].ran
    <3> DEFINE c == net[e][1].k
    <3>1. Alters(c, {"gift"}) \/ UNCHANGED calls
      BY <1>21, <1>0, ResultShape
    <3> HIDE DEF c
    <3> QED
      BY <3>1 DEF Alters, Fields
  <2> QED
    BY <2>1, JobsKept
<1>22. ASSUME NEW e \in Ends, Output(e) PROVE JobsMove
  BY <1>22, <1>0, JobsSame, OutputShape
<1>23. ASSUME NEW e \in Ends, CloseFd(e), UNCHANGED own PROVE JobsMove
  BY <1>23, <1>0, JobsSame, CloseFdShape DEF own
<1>24. ASSUME NEW e \in Ends, CloseTable(e), UNCHANGED own PROVE JobsMove
  BY <1>24, <1>0, JobsSame, CloseTableShape DEF own
<1>25. ASSUME NEW a \in {"A", "L"}, Begin(a) PROVE JobsMove
  <2> DEFINE k == actors[a].q[1]
  <2>1. Alters(k, {"ran"}) /\ InHand(k, a) /\ actors[a].q # <<>> /\ k \in Keys
    BY <1>25, <1>0, BeginShape
  <2>2. k # 1 => calls[k].job # "none"
    BY <2>1 DEF InHand
  <2>3. k = 1 => ~Unspawned
    <3>1. k = 1 => a = "A"
      BY <1>0, <2>1 DEF InHand, Actor, StageInv, Keys
    <3> QED
      BY <1>0, <2>1, <3>1 DEF SpawnInv
  <2> HIDE DEF k
  <2> QED
    BY <2>1, <2>2, <2>3, JobsMoved DEF JobMove
<1>26. ASSUME NEW a \in {"A", "L"}, DoPrint(a) PROVE JobsMove
  <2>1. \A j \in Keys : calls'[j].job = calls[j].job /\ calls'[j].ran = calls[j].ran
    <3> DEFINE c == actors[a].cur
    <3>1. Alters(c, {"body"})
      BY <1>26, <1>0, DoPrintShape
    <3> HIDE DEF c
    <3> QED
      BY <3>1 DEF Alters, Fields
  <2> QED
    BY <2>1, JobsKept
<1>27. ASSUME DoKeep("A") PROVE JobsMove
  <2>1. \A j \in Keys : calls'[j].job = calls[j].job /\ calls'[j].ran = calls[j].ran
    <3> DEFINE c == actors["A"].cur
    <3>1. Alters(c, {"body"})
      BY <1>27, <1>0, DoKeepShape
    <3> HIDE DEF c
    <3> QED
      BY <3>1 DEF Alters, Fields
  <2> QED
    BY <2>1, JobsKept
<1>28. ASSUME DoBack("A") PROVE JobsMove
  <2>1. \A j \in Keys : calls'[j].job = calls[j].job /\ calls'[j].ran = calls[j].ran
    <3> DEFINE c == actors["A"].cur
    <3>1. Alters(c, {"body", "last"})
      BY <1>28, <1>0, DoBackShape
    <3> HIDE DEF c
    <3> QED
      BY <3>1 DEF Alters, Fields
  <2> QED
    BY <2>1, JobsKept
<1>29. ASSUME DoAwait("A") PROVE JobsMove
  <2>1. \A j \in Keys : calls'[j].job = calls[j].job /\ calls'[j].ran = calls[j].ran
    <3> DEFINE k == actors["A"].cur
               c == calls[k].last
    <3>1. /\ k \in Keys /\ (c # 0 => c \in Keys)
          /\ \A j \in Keys : j # k /\ j # c => calls'[j] = calls[j]
          /\ \A f \in Fields \ {"body"} : calls'[k][f] = calls[k][f]
          /\ c # 0 => \A f \in Fields \ {"waited"} : calls'[c][f] = calls[c][f]
      BY <1>29, <1>0, DoAwaitShape
    <3>2. 0 \notin Keys
      BY <1>0, ListOf
    <3> HIDE DEF k, c
    <3> QED
      BY <3>1, <3>2, ZenonT(120) DEF Fields
  <2> QED
    BY <2>1, JobsKept
<1>30. ASSUME NEW a \in {"A", "L"}, Finish(a) PROVE JobsMove
  <2> DEFINE k == actors[a].cur
  <2>1. Alters(k, {"job"}) /\ InHand(k, a) /\ actors[a].cur # 0 /\ k \in Keys
    BY <1>30, <1>0, FinishShape
  <2>2. k # 1 => calls[k].job # "none"
    BY <2>1 DEF InHand
  <2>3. k = 1 => ~Unspawned
    <3>1. k = 1 => a = "A"
      BY <1>0, <2>1 DEF InHand, Actor, StageInv, Keys
    <3> QED
      BY <1>0, <2>1, <3>1 DEF SpawnInv
  <2> HIDE DEF k
  <2> QED
    BY <2>1, <2>2, <2>3, JobsMoved DEF JobMove
<1>31. ASSUME Exit("A") PROVE JobsMove
  BY <1>31, <1>0, JobsSame, ExitShape DEF linkVars
<1>32. ASSUME NEW p \in DOMAIN proxies, Drop(p) PROVE JobsMove
  BY <1>32, <1>0, JobsSame, DropShape
<1>33. ASSUME Forget PROVE JobsMove
  BY <1>33, <1>0, JobsSame, ForgetShape DEF linkVars
<1>34. ASSUME Leave PROVE JobsMove
  BY <1>34, <1>0, JobsSame DEF Leave
<1>35. ASSUME NEW e \in Ends, Crash(e) PROVE JobsMove
  BY <1>35, <1>0, JobsSame DEF Crash
<1>36. ASSUME UNCHANGED vars PROVE JobsMove
  BY <1>36, <1>0, JobsSame DEF vars, linkVars, own
<1> QED
  BY <1>1, <1>2, <1>3, <1>4, <1>5, <1>6, <1>7, <1>8, <1>9, <1>10, <1>11, <1>12, <1>13, <1>14,
     <1>15, <1>16, <1>17, <1>18, <1>19, <1>20, <1>21, <1>22, <1>23, <1>24, <1>25, <1>26,
     <1>27, <1>28, <1>29, <1>30, <1>31, <1>32, <1>33, <1>34, <1>35, <1>36
     DEF Next, Step, Environment

RequestNew(e, f) ==
  /\ f.k \in Keys /\ calls[f.k].end = Peer(e) /\ f.id = calls[f.k].id /\ f.id # 0
  /\ f.t = "spawn" <=> f.k = 1
  /\ f.k # 1 => f.aid # 0
  /\ f.t = "call" => f.ref = calls[f.k].wire
  /\ calls[f.k].job = "none" /\ calls[f.k].ran = <<>>
  /\ calls[f.k].pc = "entered" /\ calls'[f.k].pc = "wait"

ResultNew(e, f) ==
  /\ f.k \in Keys /\ calls[f.k].end = e /\ f.id = calls[f.k].id /\ f.id # 0
  /\ calls[f.k].pc \in {"wait", "done"}
  /\ f.ref # 0 => calls[f.k].gives
  /\ f.k # 1 => calls'[f.k].job \in {"none", "sent"}
  /\ f.st = "ok" => f.k = 1 \/ (/\ calls'[f.k].job = "sent" /\ calls[f.k].ran # <<>>
                                /\ calls[f.k].body = <<>>)
  /\ calls[f.k].job \in {"ran", "dead"} \/ Consumed("S", f.k)

NewFrame(e, f) ==
  /\ f \in Frames
  /\ IsRequest(f) => RequestNew(e, f)
  /\ f.t = "result" => ResultNew(e, f)
  /\ f.t = "out" => OutOK(e, f)

NetMove(e) ==
  \/ net'[e] = net[e]
  \/ net[e] # <<>> /\ net'[e] = Tail(net[e])
  \/ \E f \in Frames : net'[e] = Append(net[e], f) /\ NewFrame(e, f)

NetsMove == \A e \in Ends : NetMove(e)

(* A frame is sent, read, or read and answered. *)
LEMMA SendMove ==
  ASSUME NEW e \in Ends, NEW f, Sending(e, f), NewFrame(Peer(e), f)
  PROVE  NetsMove
<1>1. NetMove(e) /\ NetMove(Peer(e))
  BY DEF Sending, NetMove
<1> QED
  BY <1>1, EndParts DEF NetsMove

(* A frame is read. *)
LEMMA ReadMove ==
  ASSUME NEW e \in Ends, Reading1(e)
  PROVE  NetsMove
<1>1. NetMove(e) /\ NetMove(Peer(e))
  BY DEF Reading1, Taking, NetMove
<1> QED
  BY <1>1, EndParts DEF NetsMove

(* A frame is read and answered. *)
LEMMA ReplyMove ==
  ASSUME NEW e \in Ends, NEW f, Replying(e, f), NewFrame(Peer(e), f)
  PROVE  NetsMove
<1>1. NetMove(e) /\ NetMove(Peer(e))
  BY DEF Replying, Taking, NetMove
<1> QED
  BY <1>1, EndParts DEF NetsMove

(* No frame moves. *)
LEMMA NetsSame ==
  ASSUME UNCHANGED <<net>>
  PROVE  NetsMove
BY DEF NetsMove, NetMove

(* Every frame. *)
LEMMA NetsStep ==
  ASSUME Inv, [Next]_vars
  PROVE  NetsMove
<1>0. /\ TypeInv /\ StageInv /\ RefInv /\ FrameInv /\ IdInv /\ SlotInv /\ JobInv /\ QueueInv
      /\ TakenInv /\ SpawnInv
  BY DEF Inv
<1>1. ASSUME Connect PROVE NetsMove
  <2> DEFINE f == [t |-> "hello"]
  <2>1. Sending("C", f) /\ f.t = "hello"
    BY <1>1, <1>0, ConnectShape
  <2> HIDE DEF f
  <2>2. NewFrame(Peer("C"), f)
    BY <2>1 DEF NewFrame, Sending, IsRequest
  <2> QED
    BY <2>1, <2>2, SendMove, EndParts
<1>2. ASSUME EnterSlot PROVE NetsMove
  BY <1>2, <1>0, NetsSame, EnterSlotShape
<1>3. ASSUME TakeFuture PROVE NetsMove
  BY <1>3, <1>0, NetsSame, TakeFutureShape
<1>4. ASSUME Greeted PROVE NetsMove
  BY <1>4, <1>0, NetsSame, GreetedShape
<1>5. ASSUME Unwind PROVE NetsMove
  BY <1>5, <1>0, NetsSame, UnwindShape DEF own
<1>6. ASSUME NEW k \in Keys, TakeCall(k) PROVE NetsMove
  BY <1>6, <1>0, NetsSame, TakeCallShape
<1>7. ASSUME NEW k \in Keys, EnterCall(k) PROVE NetsMove
  BY <1>7, <1>0, NetsSame, EnterCallShape
<1>8. ASSUME NEW k \in Keys, SendCall(k) PROVE NetsMove
  <2>0. /\ calls[k].pc = "entered" /\ calls[k].end \in Ends /\ Sending(calls[k].end, Frame(k))
        /\ net' = net \/ calls'[k].pc = "wait"
    BY <1>8, <1>0, SendCallShape
  <2>1. CASE net' = net
    BY <2>1, NetsSame
  <2>2. CASE calls'[k].pc = "wait"
    <3> DEFINE f == Frame(k)
    <3>1. /\ f.k = k /\ f.id = calls[k].id /\ f.ref = calls[k].wire
          /\ f.t = IF calls[k].via = 0 THEN "spawn" ELSE "call"
          /\ calls[k].via # 0 => f.aid = proxies[calls[k].via].aid
      BY DEF Frame
    <3>2. f \in Frames
      BY <2>0 DEF Sending
    <3> HIDE DEF f
    <3>3. calls[k].via = 0 <=> k = 1
      BY <1>0 DEF StageInv, RefInv, RefOK, Keys
    <3>4. calls[k].via # 0 => proxies[calls[k].via].aid # 0
      <4>1. calls[k].via # 0 => calls[k].via \in 1 .. Len(proxies)
        BY <1>0, <3>3 DEF RefInv, RefOK
      <4>2. proxies \in Seq(ProxyRec)
        BY <1>0 DEF TypeInv, OwnType
      <4>3. calls[k].via # 0 => proxies[calls[k].via] \in ProxyRec
        BY <4>1, <4>2
      <4> QED
        BY <4>3 DEF ProxyRec
    <3>5. calls[k].job = "none" /\ calls[k].ran = <<>>
      <4>1. CASE k # 1
        BY <1>0, <2>0, <4>1 DEF JobInv, JobOK
      <4>2. CASE k = 1
        BY <1>0, <2>0, <4>2 DEF SpawnInv, Unspawned, Keys
      <4> QED
        BY <4>1, <4>2
    <3>6. calls[k].id # 0
      BY <1>0, <2>0 DEF IdInv, IdOK
    <3>7. RequestNew(Peer(calls[k].end), f)
      BY <2>0, <2>2, <3>1, <3>3, <3>4, <3>5, <3>6, EndParts DEF RequestNew
    <3>8. NewFrame(Peer(calls[k].end), f)
      BY <3>1, <3>2, <3>7 DEF NewFrame
    <3>9. Sending(calls[k].end, f)
      BY <2>0 DEF f
    <3> QED
      BY <2>0, <3>8, <3>9, SendMove
  <2> QED
    BY <2>0, <2>1, <2>2
<1>9. ASSUME NEW k \in Keys, ReturnCall(k) PROVE NetsMove
  BY <1>9, <1>0, NetsSame, ReturnCallShape DEF linkVars
<1>10. ASSUME NEW k \in Keys, JobQueue(k) PROVE NetsMove
  BY <1>10, <1>0, NetsSame, JobQueueShape DEF linkVars
<1>11. ASSUME NEW k \in Keys, JobReply(k) PROVE NetsMove
  <2> DEFINE good == calls[k].job = "ran"
             f == Answer(k, good, Given(k))
  <2>0. /\ calls[k].job \in {"ran", "dead"} /\ calls'[k].job = "sent" /\ Peered(k) \in Ends
        /\ calls[k].end \in Ends /\ Peer(Peered(k)) = calls[k].end /\ Sending(Peered(k), f)
    BY <1>11, <1>0, JobReplyShape
  <2>1. /\ f.k = k /\ f.id = calls[k].id /\ f.t = "result" /\ f.ref = Given(k)
        /\ f.st = IF good THEN "ok" ELSE "err"
    BY DEF Answer
  <2>2. f \in Frames
    BY <2>0 DEF Sending
  <2>3. Given(k) # 0 => calls[k].gives
    BY DEF Given
  <2>4. k # 1 /\ calls[k].id # 0 /\ calls[k].pc \in {"wait", "done"}
        /\ (good => calls[k].ran # <<>> /\ calls[k].body = <<>>)
    BY <1>0, <2>0 DEF JobInv, JobOK
  <2> HIDE DEF f, good
  <2>5. ResultNew(calls[k].end, f)
    BY <2>0, <2>1, <2>3, <2>4 DEF ResultNew
  <2>6. NewFrame(calls[k].end, f)
    BY <2>1, <2>2, <2>5 DEF NewFrame, IsRequest
  <2> QED
    BY <2>0, <2>6, SendMove
<1>12. ASSUME Welcome PROVE NetsMove
  <2>1. PICK f \in Frames : Replying("S", f) /\ f.t \in {"helloOk", "helloErr"}
    BY <1>12, <1>0, WelcomeShape
  <2>2. NewFrame(Peer("S"), f)
    BY <2>1 DEF NewFrame, IsRequest
  <2> QED
    BY <2>1, <2>2, ReplyMove, EndParts
<1>13. ASSUME Spawn PROVE NetsMove
  <2>0. net["S"][1].t = "spawn" /\ net["S"][1].k = 1 /\ 1 \in Keys
    BY <1>13, <1>0, SpawnShape
  <2>1. PICK valid \in BOOLEAN : Replying("S", Answer(1, valid, 0))
    BY <1>13, <1>0, SpawnShape
  <2> DEFINE f == Answer(1, valid, 0)
  <2>2. f.k = 1 /\ f.id = calls[1].id /\ f.t = "result" /\ f.ref = 0
    BY DEF Answer
  <2>3. Replying("S", f) /\ f \in Frames /\ Taking("S")
    BY <2>1 DEF Replying
  <2> HIDE DEF f
  <2>4. Consumed("S", 1)
    BY <2>0, <2>3 DEF Consumed, Taking, IsRequest
  <2>5. RequestOK("S", net["S"][1])
    BY <1>0, <2>0, <2>3, EndParts DEF FrameInv, FrameOK, IsRequest, Taking
  <2>6. calls[1].end = "C" /\ calls[1].id # 0 /\ calls[1].pc \in {"wait", "done"}
    BY <2>0, <2>5, EndParts DEF RequestOK
  <2>7. ResultNew("C", f)
    BY <2>0, <2>2, <2>4, <2>6 DEF ResultNew
  <2>8. NewFrame(Peer("S"), f)
    BY <2>2, <2>3, <2>7, EndParts DEF NewFrame, IsRequest
  <2> QED
    BY <2>3, <2>8, ReplyMove, EndParts
<1>14. ASSUME Serve PROVE NetsMove
  <2>1. CASE Reading1("S")
    BY <2>1, ReadMove, EndParts
  <2>2. CASE Replying("S", Answer(net["S"][1].k, FALSE, 0)) /\ UNCHANGED calls
    <3> DEFINE k == net["S"][1].k
               f == Answer(k, FALSE, 0)
    <3>1. f.k = k /\ f.id = calls[k].id /\ f.t = "result" /\ f.ref = 0 /\ f.st = "err"
      BY DEF Answer
    <3>2. Replying("S", f) /\ f \in Frames /\ Taking("S")
      BY <2>2 DEF Replying
    <3>3. net["S"][1].t = "call" /\ RequestOK("S", net["S"][1])
      BY <1>14, <1>0, ServeShape DEF FrameOK, IsRequest
    <3>4. Consumed("S", k)
      BY <3>2, <3>3 DEF Consumed, Taking, IsRequest
    <3>5. /\ k \in Keys /\ calls[k].end = "C" /\ calls[k].id # 0 /\ calls[k].pc \in {"wait", "done"}
          /\ calls[k].job = "none"
      BY <3>3, EndParts DEF RequestOK
    <3>6. calls'[k].job = "none"
      BY <2>2, <3>5
    <3> HIDE DEF f, k
    <3>7. ResultNew("C", f)
      BY <3>1, <3>4, <3>5, <3>6 DEF ResultNew
    <3>8. NewFrame(Peer("S"), f)
      BY <3>1, <3>2, <3>7, EndParts DEF NewFrame, IsRequest
    <3> QED
      BY <3>2, <3>8, ReplyMove, EndParts
  <2> QED
    BY <1>14, <1>0, <2>1, <2>2, ServeShape
<1>15. ASSUME Disconnected PROVE NetsMove
  BY <1>15, <1>0, NetsSame, DisconnectedShape DEF linkVars
<1>16. ASSUME CleanedUp PROVE NetsMove
  BY <1>16, <1>0, NetsSame DEF CleanedUp, linkVars
<1>17. ASSUME Released PROVE NetsMove
  BY <1>17, <1>0, NetsSame DEF Released, own
<1>18. ASSUME HelloAnswer PROVE NetsMove
  <2>1. Reading1("C")
    BY <1>18, <1>0, HelloAnswerShape
  <2> QED
    BY <2>1, ReadMove, EndParts
<1>19. ASSUME Refer PROVE NetsMove
  <2>1. Reading1("C")
    BY <1>19, <1>0, ReferShape
  <2> QED
    BY <2>1, ReadMove, EndParts
<1>20. ASSUME Hangup PROVE NetsMove
  BY <1>20, <1>0, NetsSame DEF Hangup, own
<1>21. ASSUME NEW e \in Ends, Result(e) PROVE NetsMove
  <2>1. Reading1(e)
    BY <1>21, <1>0, ResultShape
  <2> QED
    BY <2>1, ReadMove
<1>22. ASSUME NEW e \in Ends, Output(e) PROVE NetsMove
  <2>1. CASE Reading1(e)
    BY <2>1, ReadMove
  <2>2. CASE e = "S" /\ Replying(e, [net[e][1] EXCEPT !.id = calls[calls[net[e][1].k].route].id])
    <3> DEFINE g == net["S"][1]
               k == g.k
               f == [g EXCEPT !.id = calls[calls[k].route].id]
    <3>1. g.t = "out" /\ g \in Frames /\ k \in Keys /\ OutOK("S", g)
      BY <1>22, <1>0, <2>2, OutputShape DEF FrameOK, Taking
    <3>2. g \in Outputs
      BY <3>1, FrameKind
    <3>3. f.t = "out" /\ f.k = k /\ f.id = calls[calls[k].route].id
      BY <3>1, <3>2 DEF Outputs
    <3>4. Replying("S", f) /\ f \in Frames
      BY <2>2 DEF Replying
    <3>5. calls[k].end = "S"
      BY <3>1 DEF OutOK
    <3> HIDE DEF f, g, k
    <3>6. calls[k].route \in Keys /\ calls[calls[k].route].ran # <<>>
      BY <1>0, <3>1, <3>5 DEF RefInv, RefOK
    <3>7. calls[calls[k].route].id # 0
      <4>1. calls[k].route # 1 => calls[calls[k].route].id # 0
        BY <1>0, <3>6, CallOf, CallType DEF JobInv, JobOK, Jobs
      <4>2. calls[k].route = 1 => calls[calls[k].route].id # 0
        BY <1>0, <3>6 DEF StageInv, Keys
      <4> QED
        BY <4>1, <4>2
    <3>8. Own(k) = calls[k].route
      BY <3>5 DEF Own
    <3>9. NewFrame(Peer("S"), f)
      BY <3>1, <3>3, <3>4, <3>7, <3>8, EndParts DEF NewFrame, OutOK, IsRequest
    <3> QED
      BY <3>4, <3>9, ReplyMove, EndParts, ZenonT(120)
  <2> QED
    BY <1>22, <1>0, <2>1, <2>2, OutputShape
<1>23. ASSUME NEW e \in Ends, CloseFd(e), UNCHANGED own PROVE NetsMove
  BY <1>23, <1>0, NetsSame, CloseFdShape DEF own
<1>24. ASSUME NEW e \in Ends, CloseTable(e), UNCHANGED own PROVE NetsMove
  BY <1>24, <1>0, NetsSame, CloseTableShape DEF own
<1>25. ASSUME NEW a \in {"A", "L"}, Begin(a) PROVE NetsMove
  BY <1>25, <1>0, NetsSame, BeginShape DEF linkVars
<1>26. ASSUME NEW a \in {"A", "L"}, DoPrint(a) PROVE NetsMove
  <2> DEFINE k == actors[a].cur
             f == [t |-> "out", id |-> calls[k].id, k |-> k]
  <2>0. /\ k \in Keys /\ InHand(k, a) /\ Home(a) \in Ends /\ Peered(k) = Home(a)
        /\ phase[Home(a)] = "open" => Sending(Home(a), f)
        /\ phase[Home(a)] # "open" => net' = net
    BY <1>26, <1>0, DoPrintShape
  <2>1. CASE net' = net
    BY <2>1, NetsSame
  <2>2. CASE Sending(Home(a), f)
    <3>1. f.t = "out" /\ f.k = k /\ f.id = calls[k].id
      OBVIOUS
    <3>2. f \in Frames
      BY <2>2 DEF Sending
    <3> HIDE DEF f, k
    <3>3. calls[k].id # 0
      BY <1>0, <2>0 DEF InHand, JobInv, JobOK, StageInv, Keys
    <3>4. Peer(Home(a)) = calls[k].end /\ calls[k].end \in Ends
      BY <1>0, <2>0, CallerEnd
    <3>5. calls[k].end = "C" => Own(k) = k
      BY DEF Own
    <3>6. NewFrame(Peer(Home(a)), f)
      BY <2>0, <3>1, <3>2, <3>3, <3>4, <3>5 DEF NewFrame, OutOK, IsRequest
    <3> QED
      BY <2>0, <2>2, <3>6, SendMove
  <2> QED
    BY <2>0, <2>1, <2>2
<1>27. ASSUME DoKeep("A") PROVE NetsMove
  BY <1>27, <1>0, NetsSame, DoKeepShape DEF linkVars
<1>28. ASSUME DoBack("A") PROVE NetsMove
  BY <1>28, <1>0, NetsSame, DoBackShape DEF linkVars
<1>29. ASSUME DoAwait("A") PROVE NetsMove
  BY <1>29, <1>0, NetsSame, DoAwaitShape DEF linkVars
<1>30. ASSUME NEW a \in {"A", "L"}, Finish(a) PROVE NetsMove
  BY <1>30, <1>0, NetsSame, FinishShape DEF linkVars
<1>31. ASSUME Exit("A") PROVE NetsMove
  BY <1>31, <1>0, NetsSame, ExitShape DEF linkVars
<1>32. ASSUME NEW p \in DOMAIN proxies, Drop(p) PROVE NetsMove
  BY <1>32, <1>0, NetsSame, DropShape
<1>33. ASSUME Forget PROVE NetsMove
  BY <1>33, <1>0, NetsSame, ForgetShape DEF linkVars
<1>34. ASSUME Leave PROVE NetsMove
  BY <1>34, <1>0, NetsSame DEF Leave
<1>35. ASSUME NEW e \in Ends, Crash(e) PROVE NetsMove
  BY <1>35, <1>0, NetsSame DEF Crash
<1>36. ASSUME UNCHANGED vars PROVE NetsMove
  BY <1>36, <1>0, NetsSame DEF vars, linkVars, own
<1> QED
  BY <1>1, <1>2, <1>3, <1>4, <1>5, <1>6, <1>7, <1>8, <1>9, <1>10, <1>11, <1>12, <1>13, <1>14,
     <1>15, <1>16, <1>17, <1>18, <1>19, <1>20, <1>21, <1>22, <1>23, <1>24, <1>25, <1>26,
     <1>27, <1>28, <1>29, <1>30, <1>31, <1>32, <1>33, <1>34, <1>35, <1>36
     DEF Next, Step, Environment

-----------------------------------------------------------------------------
(* The invariant is kept: the frames under way *)

(* What is known of a step, for the frames. *)
LEMMA FrameFacts ==
  ASSUME Inv, [Next]_vars
  PROVE  /\ TypeInv /\ StageInv /\ IdInv /\ FrameInv /\ OnceInv /\ ApartInv /\ JobInv /\ SpawnInv
         /\ CallsGrow /\ AllBorn /\ IdsMove /\ JobsMove /\ NetsMove /\ SlotsMove /\ TypeInv'
BY TableFacts, JobsStep, NetsStep DEF Inv

(* Where a frame was before. *)
Was(e, i, j) == j \in DOMAIN net[e] /\ net'[e][i] = net[e][j]

(* It has just been sent, or it was there, at the same place or one later. *)
LEMMA Placed ==
  ASSUME Inv, [Next]_vars, NEW e \in Ends
  PROVE  \/ \A i \in DOMAIN net'[e] : Was(e, i, i)
         \/ \A i \in DOMAIN net'[e] : Was(e, i, i + 1)
         \/ \E n \in DOMAIN net'[e] : /\ NewFrame(e, net'[e][n])
                                      /\ \A i \in DOMAIN net'[e] \ {n} : Was(e, i, i)
<1>0. NetMove(e) /\ TypeInv
  BY FrameFacts DEF NetsMove
<1>1. net[e] \in Seq(Frames)
  BY <1>0, NetType
<1>2. CASE net'[e] = net[e]
  BY <1>2 DEF Was
<1>3. CASE net[e] # <<>> /\ net'[e] = Tail(net[e])
  BY <1>1, <1>3, TailFrames DEF Was
<1>4. ASSUME NEW f \in Frames, net'[e] = Append(net[e], f), NewFrame(e, f)
      PROVE  \E n \in DOMAIN net'[e] : /\ NewFrame(e, net'[e][n])
                                       /\ \A i \in DOMAIN net'[e] \ {n} : Was(e, i, i)
  <2> DEFINE n == Len(net[e]) + 1
             t == Append(net[e], f)
  <2>1. /\ Len(net[e]) \in Nat /\ DOMAIN net[e] = 1 .. Len(net[e])
        /\ DOMAIN t = 1 .. n /\ t[n] = f /\ \A i \in DOMAIN net[e] : t[i] = net[e][i]
    BY <1>1, AppendFrames
  <2>2. net'[e] = t
    BY <1>4
  <2> HIDE DEF t
  <2>3. n \in DOMAIN net'[e] /\ net'[e][n] = f
    BY <2>1, <2>2
  <2>4. \A i \in DOMAIN net'[e] \ {n} : Was(e, i, i)
    BY <2>1, <2>2 DEF Was
  <2> HIDE DEF n
  <2> QED
    BY <1>4, <2>3, <2>4
<1> QED
  BY <1>0, <1>2, <1>3, <1>4 DEF NetMove

(* A frame under way is new or has been there. *)
LEMMA Origin ==
  ASSUME Inv, [Next]_vars, NEW e \in Ends, NEW i \in DOMAIN net'[e]
  PROVE  NewFrame(e, net'[e][i]) \/ \E j \in DOMAIN net[e] : net'[e][i] = net[e][j]
BY Placed DEF Was

(* A frame that was there satisfied the invariant. *)
LEMMA OldFrame ==
  ASSUME Inv, [Next]_vars, NEW e \in Ends, NEW i \in DOMAIN net'[e], ~NewFrame(e, net'[e][i])
  PROVE  FrameOK(e, net'[e][i]) /\ net'[e][i] \in Frames
<1>1. PICK j \in DOMAIN net[e] : net'[e][i] = net[e][j]
  BY Origin
<1>2. FrameOK(e, net[e][j]) /\ net[e][j] \in Frames
  BY FrameFacts, NetType DEF FrameInv
<1> QED
  BY <1>1, <1>2

(* A request that has been read was the only one for its call. *)
LEMMA NoMore ==
  ASSUME Inv, [Next]_vars, NEW c \in Ends, NEW k, Consumed(c, k), NEW e \in Ends,
         NEW i \in DOMAIN net'[e], IsRequest(net'[e][i]), ~NewFrame(e, net'[e][i])
  PROVE  net'[e][i].k # k
<1>0. FrameInv /\ OnceInv /\ TypeInv
  BY FrameFacts
<1>1. net[c] \in Seq(Frames) /\ net[c] # <<>> /\ 1 \in DOMAIN net[c]
  <2>1. net[c] \in Seq(Frames) /\ net[c] # <<>>
    BY <1>0, NetType DEF Consumed
  <2> QED
    BY <2>1
<1>2. RequestOK(c, net[c][1]) /\ IsRequest(net[c][1]) /\ net[c][1].k = k
  BY <1>0, <1>1 DEF FrameInv, FrameOK, Consumed
<1>3. CASE e = c
  <2>1. DOMAIN Tail(net[c]) = DOMAIN net'[e] /\ net'[e][i] = Tail(net[c])[i]
    BY <1>3 DEF Consumed
  <2>2. i + 1 \in DOMAIN net[c] /\ net'[e][i] = net[c][i + 1] /\ i + 1 # 1
    <3> DEFINE t == Tail(net[c])
    <3>1. /\ DOMAIN t = 1 .. Len(net[c]) - 1 /\ Len(net[c]) \in Nat
          /\ \A j \in DOMAIN t : j + 1 \in DOMAIN net[c] /\ t[j] = net[c][j + 1]
      BY <1>1, TailFrames
    <3> HIDE DEF t
    <3>2. i \in DOMAIN t /\ net'[e][i] = t[i]
      BY <2>1 DEF t
    <3> QED
      BY <3>1, <3>2
  <2> QED
    BY <1>0, <1>1, <1>2, <2>2 DEF OnceInv
<1>4. CASE e # c
  <2>1. RequestOK(e, net'[e][i])
    BY OldFrame DEF FrameOK
  <2> QED
    BY <1>2, <1>4, <2>1, EndParts DEF RequestOK
<1> QED
  BY <1>3, <1>4

(* The frames are what they were sent as. *)
LEMMA FrameStep ==
  ASSUME Inv, [Next]_vars
  PROVE  FrameInv'
<1>0. /\ TypeInv /\ StageInv /\ IdInv /\ FrameInv /\ ApartInv /\ JobInv /\ SpawnInv
      /\ CallsGrow /\ AllBorn /\ IdsMove /\ JobsMove /\ SlotsMove
  BY FrameFacts
<1> SUFFICES ASSUME NEW e \in Ends, NEW i \in DOMAIN net'[e], NEW f, f = net'[e][i]
             PROVE  FrameOK(e, f)'
  BY DEF FrameInv
<1>1. \A k \in Keys : k \in Keys' /\ Older(k)
  BY <1>0, ListOf DEF CallsGrow, Keys
<1>2. ASSUME IsRequest(f) PROVE RequestOK(e, f)'
  <2>1. CASE NewFrame(e, f)
    <3>1. RequestNew(e, f)
      BY <1>2, <2>1 DEF NewFrame
    <3> DEFINE k == f.k
    <3>2. k \in Keys /\ Older(k) /\ k \in Keys' /\ calls[k].id # 0
      BY <1>1, <3>1 DEF RequestNew
    <3>3. calls'[k].id = calls[k].id /\ calls'[k].end = calls[k].end
      BY <3>2, IdStays
    <3>4. calls'[k].job = "none" /\ calls'[k].ran = <<>>
      <4>0. JobMove(k) /\ calls[k].job = "none" /\ calls[k].pc = "entered" /\ calls[k].ran = <<>>
        BY <1>0, <3>1, <3>2 DEF JobsMove, RequestNew
      <4>1. k = 1 => Unspawned
        BY <4>0 DEF Unspawned
      <4>2. ASSUME NEW c \in Ends, Consumed(c, k) PROVE FALSE
        <5>1. net[c] \in Seq(Frames) /\ net[c] # <<>>
          BY <1>0, <4>2, NetType DEF Consumed
        <5>2. 1 \in DOMAIN net[c]
          BY <5>1
        <5>3. RequestOK(c, net[c][1]) /\ net[c][1].k = k
          BY <1>0, <4>2, <5>2, ZenonT(120) DEF FrameInv, FrameOK, Consumed
        <5> QED
          BY <4>0, <5>3 DEF RequestOK
      <4> HIDE DEF k
      <4> QED
        BY <4>0, <4>1, <4>2 DEF JobMove
    <3> QED
      BY <3>1, <3>2, <3>3, <3>4 DEF RequestNew, RequestOK
  <2>2. CASE ~NewFrame(e, f)
    <3>1. RequestOK(e, f) /\ f \in Frames
      BY <1>2, <2>2, OldFrame DEF FrameOK
    <3> DEFINE k == f.k
    <3>2. k \in Keys /\ Older(k) /\ k \in Keys' /\ calls[k].id # 0
      BY <1>1, <3>1 DEF RequestOK
    <3>3. calls'[k].id = calls[k].id /\ calls'[k].end = calls[k].end
      BY <3>2, IdStays
    <3>4. calls'[k].job = "none" /\ calls'[k].ran = <<>>
      <4>0. JobMove(k) /\ calls[k].job = "none" /\ calls[k].ran = <<>>
        BY <1>0, <3>1, <3>2 DEF JobsMove, RequestOK
      <4>1. k = 1 => Unspawned
        <5> SUFFICES ASSUME k = 1 PROVE Unspawned
          OBVIOUS
        <5>1. PICK j \in DOMAIN net[e] : f = net[e][j]
          BY <2>2, Origin
        <5>2. f.t = "spawn" /\ calls[1].end = Peer(e)
          BY <3>1 DEF RequestOK
        <5>3. calls[1].end = "C"
          BY <1>0, <3>2 DEF StageInv, Keys
        <5>4. e = "S"
          BY <5>2, <5>3, EndParts
        <5> QED
          BY <5>1, <5>2, <5>4 DEF Unspawned
      <4>2. ASSUME NEW c \in Ends, Consumed(c, k) PROVE FALSE
        BY <1>2, <2>2, <4>2, NoMore
      <4> HIDE DEF k
      <4> QED
        BY <4>0, <4>1, <4>2 DEF JobMove
    <3>5. calls'[k].pc \in {"wait", "done"}
      BY <3>1, <3>2 DEF RequestOK, Older
    <3>6. promise'[Peer(e)][f.id].st = "none" => calls'[k].pc = "wait"
      <4> SUFFICES ASSUME promise'[Peer(e)][f.id].st = "none", calls'[k].pc = "done" PROVE FALSE
        BY <3>5
      <4>1. Peer(e) \in Ends /\ f.id \in Ids
        BY <1>2, <3>1, EndParts, FrameFields
      <4>2. SlotMove(Peer(e), f.id)
        BY <1>0, <4>1 DEF SlotsMove
      <4>3. promise[Peer(e)][f.id].st = "none"
        BY <4>2 DEF SlotMove, Untouched, Settled, Entered
      <4>4. calls[k].pc = "wait" /\ calls[k].end = Peer(e) /\ calls[k].id = f.id
        BY <3>1, <4>3 DEF RequestOK
      <4> QED
        BY <1>0, <3>2, <4>3, <4>4 DEF IdsMove
    <3> QED
      BY <3>1, <3>2, <3>3, <3>4, <3>5, <3>6 DEF RequestOK
  <2> QED
    BY <2>1, <2>2
<1>3. ASSUME f.t = "result" PROVE ResultOK(e, f)'
  <2>1. CASE NewFrame(e, f)
    <3>1. ResultNew(e, f)
      BY <1>3, <2>1 DEF NewFrame
    <3> DEFINE k == f.k
    <3>2. k \in Keys /\ Older(k) /\ k \in Keys' /\ calls[k].id # 0
      BY <1>1, <3>1 DEF ResultNew
    <3>3. calls'[k].id = calls[k].id /\ calls'[k].end = calls[k].end
      BY <3>2, IdStays
    <3>4. calls'[k].pc \in {"wait", "done"} /\ (f.ref # 0 => calls'[k].gives)
      BY <3>1, <3>2 DEF ResultNew, Older
    <3>5. f.st = "ok" => Served(k)'
      BY <3>1, <3>2 DEF ResultNew, Older, Served
    <3> QED
      BY <3>1, <3>2, <3>3, <3>4, <3>5 DEF ResultNew, ResultOK
  <2>2. CASE ~NewFrame(e, f)
    <3>1. ResultOK(e, f)
      BY <1>3, <2>2, OldFrame DEF FrameOK
    <3> DEFINE k == f.k
    <3>2. k \in Keys /\ Older(k) /\ k \in Keys' /\ calls[k].id # 0
      BY <1>1, <3>1 DEF ResultOK
    <3>3. calls'[k].id = calls[k].id /\ calls'[k].end = calls[k].end
      BY <3>2, IdStays
    <3>4. calls'[k].pc \in {"wait", "done"} /\ (f.ref # 0 => calls'[k].gives)
      BY <3>1, <3>2, ZenonT(120) DEF ResultOK, Older
    <3>5. f.st = "ok" => Served(k)'
      BY <3>1, <3>2 DEF ResultOK, Older, Served
    <3>6. k # 1 => calls'[k].job \in {"none", "sent"}
      <4>0. JobMove(k) /\ (k # 1 => calls[k].job \in {"none", "sent"})
        BY <1>0, <3>1, <3>2 DEF JobsMove, ResultOK
      <4>1. ASSUME NEW c \in Ends, Consumed(c, k) PROVE FALSE
        <5>1. net[c] \in Seq(Frames) /\ net[c] # <<>>
          BY <1>0, <4>1, NetType DEF Consumed
        <5>2. 1 \in DOMAIN net[c]
          BY <5>1
        <5>3. PICK j \in DOMAIN net[e] : f = net[e][j]
          BY <2>2, Origin
        <5> QED
          BY <1>0, <1>3, <4>1, <5>2, <5>3 DEF ApartInv, Consumed
      <4> HIDE DEF k
      <4> QED
        BY <3>2, <4>0, <4>1 DEF JobMove, Older
    <3> QED
      BY <3>1, <3>2, <3>3, <3>4, <3>5, <3>6 DEF ResultOK
  <2> QED
    BY <2>1, <2>2
<1>4. ASSUME f.t = "out" PROVE OutOK(e, f)'
  <2>1. OutOK(e, f)
    BY <1>4, OldFrame DEF NewFrame, FrameOK
  <2>2. f.k \in Keys /\ f.k \in Keys' /\ Older(f.k)
    BY <1>1, <2>1 DEF OutOK
  <2>3. Own(f.k)' = Own(f.k)
    BY <2>2 DEF Own, Older
  <2>4. e = "S" => calls'[f.k].end = "S" /\ f.id = calls'[f.k].id
    <3> SUFFICES ASSUME e = "S" PROVE calls'[f.k].end = "S" /\ f.id = calls'[f.k].id
      OBVIOUS
    <3>1. calls[f.k].end = "S" /\ f.id = calls[f.k].id /\ f.id # 0
      BY <2>1 DEF OutOK
    <3> QED
      BY <2>2, <3>1, IdStays
  <2>5. e = "C" => f.id = calls'[Own(f.k)].id
    <3> SUFFICES ASSUME e = "C" PROVE f.id = calls'[Own(f.k)].id
      OBVIOUS
    <3>1. f.id = calls[Own(f.k)].id /\ f.id # 0
      BY <2>1, ZenonT(120) DEF OutOK
    <3>2. Own(f.k) \in Keys
      <4>1. calls[f.k].end \in Ends /\ RefOK(f.k)
        BY <1>0, <2>2, CallOf, CallType DEF Inv, RefInv
      <4> QED
        BY <2>2, <4>1, EndParts DEF Own, RefOK
    <3> QED
      BY <3>1, <3>2, IdStays
  <2> QED
    BY <2>1, <2>2, <2>3, <2>4, <2>5 DEF OutOK
<1> QED
  BY <1>2, <1>3, <1>4 DEF FrameOK, IsRequest

(* A request is under way once. *)
LEMMA OnceStep ==
  ASSUME Inv, [Next]_vars
  PROVE  OnceInv'
<1>0. OnceInv /\ TypeInv /\ TypeInv'
  BY FrameFacts
<1> SUFFICES ASSUME NEW e \in Ends, NEW i \in DOMAIN net'[e], NEW j \in DOMAIN net'[e],
                    IsRequest(net'[e][i]), IsRequest(net'[e][j]), net'[e][i].k = net'[e][j].k
             PROVE  i = j
  BY DEF OnceInv, IsRequest
<1>1. i \in Nat /\ j \in Nat
  <2>1. net'[e] \in Seq(Frames)
    BY <1>0 DEF TypeInv, LinkType
  <2> QED
    BY <2>1
<1>2. CASE \A n \in DOMAIN net'[e] : Was(e, n, n)
  BY <1>0, <1>2 DEF OnceInv, Was
<1>3. CASE \A n \in DOMAIN net'[e] : Was(e, n, n + 1)
  BY <1>0, <1>1, <1>3 DEF OnceInv, Was
<1>4. ASSUME NEW n \in DOMAIN net'[e], NewFrame(e, net'[e][n]),
             \A m \in DOMAIN net'[e] \ {n} : Was(e, m, m)
      PROVE  i = j
  <2>1. ASSUME NEW m \in DOMAIN net'[e], m # n, IsRequest(net'[e][m]), IsRequest(net'[e][n])
        PROVE  net'[e][m].k # net'[e][n].k
    <3>1. RequestOK(e, net'[e][m])
      <4>1. m \in DOMAIN net[e] /\ net'[e][m] = net[e][m]
        BY <1>4, <2>1 DEF Was
      <4> QED
        BY <2>1, <4>1, FrameFacts DEF FrameInv, FrameOK
    <3>2. RequestNew(e, net'[e][n])
      BY <1>4, <2>1 DEF NewFrame
    <3> QED
      BY <3>1, <3>2 DEF RequestOK, RequestNew
  <2>2. CASE i # n /\ j # n
    BY <1>0, <1>4, <2>2 DEF OnceInv, Was
  <2> QED
    BY <2>1, <2>2
<1> QED
  BY <1>2, <1>3, <1>4, Placed

(* A call is answered after it has been read. *)
LEMMA ApartStep ==
  ASSUME Inv, [Next]_vars
  PROVE  ApartInv'
<1>0. ApartInv /\ TypeInv /\ JobInv /\ FrameInv
  BY FrameFacts
<1> SUFFICES ASSUME NEW e \in Ends, NEW d \in Ends, NEW i \in DOMAIN net'[e], NEW j \in DOMAIN net'[d],
                    IsRequest(net'[e][i]), net'[d][j].t = "result"
             PROVE  net'[e][i].k # net'[d][j].k
  BY DEF ApartInv, IsRequest
<1> DEFINE f == net'[e][i]
           g == net'[d][j]
<1>1. CASE ~NewFrame(e, f) /\ ~NewFrame(d, g)
  BY <1>0, <1>1, Origin DEF ApartInv
<1>2. CASE NewFrame(e, f) /\ ~NewFrame(d, g)
  <2>1. RequestNew(e, f) /\ ResultOK(d, g)
    BY <1>2, OldFrame DEF NewFrame, FrameOK
  <2> QED
    BY <2>1 DEF RequestNew, ResultOK
<1>3. CASE ~NewFrame(e, f) /\ NewFrame(d, g)
  <2>1. RequestOK(e, f) /\ ResultNew(d, g)
    BY <1>3, OldFrame DEF NewFrame, FrameOK
  <2>2. CASE Consumed("S", g.k)
    BY <1>3, <2>2, NoMore, EndParts
  <2>3. CASE calls[g.k].job \in {"ran", "dead"}
    BY <2>1, <2>3 DEF RequestOK
  <2> QED
    BY <2>1, <2>2, <2>3 DEF ResultNew
<1>4. CASE NewFrame(e, f) /\ NewFrame(d, g)
  <2>1. RequestNew(e, f) /\ ResultNew(d, g)
    BY <1>4 DEF NewFrame
  <2> QED
    BY <2>1 DEF RequestNew, ResultNew
<1> QED
  BY <1>1, <1>2, <1>3, <1>4

-----------------------------------------------------------------------------
(* The invariant is kept: results *)

(* A call returns with the result of its promise. *)
Comes(k) ==
  /\ calls[k].pc = "wait" /\ calls'[k].pc = "done"
  /\ promise[calls[k].end][calls[k].id].st = "ok"
  /\ calls'[k].from = promise[calls[k].end][calls[k].id].from

ResMove == \A k \in Keys : calls[k].res # "ok" /\ calls'[k].res = "ok" => Comes(k)

(* No call returns. *)
LEMMA ResKept ==
  ASSUME \A j \in Keys : calls'[j].res = calls[j].res
  PROVE  ResMove
BY DEF ResMove

(* A call that throws returns no result. *)
LEMMA ResThrown ==
  ASSUME NEW k, Threw(k)
  PROVE  ResMove
BY DEF ResMove, Threw

(* No call changes. *)
LEMMA ResSame ==
  ASSUME UNCHANGED <<calls>>
  PROVE  ResMove
BY DEF ResMove

(* Every result. *)
LEMMA ResStep ==
  ASSUME Inv, [Next]_vars
  PROVE  ResMove
<1>0. /\ TypeInv /\ StageInv /\ RefInv /\ FrameInv /\ IdInv /\ SlotInv /\ JobInv /\ QueueInv
      /\ TakenInv /\ SpawnInv
  BY DEF Inv
<1>1. ASSUME Connect PROVE ResMove
  BY <1>1, <1>0, ResSame, ConnectShape
<1>2. ASSUME EnterSlot PROVE ResMove
  BY <1>2, <1>0, ResSame, EnterSlotShape
<1>3. ASSUME TakeFuture PROVE ResMove
  BY <1>3, <1>0, ResSame, TakeFutureShape
<1>4. ASSUME Greeted PROVE ResMove
  <2>1. Keys = {}
    BY <1>4, <1>0, GreetedShape DEF Keys
  <2> QED
    BY <2>1 DEF ResMove
<1>5. ASSUME Unwind PROVE ResMove
  BY <1>5, <1>0, ResSame, UnwindShape DEF own
<1>6. ASSUME NEW k \in Keys, TakeCall(k) PROVE ResMove
  <2>1. \A j \in Keys : calls'[j].res = calls[j].res
    <3> DEFINE c == k
    <3>1. Alters(c, {"pc", "id", "wire"})
      BY <1>6, <1>0, TakeCallShape
    <3> HIDE DEF c
    <3> QED
      BY <3>1 DEF Alters, Fields
  <2> QED
    BY <2>1, ResKept
<1>7. ASSUME NEW k \in Keys, EnterCall(k) PROVE ResMove
  <2>1. \A j \in Keys : calls'[j].res = calls[j].res
    <3> DEFINE c == k
    <3>1. Alters(c, {"pc"})
      BY <1>7, <1>0, EnterCallShape
    <3> HIDE DEF c
    <3> QED
      BY <3>1 DEF Alters, Fields
  <2> QED
    BY <2>1, ResKept
<1>8. ASSUME NEW k \in Keys, SendCall(k) PROVE ResMove
  <2>1. CASE Threw(k)
    BY <2>1, ResThrown
  <2>2. CASE Alters(k, {"pc"})
    <3>1. \A j \in Keys : calls'[j].res = calls[j].res
      BY <2>2 DEF Alters, Fields
    <3> QED
      BY <3>1, ResKept
  <2> QED
    BY <1>8, <1>0, <2>1, <2>2, SendCallShape
<1>9. ASSUME NEW k \in Keys, ReturnCall(k) PROVE ResMove
  <2>1. CASE Threw(k)
    BY <2>1, ResThrown
  <2>2. CASE Came(k)
    <3>1. calls[k].pc = "wait"
      BY <1>9, <1>0, ReturnCallShape
    <3>2. Comes(k)
      BY <2>2, <3>1 DEF Came, Comes
    <3>3. \A j \in Keys : j # k => calls'[j].res = calls[j].res
      BY <2>2 DEF Came, Alters
    <3> QED
      BY <3>2, <3>3 DEF ResMove
  <2> QED
    BY <1>9, <1>0, <2>1, <2>2, ReturnCallShape
<1>10. ASSUME NEW k \in Keys, JobQueue(k) PROVE ResMove
  <2>1. \A j \in Keys : calls'[j].res = calls[j].res
    <3> DEFINE c == k
    <3>1. Alters(c, {"job"})
      BY <1>10, <1>0, JobQueueShape
    <3> HIDE DEF c
    <3> QED
      BY <3>1 DEF Alters, Fields
  <2> QED
    BY <2>1, ResKept
<1>11. ASSUME NEW k \in Keys, JobReply(k) PROVE ResMove
  <2>1. \A j \in Keys : calls'[j].res = calls[j].res
    <3> DEFINE c == k
    <3>1. Alters(c, {"job"})
      BY <1>11, <1>0, JobReplyShape
    <3> HIDE DEF c
    <3> QED
      BY <3>1 DEF Alters, Fields
  <2> QED
    BY <2>1, ResKept
<1>12. ASSUME Welcome PROVE ResMove
  BY <1>12, <1>0, ResSame, WelcomeShape
<1>13. ASSUME Spawn PROVE ResMove
  BY <1>13, <1>0, ResSame, SpawnShape
<1>14. ASSUME Serve PROVE ResMove
  <2>1. \A j \in Keys : calls'[j].res = calls[j].res
    <3> DEFINE c == net["S"][1].k
    <3>1. Alters(c, {"job", "to", "ref"}) \/ UNCHANGED calls
      BY <1>14, <1>0, ServeShape
    <3> HIDE DEF c
    <3> QED
      BY <3>1 DEF Alters, Fields
  <2> QED
    BY <2>1, ResKept
<1>15. ASSUME Disconnected PROVE ResMove
  BY <1>15, <1>0, ResSame, DisconnectedShape DEF linkVars
<1>16. ASSUME CleanedUp PROVE ResMove
  BY <1>16, <1>0, ResSame DEF CleanedUp, linkVars
<1>17. ASSUME Released PROVE ResMove
  BY <1>17, <1>0, ResSame DEF Released, own
<1>18. ASSUME HelloAnswer PROVE ResMove
  BY <1>18, <1>0, ResSame, HelloAnswerShape DEF own
<1>19. ASSUME Refer PROVE ResMove
  <2>1. \A j \in Keys : calls'[j].res = calls[j].res
    <3> DEFINE c == net["C"][1].k
    <3>1. Alters(c, {"job", "to"}) \/ UNCHANGED calls
      BY <1>19, <1>0, ReferShape
    <3> HIDE DEF c
    <3> QED
      BY <3>1 DEF Alters, Fields
  <2> QED
    BY <2>1, ResKept
<1>20. ASSUME Hangup PROVE ResMove
  BY <1>20, <1>0, ResSame DEF Hangup, own
<1>21. ASSUME NEW e \in Ends, Result(e) PROVE ResMove
  <2>1. \A j \in Keys : calls'[j].res = calls[j].res
    <3> DEFINE c == net[e][1].k
    <3>1. Alters(c, {"gift"}) \/ UNCHANGED calls
      BY <1>21, <1>0, ResultShape
    <3> HIDE DEF c
    <3> QED
      BY <3>1 DEF Alters, Fields
  <2> QED
    BY <2>1, ResKept
<1>22. ASSUME NEW e \in Ends, Output(e) PROVE ResMove
  BY <1>22, <1>0, ResSame, OutputShape
<1>23. ASSUME NEW e \in Ends, CloseFd(e), UNCHANGED own PROVE ResMove
  BY <1>23, <1>0, ResSame, CloseFdShape DEF own
<1>24. ASSUME NEW e \in Ends, CloseTable(e), UNCHANGED own PROVE ResMove
  BY <1>24, <1>0, ResSame, CloseTableShape DEF own
<1>25. ASSUME NEW a \in {"A", "L"}, Begin(a) PROVE ResMove
  <2>1. \A j \in Keys : calls'[j].res = calls[j].res
    <3> DEFINE c == actors[a].q[1]
    <3>1. Alters(c, {"ran"})
      BY <1>25, <1>0, BeginShape
    <3> HIDE DEF c
    <3> QED
      BY <3>1 DEF Alters, Fields
  <2> QED
    BY <2>1, ResKept
<1>26. ASSUME NEW a \in {"A", "L"}, DoPrint(a) PROVE ResMove
  <2>1. \A j \in Keys : calls'[j].res = calls[j].res
    <3> DEFINE c == actors[a].cur
    <3>1. Alters(c, {"body"})
      BY <1>26, <1>0, DoPrintShape
    <3> HIDE DEF c
    <3> QED
      BY <3>1 DEF Alters, Fields
  <2> QED
    BY <2>1, ResKept
<1>27. ASSUME DoKeep("A") PROVE ResMove
  <2>1. \A j \in Keys : calls'[j].res = calls[j].res
    <3> DEFINE c == actors["A"].cur
    <3>1. Alters(c, {"body"})
      BY <1>27, <1>0, DoKeepShape
    <3> HIDE DEF c
    <3> QED
      BY <3>1 DEF Alters, Fields
  <2> QED
    BY <2>1, ResKept
<1>28. ASSUME DoBack("A") PROVE ResMove
  <2>1. \A j \in Keys : calls'[j].res = calls[j].res
    <3> DEFINE c == actors["A"].cur
    <3>1. Alters(c, {"body", "last"})
      BY <1>28, <1>0, DoBackShape
    <3> HIDE DEF c
    <3> QED
      BY <3>1 DEF Alters, Fields
  <2> QED
    BY <2>1, ResKept
<1>29. ASSUME DoAwait("A") PROVE ResMove
  <2>1. \A j \in Keys : calls'[j].res = calls[j].res
    <3> DEFINE k == actors["A"].cur
               c == calls[k].last
    <3>1. /\ k \in Keys /\ (c # 0 => c \in Keys)
          /\ \A j \in Keys : j # k /\ j # c => calls'[j] = calls[j]
          /\ \A f \in Fields \ {"body"} : calls'[k][f] = calls[k][f]
          /\ c # 0 => \A f \in Fields \ {"waited"} : calls'[c][f] = calls[c][f]
      BY <1>29, <1>0, DoAwaitShape
    <3>2. 0 \notin Keys
      BY <1>0, ListOf
    <3> HIDE DEF k, c
    <3> QED
      BY <3>1, <3>2, ZenonT(120) DEF Fields
  <2> QED
    BY <2>1, ResKept
<1>30. ASSUME NEW a \in {"A", "L"}, Finish(a) PROVE ResMove
  <2>1. \A j \in Keys : calls'[j].res = calls[j].res
    <3> DEFINE c == actors[a].cur
    <3>1. Alters(c, {"job"})
      BY <1>30, <1>0, FinishShape
    <3> HIDE DEF c
    <3> QED
      BY <3>1 DEF Alters, Fields
  <2> QED
    BY <2>1, ResKept
<1>31. ASSUME Exit("A") PROVE ResMove
  BY <1>31, <1>0, ResSame, ExitShape DEF linkVars
<1>32. ASSUME NEW p \in DOMAIN proxies, Drop(p) PROVE ResMove
  BY <1>32, <1>0, ResSame, DropShape
<1>33. ASSUME Forget PROVE ResMove
  BY <1>33, <1>0, ResSame, ForgetShape DEF linkVars
<1>34. ASSUME Leave PROVE ResMove
  BY <1>34, <1>0, ResSame DEF Leave
<1>35. ASSUME NEW e \in Ends, Crash(e) PROVE ResMove
  BY <1>35, <1>0, ResSame DEF Crash
<1>36. ASSUME UNCHANGED vars PROVE ResMove
  BY <1>36, <1>0, ResSame DEF vars, linkVars, own
<1> QED
  BY <1>1, <1>2, <1>3, <1>4, <1>5, <1>6, <1>7, <1>8, <1>9, <1>10, <1>11, <1>12, <1>13, <1>14,
     <1>15, <1>16, <1>17, <1>18, <1>19, <1>20, <1>21, <1>22, <1>23, <1>24, <1>25, <1>26,
     <1>27, <1>28, <1>29, <1>30, <1>31, <1>32, <1>33, <1>34, <1>35, <1>36
     DEF Next, Step, Environment

(* A call that has been served stays so. *)
LEMMA ServedStays ==
  ASSUME Inv, [Next]_vars, NEW k \in Keys, Served(k)
  PROVE  Served(k)'
<1>1. Older(k)
  BY TableFacts DEF CallsGrow
<1> QED
  BY <1>1 DEF Older, Served

(* Results are those of the calls. *)
LEMMA TakenStep ==
  ASSUME Inv, [Next]_vars
  PROVE  TakenInv'
<1>0. /\ TypeInv /\ IdInv /\ SlotInv /\ CallsGrow /\ AllBorn /\ SlotsMove /\ TakenInv /\ ResMove
  BY TableFacts, ResStep
<1>1. ASSUME NEW e \in Ends, NEW i \in Ids, NEW k, i # 0, AnswerOf(e, i, k)
      PROVE  AnswerOf(e, i, k)'
  BY <1>1, IdStays, ServedStays DEF AnswerOf
<1>2. ASSUME NEW e \in Ends, NEW i \in Ids PROVE TakenOK(e, i)'
  <2> SUFFICES ASSUME promise'[e][i].st = "ok", i # 0
               PROVE  AnswerOf(e, i, promise[e][i].from)'
    BY DEF TakenOK
  <2>0. SlotMove(e, i) /\ TakenOK(e, i)
    BY <1>0 DEF SlotsMove, TakenInv
  <2>1. AnswerOf(e, i, promise'[e][i].from)
    BY <2>0 DEF SlotMove, Untouched, Entered, TakenOK
  <2> DEFINE k == promise'[e][i].from
  <2>2. k \in Keys /\ k \in Keys' /\ calls'[k].end = e /\ calls'[k].id = i /\ Served(k)
    BY <2>1, IdStays DEF AnswerOf
  <2>3. k = 1 \/ (calls'[k].job = "sent" /\ calls'[k].ran # <<>> /\ calls'[k].body = <<>>)
    <3> HIDE DEF k
    <3>1. Older(k)
      BY <1>0, <2>2 DEF CallsGrow
    <3> QED
      BY <2>2, <3>1 DEF Older, Served
  <2> QED
    BY <2>2, <2>3 DEF AnswerOf, Served
<1>3. ASSUME NEW k \in Keys', calls'[k].res = "ok"
      PROVE  /\ calls'[k].from = k /\ calls'[k].id # 0 /\ calls'[k].pc = "done"
             /\ promise'[calls'[k].end][calls'[k].id].st = "ok"
  <2>1. k \in Keys
    BY <1>0, <1>3 DEF AllBorn, Newborn
  <2>2. Older(k) /\ calls[k].end \in Ends /\ calls[k].id \in Ids /\ IdOK(k)
    BY <1>0, <2>1, CallOf, CallType DEF CallsGrow, IdInv
  <2>3. CASE calls[k].res = "ok"
    <3>1. /\ calls[k].from = k /\ calls[k].id # 0 /\ calls[k].pc = "done"
          /\ promise[calls[k].end][calls[k].id].st = "ok"
      BY <1>0, <2>1, <2>3 DEF TakenInv
    <3>2. calls'[k].id = calls[k].id /\ calls'[k].end = calls[k].end
      BY <2>1, <3>1, IdStays
    <3>3. promise'[calls[k].end][calls[k].id].st = "ok"
      <4>1. SlotMove(calls[k].end, calls[k].id) /\ SlotOK(calls[k].end, calls[k].id)
        BY <1>0, <2>2 DEF SlotsMove, SlotInv
      <4> QED
        BY <3>1, <4>1 DEF SlotMove, Untouched, Entered, Settled, SlotOK
    <3> QED
      BY <2>2, <2>3, <3>1, <3>2, <3>3 DEF Older
  <2>4. CASE calls[k].res # "ok"
    <3>1. Comes(k)
      BY <1>0, <1>3, <2>1, <2>4 DEF ResMove
    <3>2. calls[k].id # 0 /\ promise[calls[k].end][calls[k].id].st = "ok"
      BY <2>2, <3>1 DEF Comes, IdOK
    <3>3. TakenOK(calls[k].end, calls[k].id)
      BY <1>0, <2>2, ZenonT(120) DEF TakenInv
    <3>4. promise[calls[k].end][calls[k].id].from = k
      BY <2>2, <3>2, <3>3 DEF TakenOK, AnswerOf, IdOK
    <3>5. calls'[k].id = calls[k].id /\ calls'[k].end = calls[k].end
      BY <2>1, <3>2, IdStays
    <3>6. promise'[calls[k].end][calls[k].id].st = "ok"
      <4>1. SlotMove(calls[k].end, calls[k].id) /\ SlotOK(calls[k].end, calls[k].id)
        BY <1>0, <2>2 DEF SlotsMove, SlotInv
      <4> QED
        BY <3>2, <4>1 DEF SlotMove, Untouched, Entered, Settled, SlotOK
    <3> QED
      BY <3>1, <3>2, <3>4, <3>5, <3>6 DEF Comes
  <2> QED
    BY <2>3, <2>4
<1> QED
  BY <1>2, <1>3 DEF TakenInv, Ends, Ids

-----------------------------------------------------------------------------
(* The invariant is kept: calls being served *)

(* A promise that is open was open before. *)
LEMMA StillOpen ==
  ASSUME Inv, [Next]_vars, NEW e \in Ends, NEW i \in Ids, promise'[e][i].st = "none"
  PROVE  promise[e][i].st = "none"
<1>1. SlotMove(e, i)
  BY TableFacts DEF SlotsMove
<1> QED
  BY <1>1 DEF SlotMove, Untouched, Settled, Entered

(* A call whose promise is open still waits. *)
LEMMA StillWaits ==
  ASSUME Inv, [Next]_vars, NEW k \in Keys, calls[k].id # 0,
         promise'[calls[k].end][calls[k].id].st = "none", calls[k].pc = "wait"
  PROVE  calls'[k].pc = "wait"
<1>1. calls[k].end \in Ends /\ calls[k].id \in Ids /\ Older(k)
  BY TableFacts, CallOf, CallType DEF CallsGrow
<1>2. promise[calls[k].end][calls[k].id].st = "none"
  BY <1>1, StillOpen
<1> QED
  BY <1>1, <1>2, TableFacts DEF Older, IdsMove

(* Nothing is done to serve k. *)
LEMMA JobKept ==
  ASSUME Inv, [Next]_vars, NEW k \in Keys, calls'[k].job = calls[k].job,
         calls'[k].ran = calls[k].ran, calls'[k].to = calls[k].to
  PROVE  JobOK(k)'
<1>0. JobOK(k) /\ Older(k) /\ calls[k].pc \in PCs
  BY TableFacts, CallOf, CallType DEF CallsGrow, Inv, JobInv
<1>1. Actor(k)' = Actor(k)
  BY <1>0 DEF Actor, Older
<1>2. calls[k].id # 0 => calls'[k].id = calls[k].id /\ calls'[k].end = calls[k].end
  BY IdStays
<1>3. calls'[k].ran \in {<<>>, <<Actor(k)>>}
  BY <1>0 DEF JobOK
<1>4. k # 1 /\ calls'[k].job # "none" => /\ calls'[k].to = Actor(k) /\ calls'[k].id # 0
                                         /\ calls'[k].pc \in {"wait", "done"}
  BY <1>0, <1>2 DEF JobOK, Older
<1>5. /\ k # 1 /\ calls'[k].job \in {"none", "new", "dead"} => calls'[k].ran = <<>>
      /\ calls'[k].job = "ran" => calls'[k].ran # <<>> /\ calls'[k].body = <<>>
      /\ k = 1 => calls'[k].job \in {"none", "sent"}
  BY <1>0 DEF JobOK, Older
<1>6. k # 1 /\ calls'[k].pc \in {"queued", "ready", "entered"} => calls'[k].job = "none"
  BY <1>0 DEF JobOK, Older
<1>7. calls'[k].job # "none" /\ promise'[calls'[k].end][calls'[k].id].st = "none" /\ k # 1 =>
        calls'[k].pc = "wait"
  <2> SUFFICES ASSUME calls[k].job # "none", promise'[calls'[k].end][calls'[k].id].st = "none", k # 1
               PROVE  calls'[k].pc = "wait"
    OBVIOUS
  <2>1. calls[k].id # 0
    BY <1>0 DEF JobOK
  <2>2. promise'[calls[k].end][calls[k].id].st = "none"
    BY <1>2, <2>1
  <2>3. calls[k].end \in Ends /\ calls[k].id \in Ids
    BY TableFacts, CallOf, CallType
  <2>4. promise[calls[k].end][calls[k].id].st = "none"
    BY <2>2, <2>3, StillOpen
  <2>5. calls[k].pc = "wait"
    BY <1>0, <2>4 DEF JobOK
  <2> QED
    BY <2>1, <2>2, <2>5, StillWaits
<1> QED
  BY <1>1, <1>3, <1>4, <1>5, <1>6, <1>7 DEF JobOK

(* Something is. *)
LEMMA JobPut ==
  ASSUME Inv, [Next]_vars, NEW k \in Keys,
         calls[k].pc \in {"wait", "done"}, calls'[k].to = Actor(k), calls[k].id # 0,
         calls'[k].ran \in {<<>>, <<Actor(k)>>},
         k # 1 /\ calls'[k].job \in {"none", "new", "dead"} => calls'[k].ran = <<>>,
         calls'[k].job = "ran" => calls[k].ran # <<>> /\ calls[k].body = <<>>,
         k = 1 => calls'[k].job \in {"none", "sent"},
         k # 1 /\ promise[calls[k].end][calls[k].id].st = "none" => calls[k].pc = "wait"
  PROVE  JobOK(k)'
<1>0. Older(k) /\ calls[k].end \in Ends /\ calls[k].id \in Ids
  BY TableFacts, CallOf, CallType DEF CallsGrow
<1>1. Actor(k)' = Actor(k)
  BY <1>0 DEF Actor, Older
<1>2. calls'[k].id = calls[k].id /\ calls'[k].end = calls[k].end
  BY IdStays
<1>3. calls'[k].pc \in {"wait", "done"} /\ (calls[k].ran # <<>> => calls'[k].ran # <<>>)
      /\ (calls[k].body = <<>> => calls'[k].body = <<>>)
  BY <1>0 DEF Older
<1>4. k # 1 /\ promise'[calls'[k].end][calls'[k].id].st = "none" => calls'[k].pc = "wait"
  BY <1>0, <1>2, StillOpen, StillWaits
<1> QED
  BY <1>1, <1>2, <1>3, <1>4 DEF JobOK

(* One call is served. *)
LEMMA JobOne ==
  ASSUME Inv, [Next]_vars, NEW k, NEW F, Alters(k, F), Keys' = Keys, JobOK(k)'
  PROVE  JobInv'
<1>1. \A j \in Keys : j # k => JobOK(j)'
  BY JobKept DEF Alters
<1> QED
  BY <1>1 DEF JobInv

(* None is. *)
LEMMA JobNone ==
  ASSUME Inv, [Next]_vars,
         \A j \in Keys : calls'[j].job = calls[j].job /\ calls'[j].ran = calls[j].ran
                          /\ calls'[j].to = calls[j].to
  PROVE  JobInv'
<1>1. \A j \in Keys : JobOK(j)'
  BY JobKept
<1>2. ASSUME NEW j \in Keys' \ Keys PROVE JobOK(j)'
  <2>1. Newborn(j)
    BY TableFacts DEF AllBorn
  <2> QED
    BY <2>1 DEF Newborn, JobOK
<1> QED
  BY <1>1, <1>2 DEF JobInv

(* A call that throws keeps its job. *)
LEMMA JobThrown ==
  ASSUME Inv, [Next]_vars, NEW k, Threw(k)
  PROVE  JobInv'
<1>1. \A j \in Keys : calls'[j].job = calls[j].job /\ calls'[j].ran = calls[j].ran
                       /\ calls'[j].to = calls[j].to
  BY DEF Threw, Fields
<1> QED
  BY <1>1, JobNone

(* No call changes. *)
LEMMA JobStaysSame ==
  ASSUME Inv, [Next]_vars, UNCHANGED calls
  PROVE  JobInv'
BY JobNone

(* Calls being served. *)
LEMMA JobStep ==
  ASSUME Inv, [Next]_vars
  PROVE  JobInv'
<1>0. /\ TypeInv /\ StageInv /\ RefInv /\ FrameInv /\ IdInv /\ SlotInv /\ JobInv /\ QueueInv
      /\ TakenInv /\ SpawnInv
  BY DEF Inv
<1>1. ASSUME Connect PROVE JobInv'
  BY <1>1, <1>0, JobStaysSame, ConnectShape
<1>2. ASSUME EnterSlot PROVE JobInv'
  BY <1>2, <1>0, JobStaysSame, EnterSlotShape
<1>3. ASSUME TakeFuture PROVE JobInv'
  BY <1>3, <1>0, JobStaysSame, TakeFutureShape
<1>4. ASSUME Greeted PROVE JobInv'
  <2>1. Keys = {}
    BY <1>4, <1>0, GreetedShape DEF Keys
  <2> QED
    BY <2>1, JobNone
<1>5. ASSUME Unwind PROVE JobInv'
  BY <1>5, <1>0, JobStaysSame, UnwindShape DEF own
<1>6. ASSUME NEW k \in Keys, TakeCall(k) PROVE JobInv'
  <2>1. \A j \in Keys : calls'[j].job = calls[j].job /\ calls'[j].ran = calls[j].ran /\ calls'[j].to = calls[j].to
    <3> DEFINE c == k
    <3>1. Alters(c, {"pc", "id", "wire"})
      BY <1>6, <1>0, TakeCallShape
    <3> HIDE DEF c
    <3> QED
      BY <3>1 DEF Alters, Fields
  <2> QED
    BY <2>1, JobNone
<1>7. ASSUME NEW k \in Keys, EnterCall(k) PROVE JobInv'
  <2>1. \A j \in Keys : calls'[j].job = calls[j].job /\ calls'[j].ran = calls[j].ran /\ calls'[j].to = calls[j].to
    <3> DEFINE c == k
    <3>1. Alters(c, {"pc"})
      BY <1>7, <1>0, EnterCallShape
    <3> HIDE DEF c
    <3> QED
      BY <3>1 DEF Alters, Fields
  <2> QED
    BY <2>1, JobNone
<1>8. ASSUME NEW k \in Keys, SendCall(k) PROVE JobInv'
  <2>1. CASE Threw(k)
    BY <2>1, JobThrown
  <2>2. CASE Alters(k, {"pc"})
    <3>1. \A j \in Keys : calls'[j].job = calls[j].job /\ calls'[j].ran = calls[j].ran /\ calls'[j].to = calls[j].to
      BY <2>2 DEF Came, Alters, Fields
    <3> QED
      BY <3>1, JobNone
  <2> QED
    BY <1>8, <1>0, <2>1, <2>2, SendCallShape
<1>9. ASSUME NEW k \in Keys, ReturnCall(k) PROVE JobInv'
  <2>1. CASE Threw(k)
    BY <2>1, JobThrown
  <2>2. CASE Came(k)
    <3>1. \A j \in Keys : calls'[j].job = calls[j].job /\ calls'[j].ran = calls[j].ran /\ calls'[j].to = calls[j].to
      BY <2>2 DEF Came, Alters, Fields
    <3> QED
      BY <3>1, JobNone
  <2> QED
    BY <1>9, <1>0, <2>1, <2>2, ReturnCallShape
<1>10. ASSUME NEW k \in Keys, JobQueue(k) PROVE JobInv'
  <2>1. Alters(k, {"job"}) /\ Keys' = Keys /\ calls[k].job = "new" /\ k # 1 /\ calls'[k].job \in {"dead", "queued"}
    BY <1>10, <1>0, JobQueueShape
  <2>3. calls'[k].ran = calls[k].ran /\ calls'[k].to = calls[k].to /\ calls'[k].body = calls[k].body
    BY <2>1 DEF Alters, Fields
  <2>4. JobOK(k)
    BY <1>0 DEF JobInv
  <2>5. JobOK(k)'
    BY <2>1, <2>3, <2>4, JobPut DEF JobOK
  <2> QED
    BY <2>1, <2>5, JobOne
<1>11. ASSUME NEW k \in Keys, JobReply(k) PROVE JobInv'
  <2>1. Alters(k, {"job"}) /\ Keys' = Keys /\ calls[k].job \in {"ran", "dead"} /\ calls'[k].job = "sent"
    BY <1>11, <1>0, JobReplyShape
  <2>3. calls'[k].ran = calls[k].ran /\ calls'[k].to = calls[k].to /\ calls'[k].body = calls[k].body
    BY <2>1 DEF Alters, Fields
  <2>4. JobOK(k)
    BY <1>0 DEF JobInv
  <2>5. JobOK(k)'
    BY <2>1, <2>3, <2>4, JobPut DEF JobOK
  <2> QED
    BY <2>1, <2>5, JobOne
<1>12. ASSUME Welcome PROVE JobInv'
  BY <1>12, <1>0, JobStaysSame, WelcomeShape
<1>13. ASSUME Spawn PROVE JobInv'
  BY <1>13, <1>0, JobStaysSame, SpawnShape
<1>14. ASSUME Serve PROVE JobInv'
  <2>0. PICK k : k = net["S"][1].k
    OBVIOUS
  <2>1. CASE UNCHANGED calls
    BY <2>1, JobNone
  <2>2. CASE ~UNCHANGED calls
    <3>1. /\ Alters(k, {"job", "to", "ref"}) /\ Keys' = Keys /\ calls'[k].job = "new" /\ calls'[k].to = "A"
          /\ net["S"][1].t = "call" /\ FrameOK("S", net["S"][1])
      BY <1>14, <1>0, <2>0, <2>2, ServeShape
    <3>2. /\ k \in Keys /\ calls[k].end = Peer("S") /\ calls[k].id # 0 /\ k # 1
          /\ calls[k].job = "none" /\ calls[k].ran = <<>> /\ calls[k].pc \in {"wait", "done"}
          /\ promise[calls[k].end][calls[k].id].st = "none" => calls[k].pc = "wait"
      <4>1. RequestOK("S", net["S"][1])
        BY <3>1 DEF FrameOK, IsRequest
      <4> QED
        BY <2>0, <3>1, <4>1 DEF RequestOK
    <3>3. calls'[k].ran = <<>>
      BY <3>1, <3>2 DEF Alters, Fields
    <3>4. Actor(k) = "A"
      BY <3>2, EndParts DEF Actor
    <3>5. JobOK(k)'
      BY <3>1, <3>2, <3>3, <3>4, JobPut
    <3> QED
      BY <3>1, <3>5, JobOne
  <2> QED
    BY <2>1, <2>2
<1>15. ASSUME Disconnected PROVE JobInv'
  BY <1>15, <1>0, JobStaysSame, DisconnectedShape DEF linkVars
<1>16. ASSUME CleanedUp PROVE JobInv'
  BY <1>16, <1>0, JobStaysSame DEF CleanedUp, linkVars
<1>17. ASSUME Released PROVE JobInv'
  BY <1>17, <1>0, JobStaysSame DEF Released, own
<1>18. ASSUME HelloAnswer PROVE JobInv'
  BY <1>18, <1>0, JobStaysSame, HelloAnswerShape DEF own
<1>19. ASSUME Refer PROVE JobInv'
  <2>0. PICK k : k = net["C"][1].k
    OBVIOUS
  <2>1. CASE UNCHANGED calls
    BY <2>1, JobNone
  <2>2. CASE ~UNCHANGED calls
    <3>1. /\ Alters(k, {"job", "to"}) /\ Keys' = Keys /\ calls'[k].job = "new" /\ calls'[k].to = "L"
          /\ net["C"][1].t = "call" /\ FrameOK("C", net["C"][1])
      BY <1>19, <1>0, <2>0, <2>2, ReferShape
    <3>2. /\ k \in Keys /\ calls[k].end = Peer("C") /\ calls[k].id # 0 /\ k # 1
          /\ calls[k].job = "none" /\ calls[k].ran = <<>> /\ calls[k].pc \in {"wait", "done"}
          /\ promise[calls[k].end][calls[k].id].st = "none" => calls[k].pc = "wait"
      <4>1. RequestOK("C", net["C"][1])
        BY <3>1 DEF FrameOK, IsRequest
      <4> QED
        BY <2>0, <3>1, <4>1 DEF RequestOK
    <3>3. calls'[k].ran = <<>>
      BY <3>1, <3>2 DEF Alters, Fields
    <3>4. Actor(k) = "L"
      BY <3>2, EndParts DEF Actor
    <3>5. JobOK(k)'
      BY <3>1, <3>2, <3>3, <3>4, JobPut
    <3> QED
      BY <3>1, <3>5, JobOne
  <2> QED
    BY <2>1, <2>2
<1>20. ASSUME Hangup PROVE JobInv'
  BY <1>20, <1>0, JobStaysSame DEF Hangup, own
<1>21. ASSUME NEW e \in Ends, Result(e) PROVE JobInv'
  <2>1. \A j \in Keys : calls'[j].job = calls[j].job /\ calls'[j].ran = calls[j].ran /\ calls'[j].to = calls[j].to
    <3> DEFINE c == net[e][1].k
    <3>1. Alters(c, {"gift"}) \/ UNCHANGED calls
      BY <1>21, <1>0, ResultShape
    <3> HIDE DEF c
    <3> QED
      BY <3>1 DEF Alters, Fields
  <2> QED
    BY <2>1, JobNone
<1>22. ASSUME NEW e \in Ends, Output(e) PROVE JobInv'
  BY <1>22, <1>0, JobStaysSame, OutputShape
<1>23. ASSUME NEW e \in Ends, CloseFd(e), UNCHANGED own PROVE JobInv'
  BY <1>23, <1>0, JobStaysSame, CloseFdShape DEF own
<1>24. ASSUME NEW e \in Ends, CloseTable(e), UNCHANGED own PROVE JobInv'
  BY <1>24, <1>0, JobStaysSame, CloseTableShape DEF own
<1>25. ASSUME NEW a \in {"A", "L"}, Begin(a) PROVE JobInv'
  <2>0. PICK k : k = actors[a].q[1]
    OBVIOUS
  <2>1. Alters(k, {"ran"}) /\ k \in Keys /\ Keys' = Keys /\ InHand(k, a) /\ calls[k].ran = <<>> /\ calls'[k].ran = <<a>>
    BY <1>25, <1>0, <2>0, BeginShape
  <2>2. calls'[k].job = calls[k].job /\ calls'[k].to = calls[k].to /\ calls'[k].body = calls[k].body
    BY <2>1 DEF Alters, Fields
  <2>3. JobOK(k) /\ Actor(k) = a /\ RefOK(k)
    BY <1>0, <2>1 DEF JobInv, InHand, RefInv
  <2>4. CASE k # 1
    <3>1. /\ calls[k].job = "queued" /\ calls[k].to = a /\ calls[k].id # 0 /\ calls[k].via # 0
          /\ calls[k].pc \in {"wait", "done"}
          /\ promise[calls[k].end][calls[k].id].st = "none" => calls[k].pc = "wait"
      BY <2>1, <2>3, <2>4 DEF InHand, JobOK, RefOK
    <3>3. /\ calls'[k].ran = <<a>> /\ calls'[k].to = Actor(k)
          /\ calls'[k].job = "queued" \/ (calls'[k].job = "ran" /\ calls[k].ran # <<>> /\ calls[k].body = <<>>)
      BY <2>1, <2>2, <2>3, <3>1
    <3>2. JobOK(k)'
      BY <2>1, <2>3, <2>4, <3>1, <3>3, JobPut
    <3> QED
      BY <2>1, <3>2, JobOne
  <2>5. CASE k = 1
    <3>1. calls[1].job = "none" /\ calls[1].via = 0 /\ calls[1].to = "A" /\ calls[1].end = "C" /\ calls[1].id # 0
      BY <1>0, <2>1, <2>5 DEF InHand, StageInv, Keys
    <3>2. calls[1].pc \in {"wait", "done"}
      <4>1. a = "A"
        BY <2>3, <2>5, <3>1 DEF Actor
      <4>2. ~Unspawned
        <5>1. actors[a].q # <<>> \/ actors[a].cur # 0
          BY <1>25, <1>0, BeginShape
        <5> QED
          BY <1>0, <4>1, <5>1 DEF SpawnInv
      <4>3. calls[1].pc \in PCs /\ calls[1].pc # "queued"
        BY <1>0, <2>1, <2>5, CallOf, CallType DEF StageInv, Keys
      <4> QED
        BY <4>2, <4>3 DEF Unspawned, PCs
    <3>3. JobOK(k)'
      BY <2>1, <2>2, <2>3, <2>5, <3>1, <3>2, JobPut DEF Actor
    <3> QED
      BY <2>1, <3>3, JobOne
  <2> QED
    BY <2>4, <2>5
<1>26. ASSUME NEW a \in {"A", "L"}, DoPrint(a) PROVE JobInv'
  <2>1. \A j \in Keys : calls'[j].job = calls[j].job /\ calls'[j].ran = calls[j].ran /\ calls'[j].to = calls[j].to
    <3> DEFINE c == actors[a].cur
    <3>1. Alters(c, {"body"})
      BY <1>26, <1>0, DoPrintShape
    <3> HIDE DEF c
    <3> QED
      BY <3>1 DEF Alters, Fields
  <2> QED
    BY <2>1, JobNone
<1>27. ASSUME DoKeep("A") PROVE JobInv'
  <2>1. \A j \in Keys : calls'[j].job = calls[j].job /\ calls'[j].ran = calls[j].ran /\ calls'[j].to = calls[j].to
    <3> DEFINE c == actors["A"].cur
    <3>1. Alters(c, {"body"})
      BY <1>27, <1>0, DoKeepShape
    <3> HIDE DEF c
    <3> QED
      BY <3>1 DEF Alters, Fields
  <2> QED
    BY <2>1, JobNone
<1>28. ASSUME DoBack("A") PROVE JobInv'
  <2>1. \A j \in Keys : calls'[j].job = calls[j].job /\ calls'[j].ran = calls[j].ran /\ calls'[j].to = calls[j].to
    <3> DEFINE c == actors["A"].cur
    <3>1. Alters(c, {"body", "last"})
      BY <1>28, <1>0, DoBackShape
    <3> HIDE DEF c
    <3> QED
      BY <3>1 DEF Alters, Fields
  <2> QED
    BY <2>1, JobNone
<1>29. ASSUME DoAwait("A") PROVE JobInv'
  <2>1. \A j \in Keys : calls'[j].job = calls[j].job /\ calls'[j].ran = calls[j].ran /\ calls'[j].to = calls[j].to
    <3> DEFINE k == actors["A"].cur
               c == calls[k].last
    <3>1. /\ k \in Keys /\ (c # 0 => c \in Keys)
          /\ \A j \in Keys : j # k /\ j # c => calls'[j] = calls[j]
          /\ \A f \in Fields \ {"body"} : calls'[k][f] = calls[k][f]
          /\ c # 0 => \A f \in Fields \ {"waited"} : calls'[c][f] = calls[c][f]
      BY <1>29, <1>0, DoAwaitShape
    <3>2. 0 \notin Keys
      BY <1>0, ListOf
    <3> HIDE DEF k, c
    <3> QED
      BY <3>1, <3>2, ZenonT(120) DEF Fields
  <2> QED
    BY <2>1, JobNone
<1>30. ASSUME NEW a \in {"A", "L"}, Finish(a) PROVE JobInv'
  <2>0. PICK k : k = actors[a].cur
    OBVIOUS
  <2>1. Alters(k, {"job"}) /\ k \in Keys /\ Keys' = Keys /\ InHand(k, a) /\ calls[k].ran = <<a>> /\ calls[k].body = <<>>
        /\ calls'[k].job = IF calls[k].via = 0 THEN "sent" ELSE "ran"
    BY <1>30, <1>0, <2>0, FinishShape
  <2>2. calls'[k].ran = calls[k].ran /\ calls'[k].to = calls[k].to /\ calls'[k].body = calls[k].body
    BY <2>1 DEF Alters, Fields
  <2>3. JobOK(k) /\ Actor(k) = a /\ RefOK(k)
    BY <1>0, <2>1 DEF JobInv, InHand, RefInv
  <2>4. CASE k # 1
    <3>1. /\ calls[k].job = "queued" /\ calls[k].to = a /\ calls[k].id # 0 /\ calls[k].via # 0
          /\ calls[k].pc \in {"wait", "done"}
          /\ promise[calls[k].end][calls[k].id].st = "none" => calls[k].pc = "wait"
      BY <2>1, <2>3, <2>4 DEF InHand, JobOK, RefOK
    <3>3. /\ calls'[k].ran = <<a>> /\ calls'[k].to = Actor(k)
          /\ calls'[k].job = "queued" \/ (calls'[k].job = "ran" /\ calls[k].ran # <<>> /\ calls[k].body = <<>>)
      BY <2>1, <2>2, <2>3, <3>1
    <3>2. JobOK(k)'
      BY <2>1, <2>3, <2>4, <3>1, <3>3, JobPut
    <3> QED
      BY <2>1, <3>2, JobOne
  <2>5. CASE k = 1
    <3>1. calls[1].job = "none" /\ calls[1].via = 0 /\ calls[1].to = "A" /\ calls[1].end = "C" /\ calls[1].id # 0
      BY <1>0, <2>1, <2>5 DEF InHand, StageInv, Keys
    <3>2. calls[1].pc \in {"wait", "done"}
      <4>1. a = "A"
        BY <2>3, <2>5, <3>1 DEF Actor
      <4>2. ~Unspawned
        <5>1. actors[a].q # <<>> \/ actors[a].cur # 0
          BY <1>30, <1>0, FinishShape
        <5> QED
          BY <1>0, <4>1, <5>1 DEF SpawnInv
      <4>3. calls[1].pc \in PCs /\ calls[1].pc # "queued"
        BY <1>0, <2>1, <2>5, CallOf, CallType DEF StageInv, Keys
      <4> QED
        BY <4>2, <4>3 DEF Unspawned, PCs
    <3>3. JobOK(k)'
      BY <2>1, <2>2, <2>3, <2>5, <3>1, <3>2, JobPut DEF Actor
    <3> QED
      BY <2>1, <3>3, JobOne
  <2> QED
    BY <2>4, <2>5
<1>31. ASSUME Exit("A") PROVE JobInv'
  BY <1>31, <1>0, JobStaysSame, ExitShape DEF linkVars
<1>32. ASSUME NEW p \in DOMAIN proxies, Drop(p) PROVE JobInv'
  BY <1>32, <1>0, JobStaysSame, DropShape
<1>33. ASSUME Forget PROVE JobInv'
  BY <1>33, <1>0, JobStaysSame, ForgetShape DEF linkVars
<1>34. ASSUME Leave PROVE JobInv'
  BY <1>34, <1>0, JobStaysSame DEF Leave
<1>35. ASSUME NEW e \in Ends, Crash(e) PROVE JobInv'
  BY <1>35, <1>0, JobStaysSame DEF Crash
<1>36. ASSUME UNCHANGED vars PROVE JobInv'
  BY <1>36, <1>0, JobStaysSame DEF vars, linkVars, own
<1> QED
  BY <1>1, <1>2, <1>3, <1>4, <1>5, <1>6, <1>7, <1>8, <1>9, <1>10, <1>11, <1>12, <1>13, <1>14,
     <1>15, <1>16, <1>17, <1>18, <1>19, <1>20, <1>21, <1>22, <1>23, <1>24, <1>25, <1>26,
     <1>27, <1>28, <1>29, <1>30, <1>31, <1>32, <1>33, <1>34, <1>35, <1>36
     DEF Next, Step, Environment

-----------------------------------------------------------------------------
(* The invariant is kept: the spawned actor and the queues *)

(* An actor that has been started has been. *)
LEMMA UnspawnedBefore ==
  ASSUME Inv, [Next]_vars, Unspawned'
  PROVE  Unspawned
<1>0. TypeInv /\ StageInv /\ CallsGrow
  BY FrameFacts
<1>1. CASE calls = <<>>
  BY <1>1 DEF Unspawned
<1>2. CASE calls # <<>>
  <2>1. 1 \in Keys /\ Older(1) /\ calls[1].pc # "queued" /\ calls[1].end = "C" /\ calls' # <<>>
    <3>1. 1 \in Keys /\ Len(calls) >= 1 /\ Len(calls) \in Nat
      BY <1>0, <1>2, ListOf
    <3>2. calls' = <<>> => Len(calls') = 0
      OBVIOUS
    <3> QED
      BY <1>0, <1>2, <3>1, <3>2 DEF CallsGrow, StageInv
  <2>2. CASE calls'[1].pc \in {"ready", "entered"}
    BY <2>1, <2>2 DEF Older, Unspawned
  <2>3. ASSUME NEW i \in DOMAIN net'["S"], net'["S"][i].t = "spawn" PROVE Unspawned
    <3>1. CASE NewFrame("S", net'["S"][i])
      <4>1. RequestNew("S", net'["S"][i])
        BY <2>3, <3>1 DEF NewFrame, IsRequest
      <4> QED
        BY <2>3, <4>1 DEF RequestNew, Unspawned
    <3>2. CASE ~NewFrame("S", net'["S"][i])
      BY <2>3, <3>2, Origin, EndParts DEF Unspawned
    <3> QED
      BY <3>1, <3>2
  <2> QED
    BY <2>1, <2>2, <2>3 DEF Unspawned
<1> QED
  BY <1>1, <1>2

(* The request for the spawn, when it is read, was the last trace of it. *)
LEMMA SpawnRead ==
  ASSUME Inv, [Next]_vars, NEW c \in Ends, Consumed(c, 1)
  PROVE  ~Unspawned'
<1>0. TypeInv /\ StageInv /\ CallsGrow /\ FrameInv
  BY FrameFacts
<1>1. net[c] \in Seq(Frames) /\ net[c] # <<>>
  BY <1>0, NetType DEF Consumed
<1>2. 1 \in DOMAIN net[c]
  BY <1>1
<1>3. RequestOK(c, net[c][1]) /\ net[c][1].k = 1
  BY <1>0, <1>2 DEF FrameInv, FrameOK, Consumed
<1>4. 1 \in Keys /\ calls[1].pc \in {"wait", "done"} /\ Older(1)
  BY <1>0, <1>3 DEF RequestOK, CallsGrow
<1>5. calls'[1].pc \in {"wait", "done"} /\ calls' # <<>>
  <2>1. calls' = <<>> => Len(calls') = 0
    OBVIOUS
  <2> QED
    BY <1>0, <1>4, <2>1, CallOf DEF Older, CallsGrow
<1>6. ASSUME NEW i \in DOMAIN net'["S"], net'["S"][i].t = "spawn" PROVE FALSE
  <2> DEFINE f == net'["S"][i]
  <2>1. CASE NewFrame("S", f)
    BY <1>4, <1>6, <2>1 DEF NewFrame, RequestNew, IsRequest
  <2>2. CASE ~NewFrame("S", f)
    <3>1. RequestOK("S", f) /\ IsRequest(f)
      BY <1>6, <2>2, OldFrame, EndParts DEF FrameOK, IsRequest
    <3>2. f.k = 1
      BY <1>6, <3>1 DEF RequestOK
    <3> QED
      BY <2>2, <3>1, <3>2, NoMore, EndParts
  <2> QED
    BY <2>1, <2>2
<1> QED
  BY <1>5, <1>6 DEF Unspawned

(* Before it is started the actor has nothing to do, and no call but the spawn is made. *)
Quiet == Len(calls') <= 1 /\ actors'["A"].q = <<>> /\ actors'["A"].cur = 0

Calm == Unspawned /\ Unspawned' => Quiet

(* No call is made and no actor takes one up. *)
LEMMA CalmKept ==
  ASSUME SpawnInv, ActorsKept, Len(calls') = Len(calls)
  PROVE  Calm
BY DEF SpawnInv, ActorsKept, Calm, Quiet

(* Neither calls nor actors change. *)
LEMMA CalmSame ==
  ASSUME SpawnInv, UNCHANGED <<calls, actors>>
  PROVE  Calm
BY DEF Calm, Quiet, SpawnInv

(* Every step before the actor is started. *)
LEMMA CalmStep ==
  ASSUME Inv, [Next]_vars
  PROVE  Calm
<1>0. /\ TypeInv /\ StageInv /\ RefInv /\ FrameInv /\ IdInv /\ SlotInv /\ JobInv /\ QueueInv
      /\ TakenInv /\ SpawnInv
  BY DEF Inv
<1>1. ASSUME Connect PROVE Calm
  BY <1>1, <1>0, CalmSame, ConnectShape
<1>2. ASSUME EnterSlot PROVE Calm
  BY <1>2, <1>0, CalmSame, EnterSlotShape
<1>3. ASSUME TakeFuture PROVE Calm
  BY <1>3, <1>0, CalmSame, TakeFutureShape
<1>4. ASSUME Greeted PROVE Calm
  <2>1. Len(calls') <= 1
    <3>1. Len(calls') = 1 \/ calls' = <<>>
      BY <1>4, <1>0, GreetedShape
    <3>2. calls' = <<>> => Len(calls') = 0
      OBVIOUS
    <3>3. Len(calls') = 1 \/ Len(calls') = 0
      BY <3>1, <3>2, Zenon
    <3> QED
      BY <3>3, SMTT(60)
  <2>2. UNCHANGED actors
    BY <1>4, <1>0, GreetedShape
  <2> QED
    BY <1>0, <2>1, <2>2 DEF Calm, Quiet, SpawnInv
<1>5. ASSUME Unwind PROVE Calm
  BY <1>5, <1>0, CalmSame, UnwindShape DEF own
<1>6. ASSUME NEW k \in Keys, TakeCall(k) PROVE Calm
  <2>1. Len(calls') = Len(calls) /\ UNCHANGED actors
    BY <1>6, <1>0, TakeCallShape
  <2> QED
    BY <1>0, <2>1, CalmKept, ActorsSame
<1>7. ASSUME NEW k \in Keys, EnterCall(k) PROVE Calm
  <2>1. Len(calls') = Len(calls) /\ UNCHANGED actors
    BY <1>7, <1>0, EnterCallShape
  <2> QED
    BY <1>0, <2>1, CalmKept, ActorsSame
<1>8. ASSUME NEW k \in Keys, SendCall(k) PROVE Calm
  <2>1. Len(calls') = Len(calls) /\ UNCHANGED actors
    BY <1>8, <1>0, SendCallShape
  <2> QED
    BY <1>0, <2>1, CalmKept, ActorsSame
<1>9. ASSUME NEW k \in Keys, ReturnCall(k) PROVE Calm
  <2>1. UNCHANGED actors
    BY <1>9, <1>0, ReturnCallShape
  <2>2. CASE Threw(k)
    <3>1. Len(calls') = Len(calls)
      BY <2>2 DEF Threw
    <3> QED
      BY <1>0, <2>1, <3>1, CalmKept, ActorsSame
  <2>3. CASE Came(k)
    <3> SUFFICES ASSUME Unspawned PROVE FALSE
      BY DEF Calm
    <3>1. Len(calls) <= 1 /\ (calls # <<>> => promise["C"][calls[1].id].st # "ok")
      BY <1>0 DEF SpawnInv
    <3>2. k = 1 /\ calls # <<>>
      BY <1>0, <3>1, CallOf DEF Keys
    <3>3. calls[1].end = "C"
      BY <1>0, <3>2 DEF StageInv
    <3> QED
      BY <2>3, <3>1, <3>2, <3>3 DEF Came
  <2> QED
    BY <1>9, <1>0, <2>2, <2>3, ReturnCallShape
<1>10. ASSUME NEW k \in Keys, JobQueue(k) PROVE Calm
  <2>1. k # 1
    BY <1>10, <1>0, JobQueueShape
  <2>2. ~Unspawned
    BY <1>0, <2>1, CallOf DEF SpawnInv
  <2> QED
    BY <2>2 DEF Calm
<1>11. ASSUME NEW k \in Keys, JobReply(k) PROVE Calm
  <2>1. Len(calls') = Len(calls) /\ UNCHANGED actors
    BY <1>11, <1>0, JobReplyShape
  <2> QED
    BY <1>0, <2>1, CalmKept, ActorsSame
<1>12. ASSUME Welcome PROVE Calm
  <2>1. Len(calls') = Len(calls) /\ ActorsKept
    BY <1>12, <1>0, WelcomeShape
  <2> QED
    BY <1>0, <2>1, CalmKept
<1>13. ASSUME Spawn PROVE Calm
  <2>1. PICK valid \in BOOLEAN : Replying("S", Answer(1, valid, 0))
    BY <1>13, <1>0, SpawnShape
  <2>2. Taking("S") /\ net["S"][1].t = "spawn" /\ net["S"][1].k = 1
    BY <1>13, <1>0, <2>1, SpawnShape DEF Replying
  <2>3. Consumed("S", 1)
    BY <2>2 DEF Consumed, Taking, IsRequest
  <2> QED
    BY <2>3, SpawnRead, EndParts DEF Calm
<1>14. ASSUME Serve PROVE Calm
  <2>1. Len(calls') = Len(calls) /\ (UNCHANGED actors \/ ActorsKept)
    BY <1>14, <1>0, ServeShape
  <2> QED
    BY <1>0, <2>1, CalmKept, ActorsSame
<1>15. ASSUME Disconnected PROVE Calm
  <2>1. Len(calls') = Len(calls) /\ ActorsKept
    BY <1>15, <1>0, DisconnectedShape
  <2> QED
    BY <1>0, <2>1, CalmKept
<1>16. ASSUME CleanedUp PROVE Calm
  BY <1>16, <1>0, CalmSame DEF CleanedUp, linkVars
<1>17. ASSUME Released PROVE Calm
  BY <1>17, <1>0, CalmSame DEF Released, own
<1>18. ASSUME HelloAnswer PROVE Calm
  BY <1>18, <1>0, CalmSame, HelloAnswerShape DEF own
<1>19. ASSUME Refer PROVE Calm
  <2>1. Len(calls') = Len(calls) /\ UNCHANGED actors
    BY <1>19, <1>0, ReferShape
  <2> QED
    BY <1>0, <2>1, CalmKept, ActorsSame
<1>20. ASSUME Hangup PROVE Calm
  BY <1>20, <1>0, CalmSame DEF Hangup, own
<1>21. ASSUME NEW e \in Ends, Result(e) PROVE Calm
  <2>1. Len(calls') = Len(calls) /\ UNCHANGED actors
    BY <1>21, <1>0, ResultShape
  <2> QED
    BY <1>0, <2>1, CalmKept, ActorsSame
<1>22. ASSUME NEW e \in Ends, Output(e) PROVE Calm
  BY <1>22, <1>0, CalmSame, OutputShape
<1>23. ASSUME NEW e \in Ends, CloseFd(e), UNCHANGED own PROVE Calm
  BY <1>23, <1>0, CalmSame, CloseFdShape DEF own
<1>24. ASSUME NEW e \in Ends, CloseTable(e), UNCHANGED own PROVE Calm
  BY <1>24, <1>0, CalmSame, CloseTableShape DEF own
<1>25. ASSUME NEW a \in {"A", "L"}, Begin(a) PROVE Calm
  <2>1. actors[a].q # <<>> /\ Len(calls') = Len(calls)
        /\ \A b \in {"A", "L", "X"} : b # a => actors'[b] = actors[b]
    BY <1>25, <1>0, BeginShape DEF ActorSet
  <2>2. CASE a = "A"
    BY <1>0, <2>1, <2>2 DEF SpawnInv, Calm
  <2>3. CASE a # "A"
    BY <1>0, <2>1, <2>3 DEF SpawnInv, Calm, Quiet
  <2> QED
    BY <2>2, <2>3
<1>26. ASSUME NEW a \in {"A", "L"}, DoPrint(a) PROVE Calm
  <2>1. Len(calls') = Len(calls) /\ UNCHANGED actors
    BY <1>26, <1>0, DoPrintShape
  <2> QED
    BY <1>0, <2>1, CalmKept, ActorsSame
<1>27. ASSUME DoKeep("A") PROVE Calm
  <2>1. Len(calls') = Len(calls) /\ UNCHANGED actors
    BY <1>27, <1>0, DoKeepShape
  <2> QED
    BY <1>0, <2>1, CalmKept, ActorsSame
<1>28. ASSUME DoBack("A") PROVE Calm
  <2>1. actors["A"].cur # 0
    BY <1>28, <1>0, DoBackShape
  <2> QED
    BY <1>0, <2>1 DEF SpawnInv, Calm
<1>29. ASSUME DoAwait("A") PROVE Calm
  <2>1. Len(calls') = Len(calls) /\ UNCHANGED actors
    BY <1>29, <1>0, DoAwaitShape
  <2> QED
    BY <1>0, <2>1, CalmKept, ActorsSame
<1>30. ASSUME NEW a \in {"A", "L"}, Finish(a) PROVE Calm
  <2>1. actors[a].cur # 0 /\ Len(calls') = Len(calls)
        /\ \A b \in {"A", "L", "X"} : b # a => actors'[b] = actors[b]
    BY <1>30, <1>0, FinishShape DEF ActorSet
  <2>2. CASE a = "A"
    BY <1>0, <2>1, <2>2 DEF SpawnInv, Calm
  <2>3. CASE a # "A"
    BY <1>0, <2>1, <2>3 DEF SpawnInv, Calm, Quiet
  <2> QED
    BY <2>2, <2>3
<1>31. ASSUME Exit("A") PROVE Calm
  <2>1. Len(calls') = Len(calls) /\ ActorsKept
    BY <1>31, <1>0, ExitShape
  <2> QED
    BY <1>0, <2>1, CalmKept
<1>32. ASSUME NEW p \in DOMAIN proxies, Drop(p) PROVE Calm
  BY <1>32, <1>0, CalmSame, DropShape
<1>33. ASSUME Forget PROVE Calm
  <2>1. Len(calls') = Len(calls) /\ ActorsKept
    BY <1>33, <1>0, ForgetShape
  <2> QED
    BY <1>0, <2>1, CalmKept
<1>34. ASSUME Leave PROVE Calm
  BY <1>34, <1>0, CalmSame DEF Leave
<1>35. ASSUME NEW e \in Ends, Crash(e) PROVE Calm
  BY <1>35, <1>0, CalmSame DEF Crash
<1>36. ASSUME UNCHANGED vars PROVE Calm
  BY <1>36, <1>0, CalmSame DEF vars, linkVars, own
<1> QED
  BY <1>1, <1>2, <1>3, <1>4, <1>5, <1>6, <1>7, <1>8, <1>9, <1>10, <1>11, <1>12, <1>13, <1>14,
     <1>15, <1>16, <1>17, <1>18, <1>19, <1>20, <1>21, <1>22, <1>23, <1>24, <1>25, <1>26,
     <1>27, <1>28, <1>29, <1>30, <1>31, <1>32, <1>33, <1>34, <1>35, <1>36
     DEF Next, Step, Environment

(* The spawned actor. *)
LEMMA SpawnStep ==
  ASSUME Inv, [Next]_vars
  PROVE  SpawnInv'
<1>0. /\ TypeInv /\ StageInv /\ SpawnInv /\ SlotInv /\ ApartInv /\ FrameInv /\ CallsGrow /\ AllBorn
      /\ JobsMove /\ SlotsMove
  BY FrameFacts DEF Inv
<1> SUFFICES ASSUME Unspawned'
             PROVE  /\ Quiet
                    /\ calls' # <<>> => /\ promise'["C"][calls'[1].id].st # "ok"
                                        /\ calls'[1].job = "none" /\ calls'[1].ran = <<>>
  BY DEF SpawnInv, Quiet
<1>1. Unspawned
  BY UnspawnedBefore
<1>2. Quiet
  BY <1>1, CalmStep DEF Calm
<1>3. CASE calls # <<>>
  <2>1. 1 \in Keys /\ Older(1) /\ calls[1].end = "C" /\ calls[1].id # 0 /\ calls[1].id \in Ids
    <3>1. 1 \in Keys
      BY <1>0, <1>3, ListOf
    <3> QED
      BY <1>0, <1>3, <3>1, CallOf, CallType DEF CallsGrow, StageInv
  <2>2. calls'[1].id = calls[1].id
    BY <2>1, IdStays
  <2>3. /\ promise["C"][calls[1].id].st # "ok" /\ calls[1].job = "none" /\ calls[1].ran = <<>>
        /\ Len(calls) <= 1
    BY <1>0, <1>1, <1>3 DEF SpawnInv
  <2>4. calls'[1].job = "none" /\ calls'[1].ran = <<>>
    <3>1. JobMove(1)
      BY <1>0, <2>1 DEF JobsMove
    <3> QED
      BY <1>1, <2>3, <3>1, SpawnRead DEF JobMove
  <2>5. promise'["C"][calls[1].id].st # "ok"
    <3> SUFFICES ASSUME promise'["C"][calls[1].id].st = "ok" PROVE FALSE
      OBVIOUS
    <3>1. SlotMove("C", calls[1].id)
      BY <1>0, <2>1, EndParts DEF SlotsMove
    <3> DEFINE k == promise'["C"][calls[1].id].from
    <3>2. /\ AnswerOf("C", calls[1].id, k)
          /\ 1 \in DOMAIN net["C"] /\ net["C"][1].t = "result" /\ net["C"][1].k = k
      BY <2>1, <2>3, <3>1 DEF SlotMove, Untouched, Entered
    <3>3. k \in Keys
      BY <3>2 DEF AnswerOf
    <3>4. k = 1
      <4> HIDE DEF k
      <4> QED
        BY <1>0, <2>3, <3>3, CallOf
    <3> HIDE DEF k
    <3>5. ResultOK("C", net["C"][1])
      BY <1>0, <3>2, EndParts DEF FrameInv, FrameOK
    <3>6. calls[1].pc \in {"wait", "done"}
      BY <3>2, <3>4, <3>5 DEF ResultOK
    <3>7. PICK i \in DOMAIN net["S"] : net["S"][i].t = "spawn"
      BY <1>1, <1>3, <3>6 DEF Unspawned
    <3>8. IsRequest(net["S"][i]) /\ net["S"][i].k = 1
      <4>1. RequestOK("S", net["S"][i])
        BY <1>0, <3>7, EndParts DEF FrameInv, FrameOK, IsRequest
      <4> QED
        BY <3>7, <4>1 DEF RequestOK, IsRequest
    <3> QED
      BY <1>0, <3>2, <3>4, <3>7, <3>8, EndParts DEF ApartInv
  <2> QED
    BY <1>2, <2>2, <2>4, <2>5
<1>4. CASE calls = <<>>
  <2> SUFFICES ASSUME calls' # <<>>
               PROVE  /\ promise'["C"][calls'[1].id].st # "ok"
                      /\ calls'[1].job = "none" /\ calls'[1].ran = <<>>
    BY <1>2
  <2>1. Keys = {} /\ 1 \in Keys'
    BY <1>0, <1>4 DEF Keys, CallsGrow
  <2>2. Newborn(1)
    BY <1>0, <2>1 DEF AllBorn
  <2>3. Spawning(1)
    BY <2>2 DEF Newborn, Calling
  <2>4. calls'[1].id = 1 /\ main = "hello" /\ nextId["C"] = 1 /\ 1 \in Ids
    BY <1>0, <2>3, LinkAssumption DEF Spawning, StageInv, Ids
  <2>5. SlotMove("C", 1) /\ SlotOK("C", 1)
    BY <1>0, <2>4, EndParts DEF SlotsMove, SlotInv
  <2>6. promise'["C"][1].st # "ok"
    BY <2>4, <2>5 DEF SlotMove, SlotOK, Untouched, Settled, Entered
  <2> QED
    BY <2>2, <2>4, <2>6 DEF Newborn
<1> QED
  BY <1>3, <1>4

-----------------------------------------------------------------------------
(* Sequences of calls, as queues. *)
LEMMA TailNats ==
  ASSUME NEW s \in Seq(Nat), s # <<>>
  PROVE  /\ DOMAIN s = 1 .. Len(s) /\ Len(s) \in Nat /\ 1 \in DOMAIN s /\ Head(s) = s[1]
         /\ DOMAIN Tail(s) = 1 .. Len(s) - 1
         /\ \A i \in DOMAIN Tail(s) : i + 1 \in DOMAIN s /\ Tail(s)[i] = s[i + 1] /\ i \in Nat \ {0}
<1>1. Len(s) \in Nat /\ DOMAIN s = 1 .. Len(s) /\ Len(s) # 0
  OBVIOUS
<1>2. Tail(s) \in Seq(Nat) /\ Len(Tail(s)) = Len(s) - 1
  OBVIOUS
<1>3. \A i \in 1 .. Len(s) - 1 : Tail(s)[i] = s[i + 1]
  OBVIOUS
<1> QED
  BY <1>1, <1>2, <1>3

(* A call is queued on an actor. *)
LEMMA AppendNats ==
  ASSUME NEW s \in Seq(Nat), NEW k \in Nat
  PROVE  /\ DOMAIN s = 1 .. Len(s) /\ Len(s) \in Nat
         /\ DOMAIN Append(s, k) = 1 .. Len(s) + 1
         /\ \A i \in DOMAIN s : Append(s, k)[i] = s[i]
         /\ Append(s, k)[Len(s) + 1] = k
OBVIOUS

(* A call in hand whose job is not changed stays in hand. *)
LEMMA HandKept ==
  ASSUME Inv, [Next]_vars, NEW k, NEW a, InHand(k, a), calls'[k].job = calls[k].job
  PROVE  InHand(k, a)' /\ k \in Keys
<1>1. k \in Keys /\ k \in Keys' /\ Older(k)
  BY TableFacts, ListOf DEF InHand, CallsGrow, Keys
<1> QED
  BY <1>1 DEF InHand, Actor, Older

(* What the queue of a has become. *)
LEMMA QueueFrom ==
  ASSUME NEW a \in {"A", "L"}, NEW s, NEW c, actors'[a].q = s, actors'[a].cur = c,
         \A i \in DOMAIN s : InHand(s[i], a)' /\ calls'[s[i]].ran = <<>>,
         \A i, j \in DOMAIN s : s[i] = s[j] => i = j,
         c # 0 => InHand(c, a)' /\ calls'[c].ran = <<a>>
  PROVE  QueueOK(a)'
BY DEF QueueOK, InHand, Actor

(* The queue and the call of a are what they were. *)
LEMMA QueueHeld ==
  ASSUME Inv, [Next]_vars, NEW a \in {"A", "L"},
         actors'[a].q = actors[a].q, actors'[a].cur = actors[a].cur,
         \A k \in Keys : InHand(k, a) => calls'[k].job = calls[k].job /\ calls'[k].ran = calls[k].ran
  PROVE  QueueOK(a)'
<1>0. QueueOK(a)
  BY DEF Inv, QueueInv
<1>1. ASSUME NEW i \in DOMAIN actors[a].q
      PROVE  InHand(actors[a].q[i], a)' /\ calls'[actors'[a].q[i]].ran = <<>>
  <2>1. PICK k : k = actors[a].q[i]
    OBVIOUS
  <2>2. InHand(k, a) /\ calls[k].ran = <<>> /\ k \in Keys
    BY <1>0, <1>1, <2>1 DEF QueueOK, InHand
  <2>3. InHand(k, a)'
    BY <2>2, HandKept
  <2> QED
    BY <2>1, <2>2, <2>3
<1>2. actors[a].cur # 0 => InHand(actors[a].cur, a)' /\ calls'[actors[a].cur].ran = <<a>>
  <2>1. PICK k : k = actors[a].cur
    OBVIOUS
  <2> SUFFICES ASSUME k # 0 PROVE InHand(actors[a].cur, a)' /\ calls'[k].ran = <<a>>
    BY <2>1
  <2>2. InHand(k, a) /\ calls[k].ran = <<a>> /\ k \in Keys
    BY <1>0, <2>1 DEF QueueOK, InHand
  <2>3. InHand(k, a)'
    BY <2>2, HandKept
  <2> QED
    BY <2>1, <2>2, <2>3
<1> QED
  BY <1>0, <1>1, <1>2 DEF QueueOK

(* No call in hand is touched. *)
LEMMA QueueKept ==
  ASSUME Inv, [Next]_vars, ActorsKept,
         \A k \in Keys : \A a \in {"A", "L"} :
           InHand(k, a) => calls'[k].job = calls[k].job /\ calls'[k].ran = calls[k].ran
  PROVE  QueueInv'
<1>1. \A a \in {"A", "L"} : QueueOK(a)'
  BY QueueHeld DEF ActorsKept
<1> QED
  BY <1>1 DEF QueueInv

(* No queue, no job and no method changes. *)
LEMMA QueueStill ==
  ASSUME Inv, [Next]_vars, ActorsKept,
         \A k \in Keys : calls'[k].job = calls[k].job /\ calls'[k].ran = calls[k].ran
  PROVE  QueueInv'
BY QueueKept

(* Neither calls nor actors change. *)
LEMMA QueueStaysSame ==
  ASSUME Inv, [Next]_vars, UNCHANGED <<calls, actors>>
  PROVE  QueueInv'
<1>1. ActorsKept
  BY ActorsSame DEF Inv
<1> QED
  BY <1>1, QueueStill

(* The queues. *)
LEMMA QueueStep ==
  ASSUME Inv, [Next]_vars
  PROVE  QueueInv'
<1>0. /\ TypeInv /\ StageInv /\ RefInv /\ FrameInv /\ IdInv /\ SlotInv /\ JobInv /\ QueueInv
      /\ TakenInv /\ SpawnInv
  BY DEF Inv
<1>1. ASSUME Connect PROVE QueueInv'
  BY <1>1, <1>0, QueueStaysSame, ConnectShape
<1>2. ASSUME EnterSlot PROVE QueueInv'
  BY <1>2, <1>0, QueueStaysSame, EnterSlotShape
<1>3. ASSUME TakeFuture PROVE QueueInv'
  BY <1>3, <1>0, QueueStaysSame, TakeFutureShape
<1>4. ASSUME Greeted PROVE QueueInv'
  <2>1. Keys = {} /\ ActorsKept
    BY <1>4, <1>0, GreetedShape, ActorsSame DEF Keys
  <2> QED
    BY <2>1, QueueStill
<1>5. ASSUME Unwind PROVE QueueInv'
  BY <1>5, <1>0, QueueStaysSame, UnwindShape DEF own
<1>6. ASSUME NEW k \in Keys, TakeCall(k) PROVE QueueInv'
  <2>1. \A j \in Keys : calls'[j].job = calls[j].job /\ calls'[j].ran = calls[j].ran
    <3> DEFINE c == k
    <3>1. Alters(c, {"pc", "id", "wire"})
      BY <1>6, <1>0, TakeCallShape
    <3> HIDE DEF c
    <3> QED
      BY <3>1 DEF Alters, Fields
  <2>2. ActorsKept
    BY <1>6, <1>0, TakeCallShape, ActorsSame
  <2> QED
    BY <2>1, <2>2, QueueStill
<1>7. ASSUME NEW k \in Keys, EnterCall(k) PROVE QueueInv'
  <2>1. \A j \in Keys : calls'[j].job = calls[j].job /\ calls'[j].ran = calls[j].ran
    <3> DEFINE c == k
    <3>1. Alters(c, {"pc"})
      BY <1>7, <1>0, EnterCallShape
    <3> HIDE DEF c
    <3> QED
      BY <3>1 DEF Alters, Fields
  <2>2. ActorsKept
    BY <1>7, <1>0, EnterCallShape, ActorsSame
  <2> QED
    BY <2>1, <2>2, QueueStill
<1>8. ASSUME NEW k \in Keys, SendCall(k) PROVE QueueInv'
  <2>0. ActorsKept
    BY <1>8, <1>0, SendCallShape, ActorsSame
  <2>1. CASE Threw(k)
    <3>1. \A j \in Keys : calls'[j].job = calls[j].job /\ calls'[j].ran = calls[j].ran
      BY <2>1 DEF Threw, Fields
    <3> QED
      BY <2>0, <3>1, QueueStill
  <2>2. CASE Alters(k, {"pc"})
    <3>1. \A j \in Keys : calls'[j].job = calls[j].job /\ calls'[j].ran = calls[j].ran
      BY <2>2 DEF Came, Alters, Fields
    <3> QED
      BY <2>0, <3>1, QueueStill
  <2> QED
    BY <1>8, <1>0, <2>1, <2>2, SendCallShape
<1>9. ASSUME NEW k \in Keys, ReturnCall(k) PROVE QueueInv'
  <2>0. ActorsKept
    BY <1>9, <1>0, ReturnCallShape, ActorsSame
  <2>1. CASE Threw(k)
    <3>1. \A j \in Keys : calls'[j].job = calls[j].job /\ calls'[j].ran = calls[j].ran
      BY <2>1 DEF Threw, Fields
    <3> QED
      BY <2>0, <3>1, QueueStill
  <2>2. CASE Came(k)
    <3>1. \A j \in Keys : calls'[j].job = calls[j].job /\ calls'[j].ran = calls[j].ran
      BY <2>2 DEF Came, Alters, Fields
    <3> QED
      BY <2>0, <3>1, QueueStill
  <2> QED
    BY <1>9, <1>0, <2>1, <2>2, ReturnCallShape
<1>10. ASSUME NEW k \in Keys, JobQueue(k) PROVE QueueInv'
  <2>1. /\ Alters(k, {"job"}) /\ calls[k].job = "new" /\ k # 1
        /\ \/ calls'[k].job = "dead" /\ actors' = actors
           \/ /\ calls'[k].job = "queued"
              /\ ActorSet(Actor(k), Append(actors[Actor(k)].q, k), actors[Actor(k)].cur)
    BY <1>10, <1>0, JobQueueShape
  <2>2. \A a \in {"A", "L"} : ~InHand(k, a)
    BY <2>1 DEF InHand
  <2>3. \A j \in Keys : \A a \in {"A", "L"} :
          InHand(j, a) => calls'[j].job = calls[j].job /\ calls'[j].ran = calls[j].ran
    BY <2>1, <2>2 DEF Alters
  <2>4. CASE actors' = actors
    BY <1>0, <2>3, <2>4, QueueKept, ActorsSame
  <2>5. CASE /\ calls'[k].job = "queued"
             /\ ActorSet(Actor(k), Append(actors[Actor(k)].q, k), actors[Actor(k)].cur)
    <3>0. PICK b : b = Actor(k) /\ b \in {"A", "L"}
      BY DEF Actor
    <3>1. ASSUME NEW a \in {"A", "L"}, a # b PROVE QueueOK(a)'
      <4>1. actors'[a] = actors[a]
        BY <2>5, <3>0, <3>1 DEF ActorSet
      <4> QED
        BY <2>3, <4>1, QueueHeld
    <3>2. QueueOK(b)'
      <4>0. PICK s : s = actors[b].q
        OBVIOUS
      <4>01. PICK t : t = Append(s, k)
        OBVIOUS
      <4>02. PICK c : c = actors[b].cur
        OBVIOUS
      <4>03. PICK n : n = Len(s) + 1
        OBVIOUS
      <4>1. s \in Seq(Nat) /\ k \in Nat
        BY <1>0, <3>0, <4>0, ActorType, CallOf
      <4>2. /\ Len(s) \in Nat /\ DOMAIN s = 1 .. Len(s) /\ DOMAIN t = 1 .. n
            /\ t[n] = k /\ \A i \in DOMAIN s : t[i] = s[i]
        BY <4>01, <4>03, <4>1, AppendNats
      <4>3. actors'[b].q = t /\ actors'[b].cur = c
        BY <2>5, <3>0, <4>0, <4>01, <4>02 DEF ActorSet
      <4>4. /\ \A i \in DOMAIN s : InHand(s[i], b) /\ calls[s[i]].ran = <<>>
            /\ \A i, j \in DOMAIN s : s[i] = s[j] => i = j
            /\ c # 0 => InHand(c, b) /\ calls[c].ran = <<b>>
        BY <1>0, <3>0, <4>0, <4>02 DEF QueueInv, QueueOK
      <4>5. InHand(k, b)' /\ calls'[k].ran = <<>>
        <5>1. k \in Keys' /\ Older(k)
          BY FrameFacts, ListOf DEF CallsGrow, Keys
        <5>2. calls[k].ran = <<>> /\ calls'[k].ran = calls[k].ran
          BY <1>0, <2>1 DEF JobInv, JobOK, Alters, Fields
        <5> QED
          BY <2>1, <2>5, <3>0, <5>1, <5>2 DEF InHand, Actor, Older
      <4>6. ASSUME NEW j, InHand(j, b) PROVE InHand(j, b)' /\ calls'[j].ran = calls[j].ran /\ j # k
        <5>1. j \in Keys
          BY <4>6 DEF InHand
        <5>2. calls'[j].job = calls[j].job /\ calls'[j].ran = calls[j].ran /\ j # k
          BY <2>2, <2>3, <3>0, <4>6, <5>1
        <5> QED
          BY <4>6, <5>2, HandKept
      <4>7. ASSUME NEW i \in DOMAIN t PROVE InHand(t[i], b)' /\ calls'[t[i]].ran = <<>>
        <5>1. CASE i = n
          BY <4>2, <4>5, <5>1
        <5>2. CASE i # n
          <6>1. i \in DOMAIN s /\ t[i] = s[i]
            BY <4>03, <4>2, <4>7, <5>2
          <6> QED
            BY <4>4, <4>6, <6>1
        <5> QED
          BY <5>1, <5>2
      <4>8. \A i, j \in DOMAIN t : t[i] = t[j] => i = j
        <5>1. \A i \in DOMAIN s : s[i] # k
          BY <4>4, <4>6
        <5> QED
          BY <4>03, <4>2, <4>4, <5>1
      <4>9. c # 0 => InHand(c, b)' /\ calls'[c].ran = <<b>>
        BY <4>4, <4>6
      <4> QED
        BY <3>0, <4>3, <4>7, <4>8, <4>9, QueueFrom
    <3> QED
      BY <3>1, <3>2 DEF QueueInv
  <2> QED
    BY <2>1, <2>4, <2>5
<1>11. ASSUME NEW k \in Keys, JobReply(k) PROVE QueueInv'
  <2>1. Alters(k, {"job"}) /\ calls[k].job \in {"ran", "dead"} /\ ActorsKept
    BY <1>11, <1>0, JobReplyShape, ActorsSame
  <2>2. \A a \in {"A", "L"} : ~InHand(k, a)
    BY <2>1 DEF InHand
  <2> QED
    BY <2>1, <2>2, QueueKept DEF Alters
<1>12. ASSUME Welcome PROVE QueueInv'
  <2>1. ActorsKept /\ UNCHANGED calls
    BY <1>12, <1>0, WelcomeShape
  <2> QED
    BY <2>1, QueueStill
<1>13. ASSUME Spawn PROVE QueueInv'
  <2>1. /\ net["S"][1].t = "spawn" /\ 1 \in Keys /\ UNCHANGED calls
        /\ actors' = actors \/ ActorSet("A", <<1>>, actors["A"].cur)
    BY <1>13, <1>0, SpawnShape
  <2>2. 1 \in DOMAIN net["S"]
    BY <1>13, <1>0, SpawnShape DEF Replying, Taking
  <2>3. Unspawned
    BY <2>1, <2>2 DEF Unspawned
  <2>4. calls # <<>>
    BY <2>1 DEF Keys
  <2>5. calls[1].job = "none" /\ calls[1].ran = <<>> /\ actors["A"].cur = 0 /\ calls[1].end = "C"
    BY <1>0, <2>3, <2>4 DEF SpawnInv, StageInv
  <2>6. CASE actors' = actors
    BY <2>1, <2>6, QueueStaysSame
  <2>7. CASE ActorSet("A", <<1>>, actors["A"].cur)
    <3>1. QueueOK("A")'
      <4>1. PICK s : s = <<1>>
        OBVIOUS
      <4>2. DOMAIN s = {1} /\ s[1] = 1
        BY <4>1
      <4>3. PICK c : c = 0
        OBVIOUS
      <4>4. actors'["A"].q = s /\ actors'["A"].cur = c
        BY <2>5, <2>7, <4>1, <4>3 DEF ActorSet
      <4>5. InHand(1, "A")' /\ calls'[1].ran = <<>>
        BY <2>1, <2>5 DEF InHand, Actor, Keys
      <4> QED
        BY <4>2, <4>3, <4>4, <4>5, QueueFrom
    <3>2. QueueOK("L")'
      <4>1. actors'["L"] = actors["L"]
        BY <2>7 DEF ActorSet
      <4> QED
        BY <2>1, <4>1, QueueHeld
    <3> QED
      BY <3>1, <3>2 DEF QueueInv
  <2> QED
    BY <2>1, <2>6, <2>7
<1>14. ASSUME Serve PROVE QueueInv'
  <2>0. PICK k : k = net["S"][1].k
    OBVIOUS
  <2>3. ActorsKept
    BY <1>14, <1>0, ServeShape, ActorsSame
  <2>1. CASE UNCHANGED calls
    BY <2>1, <2>3, QueueStill
  <2>2. CASE ~UNCHANGED calls
    <3>1. Alters(k, {"job", "to", "ref"}) /\ net["S"][1].t = "call" /\ FrameOK("S", net["S"][1])
      BY <1>14, <1>0, <2>0, <2>2, ServeShape
    <3>2. k # 1 /\ calls[k].job = "none"
      BY <2>0, <3>1 DEF FrameOK, IsRequest, RequestOK
    <3>3. \A a \in {"A", "L"} : ~InHand(k, a)
      BY <3>2 DEF InHand
    <3> QED
      BY <2>3, <3>1, <3>3, QueueKept DEF Alters
  <2> QED
    BY <2>1, <2>2
<1>15. ASSUME Disconnected PROVE QueueInv'
  <2>1. ActorsKept /\ UNCHANGED calls
    BY <1>15, <1>0, DisconnectedShape
  <2> QED
    BY <2>1, QueueStill
<1>16. ASSUME CleanedUp PROVE QueueInv'
  BY <1>16, <1>0, QueueStaysSame DEF CleanedUp, linkVars
<1>17. ASSUME Released PROVE QueueInv'
  BY <1>17, <1>0, QueueStaysSame DEF Released, own
<1>18. ASSUME HelloAnswer PROVE QueueInv'
  BY <1>18, <1>0, QueueStaysSame, HelloAnswerShape DEF own
<1>19. ASSUME Refer PROVE QueueInv'
  <2>0. PICK k : k = net["C"][1].k
    OBVIOUS
  <2>3. ActorsKept
    BY <1>19, <1>0, ReferShape, ActorsSame
  <2>1. CASE UNCHANGED calls
    BY <2>1, <2>3, QueueStill
  <2>2. CASE ~UNCHANGED calls
    <3>1. Alters(k, {"job", "to"}) /\ net["C"][1].t = "call" /\ FrameOK("C", net["C"][1])
      BY <1>19, <1>0, <2>0, <2>2, ReferShape
    <3>2. k # 1 /\ calls[k].job = "none"
      BY <2>0, <3>1 DEF FrameOK, IsRequest, RequestOK
    <3>3. \A a \in {"A", "L"} : ~InHand(k, a)
      BY <3>2 DEF InHand
    <3> QED
      BY <2>3, <3>1, <3>3, QueueKept DEF Alters
  <2> QED
    BY <2>1, <2>2
<1>20. ASSUME Hangup PROVE QueueInv'
  BY <1>20, <1>0, QueueStaysSame DEF Hangup, own
<1>21. ASSUME NEW e \in Ends, Result(e) PROVE QueueInv'
  <2>1. \A j \in Keys : calls'[j].job = calls[j].job /\ calls'[j].ran = calls[j].ran
    <3> DEFINE c == net[e][1].k
    <3>1. Alters(c, {"gift"}) \/ UNCHANGED calls
      BY <1>21, <1>0, ResultShape
    <3> HIDE DEF c
    <3> QED
      BY <3>1 DEF Alters, Fields
  <2>2. ActorsKept
    BY <1>21, <1>0, ResultShape, ActorsSame
  <2> QED
    BY <2>1, <2>2, QueueStill
<1>22. ASSUME NEW e \in Ends, Output(e) PROVE QueueInv'
  BY <1>22, <1>0, QueueStaysSame, OutputShape
<1>23. ASSUME NEW e \in Ends, CloseFd(e), UNCHANGED own PROVE QueueInv'
  BY <1>23, <1>0, QueueStaysSame, CloseFdShape DEF own
<1>24. ASSUME NEW e \in Ends, CloseTable(e), UNCHANGED own PROVE QueueInv'
  BY <1>24, <1>0, QueueStaysSame, CloseTableShape DEF own
<1>25. ASSUME NEW a \in {"A", "L"}, Begin(a) PROVE QueueInv'
  <2>0. PICK k : k = actors[a].q[1]
    OBVIOUS
  <2>1. /\ actors[a].q # <<>> /\ k \in Keys /\ k # 0 /\ InHand(k, a) /\ Alters(k, {"ran"})
        /\ calls'[k].ran = <<a>> /\ ActorSet(a, Tail(actors[a].q), k)
    BY <1>25, <1>0, <2>0, BeginShape
  <2>2. Actor(k) = a /\ calls'[k].job = calls[k].job
    BY <2>1 DEF InHand, Alters, Fields
  <2>3. ASSUME NEW j, NEW b, j # k, InHand(j, b) PROVE InHand(j, b)' /\ calls'[j].ran = calls[j].ran
    <3>1. j \in Keys
      BY <2>3 DEF InHand
    <3>2. calls'[j] = calls[j]
      BY <2>1, <2>3, <3>1 DEF Alters
    <3> QED
      BY <2>3, <3>2, HandKept
  <2>4. ASSUME NEW b \in {"A", "L"}, b # a PROVE QueueOK(b)'
    <3>1. actors'[b] = actors[b]
      BY <2>1, <2>4 DEF ActorSet
    <3>2. \A j \in Keys : InHand(j, b) => calls'[j].job = calls[j].job /\ calls'[j].ran = calls[j].ran
      <4>1. \A j \in Keys : InHand(j, b) => j # k
        BY <2>2, <2>4 DEF InHand
      <4> QED
        BY <2>1, <4>1 DEF Alters
    <3> QED
      BY <3>1, <3>2, QueueHeld
  <2>5. QueueOK(a)'
    <3>0. PICK s : s = actors[a].q
      OBVIOUS
    <3>01. PICK t : t = Tail(s)
      OBVIOUS
    <3>1. s \in Seq(Nat) /\ s # <<>>
      BY <1>0, <2>1, <3>0, ActorType
    <3>2. /\ 1 \in DOMAIN s
          /\ \A i \in DOMAIN t : i + 1 \in DOMAIN s /\ t[i] = s[i + 1] /\ i \in Nat \ {0}
      <4>1. /\ 1 \in DOMAIN s
            /\ \A i \in DOMAIN Tail(s) : i + 1 \in DOMAIN s /\ Tail(s)[i] = s[i + 1] /\ i \in Nat \ {0}
        BY <3>1, TailNats
      <4> QED
        BY <3>01, <4>1
    <3>3. actors'[a].q = t /\ actors'[a].cur = k
      BY <2>1, <3>0, <3>01 DEF ActorSet
    <3>4. /\ \A i \in DOMAIN s : InHand(s[i], a) /\ calls[s[i]].ran = <<>>
          /\ \A i, j \in DOMAIN s : s[i] = s[j] => i = j
      BY <1>0, <3>0 DEF QueueInv, QueueOK
    <3>5. \A i \in DOMAIN t : t[i] # k
      BY <2>0, <3>0, <3>2, <3>4
    <3>6. \A i \in DOMAIN t : InHand(t[i], a)' /\ calls'[t[i]].ran = <<>>
      BY <2>3, <3>2, <3>4, <3>5
    <3>7. \A i, j \in DOMAIN t : t[i] = t[j] => i = j
      BY <3>2, <3>4
    <3>8. InHand(k, a)'
      BY <2>1, <2>2, HandKept
    <3> QED
      BY <2>1, <3>3, <3>6, <3>7, <3>8, QueueFrom
  <2> QED
    BY <2>4, <2>5 DEF QueueInv
<1>26. ASSUME NEW a \in {"A", "L"}, DoPrint(a) PROVE QueueInv'
  <2>1. \A j \in Keys : calls'[j].job = calls[j].job /\ calls'[j].ran = calls[j].ran
    <3> DEFINE c == actors[a].cur
    <3>1. Alters(c, {"body"})
      BY <1>26, <1>0, DoPrintShape
    <3> HIDE DEF c
    <3> QED
      BY <3>1 DEF Alters, Fields
  <2>2. ActorsKept
    BY <1>26, <1>0, DoPrintShape, ActorsSame
  <2> QED
    BY <2>1, <2>2, QueueStill
<1>27. ASSUME DoKeep("A") PROVE QueueInv'
  <2>1. \A j \in Keys : calls'[j].job = calls[j].job /\ calls'[j].ran = calls[j].ran
    <3> DEFINE c == actors["A"].cur
    <3>1. Alters(c, {"body"})
      BY <1>27, <1>0, DoKeepShape
    <3> HIDE DEF c
    <3> QED
      BY <3>1 DEF Alters, Fields
  <2>2. ActorsKept
    BY <1>27, <1>0, DoKeepShape, ActorsSame
  <2> QED
    BY <2>1, <2>2, QueueStill
<1>28. ASSUME DoBack("A") PROVE QueueInv'
  <2>1. \A j \in Keys : calls'[j].job = calls[j].job /\ calls'[j].ran = calls[j].ran
    <3> DEFINE c == actors["A"].cur
    <3>1. Alters(c, {"body", "last"})
      BY <1>28, <1>0, DoBackShape
    <3> HIDE DEF c
    <3> QED
      BY <3>1 DEF Alters, Fields
  <2>2. ActorsKept
    BY <1>28, <1>0, DoBackShape, ActorsSame
  <2> QED
    BY <2>1, <2>2, QueueStill
<1>29. ASSUME DoAwait("A") PROVE QueueInv'
  <2>1. \A j \in Keys : calls'[j].job = calls[j].job /\ calls'[j].ran = calls[j].ran
    <3> DEFINE k == actors["A"].cur
               c == calls[k].last
    <3>1. /\ k \in Keys /\ (c # 0 => c \in Keys)
          /\ \A j \in Keys : j # k /\ j # c => calls'[j] = calls[j]
          /\ \A f \in Fields \ {"body"} : calls'[k][f] = calls[k][f]
          /\ c # 0 => \A f \in Fields \ {"waited"} : calls'[c][f] = calls[c][f]
      BY <1>29, <1>0, DoAwaitShape
    <3>2. 0 \notin Keys
      BY <1>0, ListOf
    <3> HIDE DEF k, c
    <3> QED
      BY <3>1, <3>2 DEF Fields
  <2>2. ActorsKept
    BY <1>29, <1>0, DoAwaitShape, ActorsSame
  <2> QED
    BY <2>1, <2>2, QueueStill
<1>30. ASSUME NEW a \in {"A", "L"}, Finish(a) PROVE QueueInv'
  <2>0. PICK k : k = actors[a].cur
    OBVIOUS
  <2>1. /\ k \in Keys /\ InHand(k, a) /\ Alters(k, {"job"}) /\ calls[k].ran = <<a>>
        /\ ActorSet(a, actors[a].q, 0)
    BY <1>30, <1>0, <2>0, FinishShape
  <2>4. ASSUME NEW b \in {"A", "L"}, b # a PROVE QueueOK(b)'
    <3>1. actors'[b] = actors[b]
      BY <2>1, <2>4 DEF ActorSet
    <3>2. \A j \in Keys : InHand(j, b) => calls'[j].job = calls[j].job /\ calls'[j].ran = calls[j].ran
      <4>1. \A j \in Keys : InHand(j, b) => j # k
        BY <2>1, <2>4 DEF InHand
      <4> QED
        BY <2>1, <4>1 DEF Alters
    <3> QED
      BY <3>1, <3>2, QueueHeld
  <2>5. QueueOK(a)'
    <3>0. PICK s : s = actors[a].q
      OBVIOUS
    <3>01. PICK c : c = 0
      OBVIOUS
    <3>3. actors'[a].q = s /\ actors'[a].cur = c
      BY <2>1, <3>0, <3>01 DEF ActorSet
    <3>4. /\ \A i \in DOMAIN s : InHand(s[i], a) /\ calls[s[i]].ran = <<>>
          /\ \A i, j \in DOMAIN s : s[i] = s[j] => i = j
      BY <1>0, <3>0 DEF QueueInv, QueueOK
    <3>5. ASSUME NEW i \in DOMAIN s PROVE InHand(s[i], a)' /\ calls'[s[i]].ran = <<>>
      <4>0. <<a>> # <<>>
        OBVIOUS
      <4>1. s[i] # k /\ s[i] \in Keys
        BY <2>1, <3>4, <3>5, <4>0 DEF InHand
      <4>2. calls'[s[i]] = calls[s[i]]
        BY <2>1, <4>1 DEF Alters
      <4> QED
        BY <3>4, <3>5, <4>2, HandKept
    <3> QED
      BY <3>01, <3>3, <3>4, <3>5, QueueFrom
  <2> QED
    BY <2>4, <2>5 DEF QueueInv
<1>31. ASSUME Exit("A") PROVE QueueInv'
  <2>1. ActorsKept /\ UNCHANGED calls
    BY <1>31, <1>0, ExitShape
  <2> QED
    BY <2>1, QueueStill
<1>32. ASSUME NEW p \in DOMAIN proxies, Drop(p) PROVE QueueInv'
  BY <1>32, <1>0, QueueStaysSame, DropShape
<1>33. ASSUME Forget PROVE QueueInv'
  <2>1. ActorsKept /\ UNCHANGED calls
    BY <1>33, <1>0, ForgetShape
  <2> QED
    BY <2>1, QueueStill
<1>34. ASSUME Leave PROVE QueueInv'
  BY <1>34, <1>0, QueueStaysSame DEF Leave
<1>35. ASSUME NEW e \in Ends, Crash(e) PROVE QueueInv'
  BY <1>35, <1>0, QueueStaysSame DEF Crash
<1>36. ASSUME UNCHANGED vars PROVE QueueInv'
  BY <1>36, <1>0, QueueStaysSame DEF vars, linkVars, own
<1> QED
  BY <1>1, <1>2, <1>3, <1>4, <1>5, <1>6, <1>7, <1>8, <1>9, <1>10, <1>11, <1>12, <1>13, <1>14,
     <1>15, <1>16, <1>17, <1>18, <1>19, <1>20, <1>21, <1>22, <1>23, <1>24, <1>25, <1>26,
     <1>27, <1>28, <1>29, <1>30, <1>31, <1>32, <1>33, <1>34, <1>35, <1>36
     DEF Next, Step, Environment

-----------------------------------------------------------------------------
(* What a step does to references, in a program that sends none home *)

(* A new proxy stands for the actor it was made from. *)
Aimed(p) ==
  /\ proxies'[p].target = IF proxies'[p].end = "C" THEN "A" ELSE "L"
  /\ proxies'[p].end = "C" => proxies'[p].aid = 1

(* The reference a call sends, and the one its method is given. *)
Aims(k) ==
  /\ \/ calls'[k].wire = calls[k].wire
     \/ calls[k].pc = "queued" /\ (calls[k].arg # "L" => calls'[k].wire = 0)
  /\ \/ calls'[k].ref = calls[k].ref
     \/ calls'[k].ref = 0
     \/ calls'[k].ref = Len(proxies) + 1 /\ proxies'[Len(proxies) + 1].end = "S"

AimsNew(k) ==
  /\ calls'[k].arg # "A" /\ ~calls'[k].gives
  /\ k # 1 => proxies'[calls'[k].via].end = calls'[k].end

TargetMove ==
  /\ world' = world
  /\ Outward =>
       /\ locals'["S"] = locals["S"]
       /\ \A p \in 1 .. Len(proxies') : p > Len(proxies) => Aimed(p)
       /\ \A k \in Keys : Aims(k)
       /\ \A k \in Keys' \ Keys : AimsNew(k)
       /\ kept' = kept \/ \E k \in Keys : kept' = calls[k].ref

(* No proxy is made and no reference is passed on. *)
LEMMA TargetKept ==
  ASSUME TypeInv, UNCHANGED world, Outward => locals'["S"] = locals["S"],
         Len(proxies') = Len(proxies), Keys' = Keys, UNCHANGED kept,
         \A j \in Keys : calls'[j].wire = calls[j].wire /\ calls'[j].ref = calls[j].ref
  PROVE  TargetMove
<1>1. Len(proxies) \in Nat
  BY DEF TypeInv, OwnType
<1>2. \A p \in 1 .. Len(proxies') : ~(p > Len(proxies))
  BY <1>1
<1> QED
  BY <1>2 DEF TargetMove, Aims

(* A call has thrown: nothing of this changes. *)
LEMMA TargetThrown ==
  ASSUME TypeInv, NEW k, Threw(k), Keys' = Keys, UNCHANGED <<world, locals, kept>>
  PROVE  TargetMove
<1>1. \A j \in Keys : calls'[j].wire = calls[j].wire /\ calls'[j].ref = calls[j].ref
  BY DEF Threw, Fields
<1>2. Len(proxies') = Len(proxies)
  BY DEF Threw, ProxiesKept
<1> QED
  BY <1>1, <1>2, TargetKept

(* Neither references nor proxies change. *)
LEMMA TargetsSame ==
  ASSUME TypeInv, UNCHANGED <<world, locals, proxies, calls, kept>>
  PROVE  TargetMove
<1>1. Keys' = Keys
  BY DEF Keys
<1> QED
  BY <1>1, TargetKept

(* Every reference a step passes on. *)
LEMMA TargetsStep ==
  ASSUME Inv, [Next]_vars
  PROVE  TargetMove
<1>0. /\ TypeInv /\ StageInv /\ RefInv /\ FrameInv /\ IdInv /\ SlotInv /\ JobInv /\ QueueInv
      /\ TakenInv /\ SpawnInv /\ TargetInv /\ ProxiesGrow /\ AllBorn
  BY ProxiesStep, BornStep DEF Inv
<1>1. ASSUME Connect PROVE TargetMove
  BY <1>1, <1>0, TargetsSame, ConnectShape
<1>2. ASSUME EnterSlot PROVE TargetMove
  BY <1>2, <1>0, TargetsSame, EnterSlotShape
<1>3. ASSUME TakeFuture PROVE TargetMove
  BY <1>3, <1>0, TargetsSame, TakeFutureShape
<1>4. ASSUME Greeted PROVE TargetMove
  <2>1. UNCHANGED <<world, locals, proxies, kept>> /\ Keys = {}
    BY <1>4, <1>0, GreetedShape DEF Keys
  <2>2. \A j \in Keys' : j = 1 /\ calls'[j].arg # "A" /\ ~calls'[j].gives
    <3>1. CASE UNCHANGED calls
      BY <2>1, <3>1 DEF Keys
    <3>2. CASE ~UNCHANGED calls
      <4>1. /\ calls' \in Seq(CallRec) /\ Len(calls') = 1
            /\ calls'[1].arg = "none" /\ calls'[1].gives = FALSE
        BY <1>4, <1>0, <3>2, GreetedShape DEF First
      <4>2. DOMAIN calls' = 1 .. 1
        BY <4>1
      <4> QED
        BY <4>1, <4>2 DEF Keys
    <3> QED
      BY <3>1, <3>2
  <2>3. \A p \in 1 .. Len(proxies') : ~(p > Len(proxies))
    BY <1>0, <2>1 DEF ProxiesGrow
  <2> QED
    BY <2>1, <2>2, <2>3 DEF TargetMove, AimsNew
<1>5. ASSUME Unwind PROVE TargetMove
  BY <1>5, <1>0, TargetsSame, UnwindShape DEF own
<1>6. ASSUME NEW k \in Keys, TakeCall(k) PROVE TargetMove
  <2>1. /\ Alters(k, {"pc", "id", "wire"}) /\ Keys' = Keys /\ calls[k].pc = "queued"
        /\ calls[k].arg = "none" => calls'[k].wire = 0
        /\ locals'["S"] = locals["S"] /\ UNCHANGED <<world, proxies, kept>>
    BY <1>6, <1>0, TakeCallShape
  <2>2. Outward => calls[k].arg # "A"
    BY <1>6, <1>0 DEF TargetInv
  <2>3. calls[k].arg \in {"none", "L", "A"}
    BY <1>0, CallOf, CallType
  <2>4. Outward => \A j \in Keys : Aims(j)
    BY <2>1, <2>2, <2>3 DEF Alters, Fields, Aims
  <2>5. Len(proxies) \in Nat
    BY <1>0 DEF ProxiesGrow
  <2>6. \A p \in 1 .. Len(proxies') : ~(p > Len(proxies))
    BY <2>1, <2>5
  <2> QED
    BY <2>1, <2>4, <2>6 DEF TargetMove
<1>7. ASSUME NEW k \in Keys, EnterCall(k) PROVE TargetMove
  <2>1. \A j \in Keys : calls'[j].wire = calls[j].wire /\ calls'[j].ref = calls[j].ref
    <3> DEFINE c == k
    <3>1. Alters(c, {"pc"})
      BY <1>7, <1>0, EnterCallShape
    <3> HIDE DEF c
    <3> QED
      BY <3>1 DEF Alters, Fields
  <2>2. Keys' = Keys /\ UNCHANGED <<world, locals, proxies, kept>>
    BY <1>7, <1>0, EnterCallShape DEF Keys
  <2> QED
    BY <1>0, <2>1, <2>2, TargetKept
<1>8. ASSUME NEW k \in Keys, SendCall(k) PROVE TargetMove
  <2>0. UNCHANGED <<world, locals, kept>> /\ Keys' = Keys
    BY <1>8, <1>0, SendCallShape
  <2>1. CASE Threw(k)
    BY <1>0, <2>0, <2>1, TargetThrown
  <2>2. CASE Alters(k, {"pc"}) /\ UNCHANGED proxies
    <3>1. \A j \in Keys : calls'[j].wire = calls[j].wire /\ calls'[j].ref = calls[j].ref
      BY <2>2 DEF Alters, Fields
    <3> QED
      BY <1>0, <2>0, <2>2, <3>1, TargetKept
  <2> QED
    BY <1>8, <1>0, <2>1, <2>2, SendCallShape
<1>9. ASSUME NEW k \in Keys, ReturnCall(k) PROVE TargetMove
  <2>0. UNCHANGED <<world, locals, kept>>
    BY <1>9, <1>0, ReturnCallShape
  <2>1. CASE Threw(k) /\ Keys' = Keys
    BY <1>0, <2>0, <2>1, TargetThrown
  <2>2. CASE Came(k) /\ Launched(k)
    <3>1. \A j \in Keys : Aims(j)
      BY <2>2 DEF Came, Alters, Fields, Aims
    <3>2. \A p \in 1 .. Len(proxies') : Aimed(p)
      <4>1. Len(proxies') = 1 /\ proxies'[1].end = "C" /\ proxies'[1].aid = 1 /\ proxies'[1].target = "A"
        BY <2>2 DEF Launched
      <4>2. \A p \in 1 .. Len(proxies') : p = 1
        BY <4>1
      <4> QED
        BY <4>1, <4>2 DEF Aimed
    <3>3. ASSUME Outward, NEW j \in Keys' \ Keys PROVE AimsNew(j)
      <4>1. /\ Fresh(j, "C", 1, 0) /\ proxies'[1].end = "C"
            /\ \E i \in DOMAIN world.script : /\ calls'[j].arg = world.script[i].arg
                                              /\ calls'[j].gives = world.script[i].gives
        BY <2>2, <3>3 DEF Launched
      <4>2. calls'[j].arg # "A" /\ ~calls'[j].gives
        BY <3>3, <4>1 DEF Outward
      <4> QED
        BY <4>1, <4>2 DEF AimsNew, Fresh
    <3> QED
      BY <2>0, <3>1, <3>2, <3>3 DEF TargetMove
  <2>3. CASE Came(k) /\ Keys' = Keys /\ UNCHANGED proxies
    <3>1. \A j \in Keys : calls'[j].wire = calls[j].wire /\ calls'[j].ref = calls[j].ref
      BY <2>3 DEF Came, Alters, Fields
    <3> QED
      BY <1>0, <2>0, <2>3, <3>1, TargetKept
  <2>4. CASE calls[k].gift # 0
    BY <1>9, <1>0, <2>0, <2>4 DEF TargetMove, TargetInv
  <2> QED
    BY <1>9, <1>0, <2>1, <2>2, <2>3, <2>4, ReturnCallShape
<1>10. ASSUME NEW k \in Keys, JobQueue(k) PROVE TargetMove
  <2>1. \A j \in Keys : calls'[j].wire = calls[j].wire /\ calls'[j].ref = calls[j].ref
    <3> DEFINE c == k
    <3>1. Alters(c, {"job"})
      BY <1>10, <1>0, JobQueueShape
    <3> HIDE DEF c
    <3> QED
      BY <3>1 DEF Alters, Fields
  <2>2. Keys' = Keys /\ UNCHANGED <<world, locals, proxies, kept>>
    BY <1>10, <1>0, JobQueueShape DEF Keys
  <2> QED
    BY <1>0, <2>1, <2>2, TargetKept
<1>11. ASSUME NEW k \in Keys, JobReply(k) PROVE TargetMove
  <2>1. \A j \in Keys : calls'[j].wire = calls[j].wire /\ calls'[j].ref = calls[j].ref
    <3> DEFINE c == k
    <3>1. Alters(c, {"job"})
      BY <1>11, <1>0, JobReplyShape
    <3> HIDE DEF c
    <3> QED
      BY <3>1 DEF Alters, Fields
  <2>2. Keys' = Keys /\ UNCHANGED <<world, proxies, kept>> /\ (~calls[k].gives => locals' = locals)
    BY <1>11, <1>0, JobReplyShape
  <2>3. Outward => ~calls[k].gives
    BY <1>11, <1>0 DEF TargetInv
  <2> QED
    BY <1>0, <2>1, <2>2, <2>3, TargetKept
<1>12. ASSUME Welcome PROVE TargetMove
  BY <1>12, <1>0, TargetsSame, WelcomeShape
<1>13. ASSUME Spawn PROVE TargetMove
  BY <1>13, <1>0, TargetsSame, SpawnShape
<1>14. ASSUME Serve PROVE TargetMove
  <2> DEFINE f == net["S"][1]
  <2>0. UNCHANGED <<world, locals, kept>> /\ f.k \in Keys
    BY <1>14, <1>0, ServeShape
  <2>1. CASE UNCHANGED <<calls, proxies>>
    <3>1. Keys' = Keys
      BY <2>1 DEF Keys
    <3> QED
      BY <1>0, <2>0, <2>1, <3>1, TargetKept
  <2>2. CASE /\ Alters(f.k, {"job", "to", "ref"}) /\ Keys' = Keys
             /\ calls'[f.k].ref = 0 /\ proxies' = proxies
    <3>1. PICK c : c = f.k
      OBVIOUS
    <3>2. Alters(c, {"job", "to", "ref"}) /\ calls'[c].ref = 0
      BY <2>2, <3>1
    <3>3. \A j \in Keys : Aims(j)
      BY <3>2 DEF Alters, Fields, Aims
    <3>4. \A p \in 1 .. Len(proxies') : ~(p > Len(proxies))
      BY <1>0, <2>2 DEF ProxiesGrow
    <3> QED
      BY <2>0, <2>2, <3>3, <3>4 DEF TargetMove
  <2>3. CASE /\ Alters(f.k, {"job", "to", "ref"}) /\ Keys' = Keys
             /\ calls'[f.k].ref = Len(proxies) + 1 /\ f.ref > Len(locals["S"])
             /\ ProxyAdded("S", f.ref, calls[f.k].arg)
    <3>1. PICK c : c = f.k
      OBVIOUS
    <3>2. PICK r : r = f.ref
      OBVIOUS
    <3>3. Alters(c, {"job", "to", "ref"}) /\ calls'[c].ref = Len(proxies) + 1
      BY <2>3, <3>1
    <3>4. ProxyAdded("S", r, calls[c].arg)
      BY <2>3, <3>1, <3>2
    <3>5. \A j \in Keys : Aims(j)
      BY <3>3, <3>4, ZenonT(120) DEF Alters, Fields, Aims, ProxyAdded
    <3>6. ASSUME Outward PROVE calls[c].arg = "L"
      <4>1. f.t = "call" /\ 1 \in DOMAIN net["S"] /\ f \in Frames
        BY <1>14, <1>0, ServeShape, FirstFrame, EndParts, ZenonT(120) DEF Serve
      <4>2. r = calls[c].wire
        BY <1>0, <3>6, <4>1, <3>1, <3>2, EndParts DEF TargetInv
      <4>3. Len(locals["S"]) = 0
        BY <1>0, <3>6 DEF TargetInv
      <4>4. r > 0
        BY <2>3, <3>2, <4>3
      <4>5. c \in Keys /\ (calls[c].arg # "L" => calls[c].wire = 0)
        BY <1>0, <2>0, <3>1, <3>6 DEF TargetInv
      <4> QED
        BY <4>2, <4>4, <4>5
    <3>7. ASSUME Outward, NEW p \in 1 .. Len(proxies'), p > Len(proxies) PROVE Aimed(p)
      <4>1. p = Len(proxies) + 1
        BY <3>4, <3>7 DEF ProxyAdded
      <4> QED
        BY <3>4, <3>6, <3>7, <4>1 DEF ProxyAdded, Aimed
    <3> QED
      BY <2>0, <2>3, <3>5, <3>7 DEF TargetMove
  <2> QED
    BY <1>14, <1>0, <2>1, <2>2, <2>3, ServeShape
<1>15. ASSUME Disconnected PROVE TargetMove
  BY <1>15, <1>0, TargetsSame, DisconnectedShape DEF linkVars
<1>16. ASSUME CleanedUp PROVE TargetMove
  BY <1>16, <1>0, TargetsSame DEF CleanedUp, linkVars
<1>17. ASSUME Released PROVE TargetMove
  BY <1>17, <1>0, TargetsSame DEF Released, own
<1>18. ASSUME HelloAnswer PROVE TargetMove
  BY <1>18, <1>0, TargetsSame, HelloAnswerShape DEF own
<1>19. ASSUME Refer PROVE TargetMove
  <2>1. \A j \in Keys : calls'[j].wire = calls[j].wire /\ calls'[j].ref = calls[j].ref
    <3> DEFINE c == net["C"][1].k
    <3>1. Alters(c, {"job", "to"}) \/ UNCHANGED calls
      BY <1>19, <1>0, ReferShape
    <3> HIDE DEF c
    <3> QED
      BY <3>1 DEF Alters, Fields
  <2>2. Keys' = Keys /\ UNCHANGED <<world, locals, proxies, kept>>
    BY <1>19, <1>0, ReferShape DEF Keys
  <2> QED
    BY <1>0, <2>1, <2>2, TargetKept
<1>20. ASSUME Hangup PROVE TargetMove
  BY <1>20, <1>0, TargetsSame DEF Hangup, own
<1>21. ASSUME NEW e \in Ends, Result(e) PROVE TargetMove
  <2>0. UNCHANGED <<world, locals, kept>>
    BY <1>21, <1>0, ResultShape
  <2>1. CASE UNCHANGED <<calls, proxies>>
    <3>1. Keys' = Keys
      BY <2>1 DEF Keys
    <3> QED
      BY <1>0, <2>0, <2>1, <3>1, TargetKept
  <2>2. CASE calls[net[e][1].k].gives
    <3>1. net[e][1].k \in Keys
      BY <1>21, <1>0, ResultShape
    <3> QED
      BY <1>0, <2>0, <2>2, <3>1 DEF TargetMove, TargetInv
  <2> QED
    BY <1>21, <1>0, <2>1, <2>2, ResultShape
<1>22. ASSUME NEW e \in Ends, Output(e) PROVE TargetMove
  BY <1>22, <1>0, TargetsSame, OutputShape
<1>23. ASSUME NEW e \in Ends, CloseFd(e), UNCHANGED own PROVE TargetMove
  BY <1>23, <1>0, TargetsSame, CloseFdShape DEF own
<1>24. ASSUME NEW e \in Ends, CloseTable(e), UNCHANGED own PROVE TargetMove
  BY <1>24, <1>0, TargetsSame, CloseTableShape DEF own
<1>25. ASSUME NEW a \in {"A", "L"}, Begin(a) PROVE TargetMove
  <2>1. \A j \in Keys : calls'[j].wire = calls[j].wire /\ calls'[j].ref = calls[j].ref
    <3> DEFINE c == actors[a].q[1]
    <3>1. Alters(c, {"ran"})
      BY <1>25, <1>0, BeginShape
    <3> HIDE DEF c
    <3> QED
      BY <3>1 DEF Alters, Fields
  <2>2. Keys' = Keys /\ UNCHANGED <<world, locals, proxies, kept>>
    BY <1>25, <1>0, BeginShape DEF Keys
  <2> QED
    BY <1>0, <2>1, <2>2, TargetKept
<1>26. ASSUME NEW a \in {"A", "L"}, DoPrint(a) PROVE TargetMove
  <2>1. \A j \in Keys : calls'[j].wire = calls[j].wire /\ calls'[j].ref = calls[j].ref
    <3> DEFINE c == actors[a].cur
    <3>1. Alters(c, {"body"})
      BY <1>26, <1>0, DoPrintShape
    <3> HIDE DEF c
    <3> QED
      BY <3>1 DEF Alters, Fields
  <2>2. Keys' = Keys /\ UNCHANGED <<world, locals, proxies, kept>>
    BY <1>26, <1>0, DoPrintShape DEF Keys
  <2> QED
    BY <1>0, <2>1, <2>2, TargetKept
<1>27. ASSUME DoKeep("A") PROVE TargetMove
  <2>1. \A j \in Keys : calls'[j].wire = calls[j].wire /\ calls'[j].ref = calls[j].ref
    <3> DEFINE c == actors["A"].cur
    <3>1. Alters(c, {"body"})
      BY <1>27, <1>0, DoKeepShape
    <3> HIDE DEF c
    <3> QED
      BY <3>1 DEF Alters, Fields
  <2> DEFINE k == actors["A"].cur
  <2>2. Keys' = Keys /\ UNCHANGED <<world, locals, proxies>> /\ k \in Keys /\ kept' = calls[k].ref
    BY <1>27, <1>0, DoKeepShape
  <2> HIDE DEF k
  <2>3. Len(proxies) \in Nat
    BY <1>0 DEF ProxiesGrow
  <2>4. \A p \in 1 .. Len(proxies') : ~(p > Len(proxies))
    BY <2>2, <2>3
  <2> QED
    BY <2>1, <2>2, <2>4 DEF TargetMove, Aims
<1>28. ASSUME DoBack("A") PROVE TargetMove
  <2>1. \A j \in Keys : calls'[j].wire = calls[j].wire /\ calls'[j].ref = calls[j].ref
    <3> DEFINE c == actors["A"].cur
    <3>1. Alters(c, {"body", "last"})
      BY <1>28, <1>0, DoBackShape
    <3> HIDE DEF c
    <3> QED
      BY <3>1 DEF Alters, Fields
  <2> DEFINE k == actors["A"].cur
             p == Callee(k)
  <2>2. UNCHANGED <<world, locals, proxies, kept>> /\ k \in Keys
    BY <1>28, <1>0, DoBackShape
  <2>3. CASE Keys' = Keys
    BY <1>0, <2>1, <2>2, <2>3, TargetKept
  <2>4. CASE /\ Len(calls') = Len(calls) + 1 /\ p \in 1 .. Len(proxies)
             /\ FreshPlain(Len(calls) + 1, "S", p, k)
    <3>1. \A j \in Keys' \ Keys : j = Len(calls) + 1
      <4>1. Len(calls) \in Nat /\ calls' \in Seq(CallRec) /\ Keys = 1 .. Len(calls)
        BY <1>28, <1>0, ListOf, DoBackShape DEF Alters
      <4> QED
        BY <2>4, <4>1 DEF Keys
    <3>2. Outward => proxies[p].end = "S"
      <4>1. p # 0
        BY <2>4, <1>0 DEF ProxiesGrow
      <4>2. p = calls[k].ref \/ p = kept
        BY DEF Callee
      <4> HIDE DEF p, k
      <4> QED
        BY <1>0, <2>2, <4>1, <4>2 DEF TargetInv
    <3>3. \A i \in 1 .. Len(proxies') : ~(i > Len(proxies))
      BY <1>0, <2>2 DEF ProxiesGrow
    <3> HIDE DEF p, k
    <3>4. PICK n : n = Len(calls) + 1
      OBVIOUS
    <3>5. FreshPlain(n, "S", p, k) /\ \A j \in Keys' \ Keys : j = n
      BY <2>4, <3>1, <3>4
    <3>6. Outward => \A j \in Keys' \ Keys : AimsNew(j)
      BY <2>2, <3>2, <3>5 DEF AimsNew, FreshPlain, Fresh
    <3> QED
      BY <2>1, <2>2, <3>3, <3>6 DEF TargetMove, Aims
  <2> QED
    BY <1>28, <1>0, <2>3, <2>4, DoBackShape
<1>29. ASSUME DoAwait("A") PROVE TargetMove
  <2>1. \A j \in Keys : calls'[j].wire = calls[j].wire /\ calls'[j].ref = calls[j].ref
    <3> DEFINE k == actors["A"].cur
               c == calls[k].last
    <3>1. /\ k \in Keys /\ (c # 0 => c \in Keys)
          /\ \A j \in Keys : j # k /\ j # c => calls'[j] = calls[j]
          /\ \A f \in Fields \ {"body"} : calls'[k][f] = calls[k][f]
          /\ c # 0 => \A f \in Fields \ {"waited"} : calls'[c][f] = calls[c][f]
      BY <1>29, <1>0, DoAwaitShape
    <3>2. 0 \notin Keys
      BY <1>0, ListOf
    <3> HIDE DEF k, c
    <3> QED
      BY <3>1, <3>2 DEF Fields
  <2>2. Keys' = Keys /\ UNCHANGED <<world, locals, proxies, kept>>
    BY <1>29, <1>0, DoAwaitShape DEF Keys
  <2> QED
    BY <1>0, <2>1, <2>2, TargetKept
<1>30. ASSUME NEW a \in {"A", "L"}, Finish(a) PROVE TargetMove
  <2>1. \A j \in Keys : calls'[j].wire = calls[j].wire /\ calls'[j].ref = calls[j].ref
    <3> DEFINE c == actors[a].cur
    <3>1. Alters(c, {"job"})
      BY <1>30, <1>0, FinishShape
    <3> HIDE DEF c
    <3> QED
      BY <3>1 DEF Alters, Fields
  <2>2. Keys' = Keys /\ UNCHANGED <<world, locals, proxies, kept>>
    BY <1>30, <1>0, FinishShape DEF Keys
  <2> QED
    BY <1>0, <2>1, <2>2, TargetKept
<1>31. ASSUME Exit("A") PROVE TargetMove
  BY <1>31, <1>0, TargetsSame, ExitShape DEF linkVars
<1>32. ASSUME NEW p \in DOMAIN proxies, Drop(p) PROVE TargetMove
  <2>1. UNCHANGED <<world, locals, calls, kept>> /\ Len(proxies') = Len(proxies)
    BY <1>32, <1>0, DropShape DEF ProxiesKept
  <2>2. Keys' = Keys
    BY <2>1 DEF Keys
  <2> QED
    BY <1>0, <2>1, <2>2, TargetKept
<1>33. ASSUME Forget PROVE TargetMove
  BY <1>33, <1>0, TargetsSame, ForgetShape DEF linkVars
<1>34. ASSUME Leave PROVE TargetMove
  BY <1>34, <1>0, TargetsSame DEF Leave
<1>35. ASSUME NEW e \in Ends, Crash(e) PROVE TargetMove
  BY <1>35, <1>0, TargetsSame DEF Crash
<1>36. ASSUME UNCHANGED vars PROVE TargetMove
  BY <1>36, <1>0, TargetsSame DEF vars, linkVars, own
<1> QED
  BY <1>1, <1>2, <1>3, <1>4, <1>5, <1>6, <1>7, <1>8, <1>9, <1>10, <1>11, <1>12, <1>13, <1>14,
     <1>15, <1>16, <1>17, <1>18, <1>19, <1>20, <1>21, <1>22, <1>23, <1>24, <1>25, <1>26,
     <1>27, <1>28, <1>29, <1>30, <1>31, <1>32, <1>33, <1>34, <1>35, <1>36
     DEF Next, Step, Environment

(* References of a program that sends none home. *)
LEMMA TargetStep ==
  ASSUME Inv, [Next]_vars
  PROVE  TargetInv'
<1>0. /\ TypeInv /\ StageInv /\ RefInv /\ IdInv /\ FrameInv /\ TargetInv /\ CallsGrow /\ AllBorn
      /\ ProxiesGrow /\ RefsMove /\ NetsMove /\ TargetMove /\ TypeInv' /\ StageInv' /\ RefInv'
  BY FrameFacts, ProxiesStep, RefsStep, TargetsStep, StageStep, RefStep DEF Inv
<1> SUFFICES ASSUME Outward PROVE TargetInv'
  BY <1>0 DEF TargetMove, TargetInv, Outward
<1>1. locals'["S"] = <<>>
  BY <1>0 DEF TargetMove, TargetInv
<1>2. ASSUME NEW p \in DOMAIN proxies'
      PROVE  /\ proxies'[p].target = IF proxies'[p].end = "C" THEN "A" ELSE "L"
             /\ proxies'[p].end = "C" => proxies'[p].aid = 1
  <2>1. p \in 1 .. Len(proxies') /\ Len(proxies) \in Nat /\ Len(proxies') \in Nat
    BY <1>0, <1>2 DEF ProxiesGrow
  <2>2. CASE p > Len(proxies)
    BY <1>0, <2>1, <2>2 DEF TargetMove, Aimed
  <2>3. CASE ~(p > Len(proxies))
    <3>1. p \in 1 .. Len(proxies)
      BY <2>1, <2>3
    <3>2. p \in DOMAIN proxies
      BY <1>0, <3>1 DEF TypeInv, OwnType
    <3> QED
      BY <1>0, <3>1, <3>2 DEF TargetInv, ProxiesGrow
  <2> QED
    BY <2>2, <2>3
<1>3. ASSUME NEW k \in Keys'
      PROVE  /\ calls'[k].arg # "A" /\ ~calls'[k].gives /\ calls'[k].gift = 0
             /\ calls'[k].arg # "L" => calls'[k].wire = 0
             /\ k # 1 => proxies'[calls'[k].via].end = calls'[k].end
             /\ calls'[k].ref # 0 => proxies'[calls'[k].ref].end = "S"
  <2>1. CASE k \in Keys
    <3>0. k \in Keys
      BY <2>1
    <3>1. Older(k) /\ RefMove(k) /\ Aims(k)
      BY <1>0, <3>0 DEF CallsGrow, RefsMove, TargetMove
    <3>2. /\ calls[k].arg # "A" /\ ~calls[k].gives /\ calls[k].gift = 0
          /\ calls[k].arg # "L" => calls[k].wire = 0
          /\ k # 1 => proxies[calls[k].via].end = calls[k].end
          /\ calls[k].ref # 0 => proxies[calls[k].ref].end = "S"
      BY <1>0, <3>0 DEF TargetInv
    <3>3. calls'[k].arg = calls[k].arg /\ calls'[k].gives = calls[k].gives /\ calls'[k].via = calls[k].via
          /\ calls'[k].end = calls[k].end
      BY <3>1 DEF Older
    <3>4. calls'[k].gift = 0
      BY <3>1, <3>2 DEF RefMove
    <3>5. calls'[k].arg # "L" => calls'[k].wire = 0
      BY <3>1, <3>2, <3>3 DEF Aims
    <3>6. k # 1 => proxies'[calls'[k].via].end = calls'[k].end
      <4>1. k # 1 => calls[k].via \in 1 .. Len(proxies)
        BY <1>0, <3>0 DEF RefInv, RefOK
      <4> QED
        BY <1>0, <3>2, <3>3, <4>1 DEF ProxiesGrow
    <3>7. calls'[k].ref # 0 => proxies'[calls'[k].ref].end = "S"
      <4>1. calls[k].ref # 0 => calls[k].ref \in 1 .. Len(proxies)
        <5>1. calls[k].ref \in Nat /\ calls[k].ref <= Len(proxies) /\ Len(proxies) \in Nat
          BY <1>0, <3>0, CallOf, CallType DEF RefInv, RefOK, ProxiesGrow
        <5> QED
          BY <5>1
      <4>2. CASE calls'[k].ref = calls[k].ref
        BY <1>0, <3>2, <4>1, <4>2 DEF ProxiesGrow
      <4>3. CASE calls'[k].ref # calls[k].ref
        BY <3>1, <4>3 DEF Aims
      <4> QED
        BY <4>2, <4>3
    <3> QED
      BY <3>2, <3>3, <3>4, <3>5, <3>6, <3>7
  <2>2. CASE k \notin Keys
    BY <1>0, <1>3, <2>2 DEF AllBorn, Newborn, TargetMove, AimsNew
  <2> QED
    BY <2>1, <2>2
<1>4. kept' # 0 => proxies'[kept'].end = "S"
  <2>1. ASSUME NEW n \in Nat, n # 0, n <= Len(proxies), proxies[n].end = "S" PROVE proxies'[n].end = "S"
    <3>1. n \in 1 .. Len(proxies)
      BY <1>0, <2>1 DEF ProxiesGrow
    <3> QED
      BY <1>0, <2>1, <3>1 DEF ProxiesGrow
  <2>2. CASE kept' = kept
    <3>1. kept \in Nat /\ kept <= Len(proxies) /\ (kept # 0 => proxies[kept].end = "S")
      BY <1>0 DEF TypeInv, OwnType, StageInv, TargetInv
    <3> QED
      BY <2>1, <2>2, <3>1
  <2>3. CASE \E k \in Keys : kept' = calls[k].ref
    <3>1. PICK k \in Keys : kept' = calls[k].ref
      BY <2>3
    <3>2. calls[k].ref \in Nat /\ calls[k].ref <= Len(proxies)
      BY <1>0, CallOf, CallType DEF RefInv, RefOK
    <3>3. calls[k].ref # 0 => proxies[calls[k].ref].end = "S"
      BY <1>0 DEF TargetInv
    <3> QED
      BY <2>1, <3>1, <3>2, <3>3
  <2> QED
    BY <1>0, <2>2, <2>3 DEF TargetMove
<1>5. ASSUME NEW e \in Ends, NEW i \in DOMAIN net'[e]
      PROVE  /\ net'[e][i].t = "result" => net'[e][i].ref = 0
             /\ net'[e][i].t = "call" => net'[e][i].ref = calls'[net'[e][i].k].wire
  <2>0. PICK f : f = net'[e][i]
    OBVIOUS
  <2>1. ASSUME NEW k \in Keys, calls[k].pc # "queued" PROVE calls'[k].wire = calls[k].wire
    BY <1>0, <2>1 DEF TargetMove, Aims
  <2>2. CASE NewFrame(e, f)
    <3>1. f.t = "result" => f.ref = 0
      BY <1>0, <2>2 DEF NewFrame, ResultNew, TargetInv
    <3>2. f.t = "call" => f.k \in Keys /\ f.ref = calls[f.k].wire /\ calls[f.k].pc = "entered"
      BY <2>2 DEF NewFrame, RequestNew, IsRequest
    <3> QED
      BY <2>0, <2>1, <3>1, <3>2
  <2>3. CASE ~NewFrame(e, f)
    <3>1. PICK j \in DOMAIN net[e] : f = net[e][j]
      BY <1>5, <2>0, <2>3, Origin
    <3>2. /\ f.t = "result" => f.ref = 0
          /\ f.t = "call" => f.ref = calls[f.k].wire
      BY <1>0, <1>5, <3>1 DEF TargetInv
    <3>3. f.t = "call" => f.k \in Keys /\ calls[f.k].pc \in {"wait", "done"}
      BY <1>0, <1>5, <3>1 DEF FrameInv, FrameOK, RequestOK, IsRequest
    <3> QED
      BY <2>0, <2>1, <3>2, <3>3
  <2> QED
    BY <2>2, <2>3
<1> QED
  BY <1>1, <1>2, <1>3, <1>4, <1>5 DEF TargetInv

-----------------------------------------------------------------------------
(* What a step does to connections, to waits and to what has been printed *)

(* A connection is not opened again, and a process does not come back. *)
LinkMove ==
  \A e \in Ends : /\ phase'[e] = "open" => phase[e] = "open" /\ proc'[e] = proc[e]
                  /\ ~Up(e) => ~Up(e)'

(* No connection changes. *)
LEMMA LinkSame ==
  ASSUME UNCHANGED <<proc, phase>>
  PROVE  LinkMove
BY DEF LinkMove, Up

(* Every connection. *)
LEMMA LinkStep ==
  ASSUME Inv, [Next]_vars
  PROVE  LinkMove
<1>0. /\ TypeInv /\ StageInv /\ RefInv /\ FrameInv /\ IdInv /\ SlotInv /\ JobInv /\ QueueInv
      /\ TakenInv /\ SpawnInv
  BY DEF Inv
<1>1. ASSUME Connect PROVE LinkMove
  BY <1>1, <1>0, LinkSame, ConnectShape
<1>2. ASSUME EnterSlot PROVE LinkMove
  BY <1>2, <1>0, LinkSame, EnterSlotShape
<1>3. ASSUME TakeFuture PROVE LinkMove
  <2>1. CASE UNCHANGED <<proc, phase>>
    BY <1>0, <2>1, LinkSame
  <2>2. CASE Dies("C", "crashed")
    <3>1. /\ proc'["C"] # "up" /\ phase'["C"] # "open"
          /\ \A d \in Ends : d # "C" => proc'[d] = proc[d] /\ phase'[d] = phase[d]
      BY <1>0, <2>2, DiesShape, EndParts
    <3> QED
      BY <3>1 DEF LinkMove, Up
  <2> QED
    BY <1>3, <1>0, <2>1, <2>2, TakeFutureShape
<1>4. ASSUME Greeted PROVE LinkMove
  BY <1>4, <1>0, LinkSame, GreetedShape
<1>5. ASSUME Unwind PROVE LinkMove
  <2>1. Mark("C") /\ UNCHANGED proc
    BY <1>5, <1>0, UnwindShape
  <2>2. phase'["C"] # "open" /\ \A d \in Ends : d # "C" => phase'[d] = phase[d]
    BY <1>0, <2>1, MarkShape, EndParts
  <2> QED
    BY <2>1, <2>2 DEF LinkMove, Up
<1>6. ASSUME NEW k \in Keys, TakeCall(k) PROVE LinkMove
  BY <1>6, <1>0, LinkSame, TakeCallShape
<1>7. ASSUME NEW k \in Keys, EnterCall(k) PROVE LinkMove
  BY <1>7, <1>0, LinkSame, EnterCallShape
<1>8. ASSUME NEW k \in Keys, SendCall(k) PROVE LinkMove
  BY <1>8, <1>0, LinkSame, SendCallShape
<1>9. ASSUME NEW k \in Keys, ReturnCall(k) PROVE LinkMove
  BY <1>9, <1>0, LinkSame, ReturnCallShape DEF linkVars
<1>10. ASSUME NEW k \in Keys, JobQueue(k) PROVE LinkMove
  BY <1>10, <1>0, LinkSame, JobQueueShape DEF linkVars
<1>11. ASSUME NEW k \in Keys, JobReply(k) PROVE LinkMove
  <2>1. CASE UNCHANGED <<proc, phase>>
    BY <1>0, <2>1, LinkSame
  <2>2. CASE Dies(Peered(k), "terminated") /\ Peered(k) \in Ends
    <3>0. PICK e : e = Peered(k)
      OBVIOUS
    <3>1. /\ proc'[e] # "up" /\ phase'[e] # "open"
          /\ \A d \in Ends : d # e => proc'[d] = proc[d] /\ phase'[d] = phase[d]
      BY <1>0, <2>2, <3>0, DiesShape
    <3> QED
      BY <3>1 DEF LinkMove, Up
  <2> QED
    BY <1>11, <1>0, <2>1, <2>2, JobReplyShape
<1>12. ASSUME Welcome PROVE LinkMove
  BY <1>12, <1>0, LinkSame, WelcomeShape
<1>13. ASSUME Spawn PROVE LinkMove
  BY <1>13, <1>0, LinkSame, SpawnShape
<1>14. ASSUME Serve PROVE LinkMove
  BY <1>14, <1>0, LinkSame, ServeShape
<1>15. ASSUME Disconnected PROVE LinkMove
  BY <1>15, <1>0, LinkSame, DisconnectedShape DEF linkVars
<1>16. ASSUME CleanedUp PROVE LinkMove
  BY <1>16, <1>0, LinkSame DEF CleanedUp, linkVars
<1>17. ASSUME Released PROVE LinkMove
  <2>1. Mark("S") /\ UNCHANGED proc
    BY <1>17, <1>0 DEF Released
  <2>2. phase'["S"] # "open" /\ \A d \in Ends : d # "S" => phase'[d] = phase[d]
    BY <1>0, <2>1, MarkShape, EndParts
  <2> QED
    BY <2>1, <2>2 DEF LinkMove, Up
<1>18. ASSUME HelloAnswer PROVE LinkMove
  <2>0. UNCHANGED proc
    BY <1>18, <1>0, HelloAnswerShape
  <2>1. CASE UNCHANGED phase
    BY <1>0, <2>0, <2>1, LinkSame
  <2>2. CASE Mark("C")
    <3>1. phase'["C"] # "open" /\ \A d \in Ends : d # "C" => phase'[d] = phase[d]
      BY <1>0, <2>2, MarkShape, EndParts
    <3> QED
      BY <2>0, <3>1 DEF LinkMove, Up
  <2> QED
    BY <1>18, <1>0, <2>1, <2>2, HelloAnswerShape
<1>19. ASSUME Refer PROVE LinkMove
  BY <1>19, <1>0, LinkSame, ReferShape
<1>20. ASSUME Hangup PROVE LinkMove
  <2>1. Mark("C") /\ UNCHANGED proc
    BY <1>20, <1>0 DEF Hangup
  <2>2. phase'["C"] # "open" /\ \A d \in Ends : d # "C" => phase'[d] = phase[d]
    BY <1>0, <2>1, MarkShape, EndParts
  <2> QED
    BY <2>1, <2>2 DEF LinkMove, Up
<1>21. ASSUME NEW e \in Ends, Result(e) PROVE LinkMove
  BY <1>21, <1>0, LinkSame, ResultShape
<1>22. ASSUME NEW e \in Ends, Output(e) PROVE LinkMove
  BY <1>22, <1>0, LinkSame, OutputShape
<1>23. ASSUME NEW e \in Ends, CloseFd(e), UNCHANGED own PROVE LinkMove
  <2>1. UNCHANGED proc /\ phase'[e] # "open" /\ \A d \in Ends : d # e => phase'[d] = phase[d]
    BY <1>23, <1>0, CloseFdShape
  <2> QED
    BY <2>1 DEF LinkMove, Up
<1>24. ASSUME NEW e \in Ends, CloseTable(e), UNCHANGED own PROVE LinkMove
  <2>1. UNCHANGED proc /\ phase'[e] # "open" /\ \A d \in Ends : d # e => phase'[d] = phase[d]
    BY <1>24, <1>0, CloseTableShape
  <2> QED
    BY <2>1 DEF LinkMove, Up
<1>25. ASSUME NEW a \in {"A", "L"}, Begin(a) PROVE LinkMove
  BY <1>25, <1>0, LinkSame, BeginShape DEF linkVars
<1>26. ASSUME NEW a \in {"A", "L"}, DoPrint(a) PROVE LinkMove
  BY <1>26, <1>0, LinkSame, DoPrintShape
<1>27. ASSUME DoKeep("A") PROVE LinkMove
  BY <1>27, <1>0, LinkSame, DoKeepShape DEF linkVars
<1>28. ASSUME DoBack("A") PROVE LinkMove
  BY <1>28, <1>0, LinkSame, DoBackShape DEF linkVars
<1>29. ASSUME DoAwait("A") PROVE LinkMove
  BY <1>29, <1>0, LinkSame, DoAwaitShape DEF linkVars
<1>30. ASSUME NEW a \in {"A", "L"}, Finish(a) PROVE LinkMove
  BY <1>30, <1>0, LinkSame, FinishShape DEF linkVars
<1>31. ASSUME Exit("A") PROVE LinkMove
  BY <1>31, <1>0, LinkSame, ExitShape DEF linkVars
<1>32. ASSUME NEW p \in DOMAIN proxies, Drop(p) PROVE LinkMove
  <2>1. Mark("S") /\ UNCHANGED proc
    BY <1>32, <1>0, DropShape
  <2>2. phase'["S"] # "open" /\ \A d \in Ends : d # "S" => phase'[d] = phase[d]
    BY <1>0, <2>1, MarkShape, EndParts
  <2> QED
    BY <2>1, <2>2 DEF LinkMove, Up
<1>33. ASSUME Forget PROVE LinkMove
  BY <1>33, <1>0, LinkSame, ForgetShape DEF linkVars
<1>34. ASSUME Leave PROVE LinkMove
  <2>1. Mark("C") /\ UNCHANGED proc
    BY <1>34, <1>0 DEF Leave
  <2>2. phase'["C"] # "open" /\ \A d \in Ends : d # "C" => phase'[d] = phase[d]
    BY <1>0, <2>1, MarkShape, EndParts
  <2> QED
    BY <2>1, <2>2 DEF LinkMove, Up
<1>35. ASSUME NEW e \in Ends, Crash(e) PROVE LinkMove
  <2>1. Dies(e, "crashed")
    BY <1>35, <1>0 DEF Crash
  <2>2. /\ proc'[e] # "up" /\ phase'[e] # "open"
        /\ \A d \in Ends : d # e => proc'[d] = proc[d] /\ phase'[d] = phase[d]
    BY <1>0, <2>1, DiesShape, EndParts
  <2> QED
    BY <2>2 DEF LinkMove, Up
<1>36. ASSUME UNCHANGED vars PROVE LinkMove
  BY <1>36, <1>0, LinkSame DEF vars, linkVars, own
<1> QED
  BY <1>1, <1>2, <1>3, <1>4, <1>5, <1>6, <1>7, <1>8, <1>9, <1>10, <1>11, <1>12, <1>13, <1>14,
     <1>15, <1>16, <1>17, <1>18, <1>19, <1>20, <1>21, <1>22, <1>23, <1>24, <1>25, <1>26,
     <1>27, <1>28, <1>29, <1>30, <1>31, <1>32, <1>33, <1>34, <1>35, <1>36
     DEF Next, Step, Environment

(* Nothing is delivered. *)
LEMMA DeliveredSame ==
  ASSUME UNCHANGED <<delivered>>
  PROVE  delivered \subseteq delivered'
OBVIOUS

(* What has been delivered stays so. *)
LEMMA DeliveredStep ==
  ASSUME Inv, [Next]_vars
  PROVE  delivered \subseteq delivered'
<1>0. /\ TypeInv /\ StageInv /\ RefInv /\ FrameInv /\ IdInv /\ SlotInv /\ JobInv /\ QueueInv
      /\ TakenInv /\ SpawnInv
  BY DEF Inv
<1>1. ASSUME Connect PROVE delivered \subseteq delivered'
  BY <1>1, <1>0, DeliveredSame, ConnectShape
<1>2. ASSUME EnterSlot PROVE delivered \subseteq delivered'
  BY <1>2, <1>0, DeliveredSame, EnterSlotShape
<1>3. ASSUME TakeFuture PROVE delivered \subseteq delivered'
  BY <1>3, <1>0, DeliveredSame, TakeFutureShape
<1>4. ASSUME Greeted PROVE delivered \subseteq delivered'
  BY <1>4, <1>0, DeliveredSame, GreetedShape
<1>5. ASSUME Unwind PROVE delivered \subseteq delivered'
  BY <1>5, <1>0, DeliveredSame, UnwindShape DEF own
<1>6. ASSUME NEW k \in Keys, TakeCall(k) PROVE delivered \subseteq delivered'
  BY <1>6, <1>0, DeliveredSame, TakeCallShape
<1>7. ASSUME NEW k \in Keys, EnterCall(k) PROVE delivered \subseteq delivered'
  BY <1>7, <1>0, DeliveredSame, EnterCallShape
<1>8. ASSUME NEW k \in Keys, SendCall(k) PROVE delivered \subseteq delivered'
  BY <1>8, <1>0, DeliveredSame, SendCallShape
<1>9. ASSUME NEW k \in Keys, ReturnCall(k) PROVE delivered \subseteq delivered'
  BY <1>9, <1>0, DeliveredSame, ReturnCallShape DEF linkVars
<1>10. ASSUME NEW k \in Keys, JobQueue(k) PROVE delivered \subseteq delivered'
  BY <1>10, <1>0, DeliveredSame, JobQueueShape DEF linkVars
<1>11. ASSUME NEW k \in Keys, JobReply(k) PROVE delivered \subseteq delivered'
  BY <1>11, <1>0, DeliveredSame, JobReplyShape
<1>12. ASSUME Welcome PROVE delivered \subseteq delivered'
  BY <1>12, <1>0, DeliveredSame, WelcomeShape
<1>13. ASSUME Spawn PROVE delivered \subseteq delivered'
  BY <1>13, <1>0, DeliveredSame, SpawnShape
<1>14. ASSUME Serve PROVE delivered \subseteq delivered'
  BY <1>14, <1>0, DeliveredSame, ServeShape
<1>15. ASSUME Disconnected PROVE delivered \subseteq delivered'
  BY <1>15, <1>0, DeliveredSame, DisconnectedShape DEF linkVars
<1>16. ASSUME CleanedUp PROVE delivered \subseteq delivered'
  BY <1>16, <1>0, DeliveredSame DEF CleanedUp, linkVars
<1>17. ASSUME Released PROVE delivered \subseteq delivered'
  BY <1>17, <1>0, DeliveredSame DEF Released, own
<1>18. ASSUME HelloAnswer PROVE delivered \subseteq delivered'
  BY <1>18, <1>0, DeliveredSame, HelloAnswerShape DEF own
<1>19. ASSUME Refer PROVE delivered \subseteq delivered'
  BY <1>19, <1>0, DeliveredSame, ReferShape
<1>20. ASSUME Hangup PROVE delivered \subseteq delivered'
  BY <1>20, <1>0, DeliveredSame DEF Hangup, own
<1>21. ASSUME NEW e \in Ends, Result(e) PROVE delivered \subseteq delivered'
  BY <1>21, <1>0, DeliveredSame, ResultShape
<1>22. ASSUME NEW e \in Ends, Output(e) PROVE delivered \subseteq delivered'
  <2>1. UNCHANGED delivered \/ \E k : delivered' = delivered \union {k}
    BY <1>22, <1>0, OutputShape
  <2> QED
    BY <2>1
<1>23. ASSUME NEW e \in Ends, CloseFd(e), UNCHANGED own PROVE delivered \subseteq delivered'
  BY <1>23, <1>0, DeliveredSame, CloseFdShape DEF own
<1>24. ASSUME NEW e \in Ends, CloseTable(e), UNCHANGED own PROVE delivered \subseteq delivered'
  BY <1>24, <1>0, DeliveredSame, CloseTableShape DEF own
<1>25. ASSUME NEW a \in {"A", "L"}, Begin(a) PROVE delivered \subseteq delivered'
  BY <1>25, <1>0, DeliveredSame, BeginShape DEF linkVars
<1>26. ASSUME NEW a \in {"A", "L"}, DoPrint(a) PROVE delivered \subseteq delivered'
  BY <1>26, <1>0, DeliveredSame, DoPrintShape
<1>27. ASSUME DoKeep("A") PROVE delivered \subseteq delivered'
  BY <1>27, <1>0, DeliveredSame, DoKeepShape DEF linkVars
<1>28. ASSUME DoBack("A") PROVE delivered \subseteq delivered'
  BY <1>28, <1>0, DeliveredSame, DoBackShape DEF linkVars
<1>29. ASSUME DoAwait("A") PROVE delivered \subseteq delivered'
  BY <1>29, <1>0, DeliveredSame, DoAwaitShape DEF linkVars
<1>30. ASSUME NEW a \in {"A", "L"}, Finish(a) PROVE delivered \subseteq delivered'
  BY <1>30, <1>0, DeliveredSame, FinishShape DEF linkVars
<1>31. ASSUME Exit("A") PROVE delivered \subseteq delivered'
  BY <1>31, <1>0, DeliveredSame, ExitShape DEF linkVars
<1>32. ASSUME NEW p \in DOMAIN proxies, Drop(p) PROVE delivered \subseteq delivered'
  BY <1>32, <1>0, DeliveredSame, DropShape
<1>33. ASSUME Forget PROVE delivered \subseteq delivered'
  BY <1>33, <1>0, DeliveredSame, ForgetShape DEF linkVars
<1>34. ASSUME Leave PROVE delivered \subseteq delivered'
  BY <1>34, <1>0, DeliveredSame DEF Leave
<1>35. ASSUME NEW e \in Ends, Crash(e) PROVE delivered \subseteq delivered'
  BY <1>35, <1>0, DeliveredSame DEF Crash
<1>36. ASSUME UNCHANGED vars PROVE delivered \subseteq delivered'
  BY <1>36, <1>0, DeliveredSame DEF vars, linkVars, own
<1> QED
  BY <1>1, <1>2, <1>3, <1>4, <1>5, <1>6, <1>7, <1>8, <1>9, <1>10, <1>11, <1>12, <1>13, <1>14,
     <1>15, <1>16, <1>17, <1>18, <1>19, <1>20, <1>21, <1>22, <1>23, <1>24, <1>25, <1>26,
     <1>27, <1>28, <1>29, <1>30, <1>31, <1>32, <1>33, <1>34, <1>35, <1>36
     DEF Next, Step, Environment

(* A print that is read is delivered, or goes on to the caller, while its  *)
(* call is in the table.                                                   *)
Passed(e) ==
  LET f == net[e][1]
  IN /\ e = "C" => f.k \in delivered'
     /\ e = "S" => \/ phase["S"] # "open" \/ Broken("S")
                   \/ \E g \in Frames : /\ net'["C"] = Append(net["C"], g) /\ g.t = "out"
                                        /\ g.k = f.k /\ g.id = calls[calls[f.k].route].id

Carries(e) ==
  \/ net'[e] = net[e]
  \/ \E f \in Frames : net'[e] = Append(net[e], f)
  \/ /\ net[e] # <<>> /\ net'[e] = Tail(net[e])
     /\ net[e][1].t = "out" /\ net[e][1].id \in pending[e] => Passed(e)

AllCarried == \A e \in Ends : Carries(e)

(* A frame is sent, read, or read and answered. *)
LEMMA CarrySent ==
  ASSUME NEW e \in Ends, NEW f, Sending(e, f)
  PROVE  AllCarried
<1>1. Carries(e) /\ Carries(Peer(e))
  BY DEF Sending, Carries
<1> QED
  BY <1>1, EndParts DEF AllCarried

(* A frame is read that is not a print. *)
LEMMA CarryRead ==
  ASSUME NEW e \in Ends, Reading1(e), net[e][1].t # "out"
  PROVE  AllCarried
<1>1. Carries(e) /\ Carries(Peer(e))
  BY DEF Reading1, Taking, Carries
<1> QED
  BY <1>1, EndParts DEF AllCarried

(* A frame that is not a print is read and answered. *)
LEMMA CarryReplied ==
  ASSUME NEW e \in Ends, NEW f, Replying(e, f), net[e][1].t # "out"
  PROVE  AllCarried
<1>1. Carries(e) /\ Carries(Peer(e))
  BY DEF Replying, Taking, Carries
<1> QED
  BY <1>1, EndParts DEF AllCarried

(* No frame moves. *)
LEMMA CarrySame ==
  ASSUME UNCHANGED <<net>>
  PROVE  AllCarried
BY DEF AllCarried, Carries

(* Every frame, and what becomes of a print. *)
LEMMA CarryStep ==
  ASSUME Inv, [Next]_vars
  PROVE  AllCarried
<1>0. /\ TypeInv /\ StageInv /\ RefInv /\ FrameInv /\ IdInv /\ SlotInv /\ JobInv /\ QueueInv
      /\ TakenInv /\ SpawnInv
  BY DEF Inv
<1>1. ASSUME Connect PROVE AllCarried
  <2>1. Sending("C", [t |-> "hello"])
    BY <1>1, <1>0, ConnectShape
  <2> QED
    BY <2>1, CarrySent, EndParts
<1>2. ASSUME EnterSlot PROVE AllCarried
  BY <1>2, <1>0, CarrySame, EnterSlotShape
<1>3. ASSUME TakeFuture PROVE AllCarried
  BY <1>3, <1>0, CarrySame, TakeFutureShape
<1>4. ASSUME Greeted PROVE AllCarried
  BY <1>4, <1>0, CarrySame, GreetedShape
<1>5. ASSUME Unwind PROVE AllCarried
  BY <1>5, <1>0, CarrySame, UnwindShape DEF own
<1>6. ASSUME NEW k \in Keys, TakeCall(k) PROVE AllCarried
  BY <1>6, <1>0, CarrySame, TakeCallShape
<1>7. ASSUME NEW k \in Keys, EnterCall(k) PROVE AllCarried
  BY <1>7, <1>0, CarrySame, EnterCallShape
<1>8. ASSUME NEW k \in Keys, SendCall(k) PROVE AllCarried
  <2>1. calls[k].end \in Ends /\ Sending(calls[k].end, Frame(k))
    BY <1>8, <1>0, SendCallShape
  <2> QED
    BY <2>1, CarrySent
<1>9. ASSUME NEW k \in Keys, ReturnCall(k) PROVE AllCarried
  BY <1>9, <1>0, CarrySame, ReturnCallShape DEF linkVars
<1>10. ASSUME NEW k \in Keys, JobQueue(k) PROVE AllCarried
  BY <1>10, <1>0, CarrySame, JobQueueShape DEF linkVars
<1>11. ASSUME NEW k \in Keys, JobReply(k) PROVE AllCarried
  <2>1. Peered(k) \in Ends /\ Sending(Peered(k), Answer(k, calls[k].job = "ran", Given(k)))
    BY <1>11, <1>0, JobReplyShape
  <2> QED
    BY <2>1, CarrySent
<1>12. ASSUME Welcome PROVE AllCarried
  <2>1. net["S"][1].t = "hello" /\ \E f : Replying("S", f)
    BY <1>12, <1>0, WelcomeShape
  <2> QED
    BY <2>1, CarryReplied, EndParts
<1>13. ASSUME Spawn PROVE AllCarried
  <2>1. net["S"][1].t = "spawn" /\ \E valid \in BOOLEAN : Replying("S", Answer(1, valid, 0))
    BY <1>13, <1>0, SpawnShape
  <2> QED
    BY <2>1, CarryReplied, EndParts
<1>14. ASSUME Serve PROVE AllCarried
  <2>1. net["S"][1].t = "call" /\ (Reading1("S") \/ Replying("S", Answer(net["S"][1].k, FALSE, 0)))
    BY <1>14, <1>0, ServeShape
  <2> QED
    BY <2>1, CarryRead, CarryReplied, EndParts
<1>15. ASSUME Disconnected PROVE AllCarried
  BY <1>15, <1>0, CarrySame, DisconnectedShape DEF linkVars
<1>16. ASSUME CleanedUp PROVE AllCarried
  BY <1>16, <1>0, CarrySame DEF CleanedUp, linkVars
<1>17. ASSUME Released PROVE AllCarried
  BY <1>17, <1>0, CarrySame DEF Released, own
<1>18. ASSUME HelloAnswer PROVE AllCarried
  <2>1. Reading1("C") /\ net["C"][1].t # "out"
    BY <1>18, <1>0, HelloAnswerShape
  <2> QED
    BY <2>1, CarryRead, EndParts
<1>19. ASSUME Refer PROVE AllCarried
  <2>1. Reading1("C") /\ net["C"][1].t # "out"
    BY <1>19, <1>0, ReferShape
  <2> QED
    BY <2>1, CarryRead, EndParts
<1>20. ASSUME Hangup PROVE AllCarried
  BY <1>20, <1>0, CarrySame DEF Hangup, own
<1>21. ASSUME NEW e \in Ends, Result(e) PROVE AllCarried
  <2>1. Reading1(e) /\ net[e][1].t # "out"
    BY <1>21, <1>0, ResultShape
  <2> QED
    BY <2>1, CarryRead, EndParts
<1>22. ASSUME NEW e \in Ends, Output(e) PROVE AllCarried
  <2> DEFINE f == net[e][1]
             g == [f EXCEPT !.id = calls[calls[f.k].route].id]
  <2>0. /\ f.t = "out" /\ f \in Frames /\ Hears(e) /\ Taking(e)
        /\ \/ f.id \notin pending[e] /\ Reading1(e)
           \/ e = "C" /\ Reading1(e) /\ delivered' = delivered \union {f.k}
           \/ e = "S" /\ phase["S"] # "open" /\ Reading1(e)
           \/ e = "S" /\ Replying(e, g)
    BY <1>22, <1>0, OutputShape DEF Taking
  <2>1. f \in Outputs
    BY <2>0, FrameKind
  <2>2. g.t = "out" /\ g.k = f.k /\ g.id = calls[calls[f.k].route].id
    BY <2>0, <2>1 DEF Outputs
  <2>3. net[e] # <<>> /\ net'[e] = Tail(net[e])
    BY <2>0 DEF Taking
  <2> HIDE DEF g
  <2>4. CASE Reading1(e) /\ f.id \notin pending[e]
    <3>1. Carries(e) /\ Carries(Peer(e))
      BY <2>3, <2>4 DEF Reading1, Carries
    <3> QED
      BY <3>1, EndParts DEF AllCarried
  <2>5. CASE e = "C" /\ Reading1(e) /\ delivered' = delivered \union {f.k}
    <3>0. Passed(e)
      BY <2>5 DEF Passed
    <3>1. Carries(e) /\ Carries(Peer(e))
      BY <2>3, <2>5, <3>0 DEF Reading1, Carries
    <3> QED
      BY <3>1, EndParts DEF AllCarried
  <2>6. CASE e = "S" /\ phase["S"] # "open" /\ Reading1(e)
    <3>0. Passed(e)
      BY <2>6 DEF Passed
    <3>1. Carries(e) /\ Carries(Peer(e))
      BY <2>3, <2>6, <3>0 DEF Reading1, Carries
    <3> QED
      BY <3>1, EndParts DEF AllCarried
  <2>7. CASE e = "S" /\ Replying(e, g)
    <3>1. FdOpen("S") /\ Peer("S") = "C" /\ e = "S"
      BY <2>0, <2>7, HearsReads, EndParts
    <3>2. /\ g \in Frames
          /\ \/ net'["C"] = net["C"] /\ Broken("S")
             \/ net'["C"] = Append(net["C"], g)
      BY <2>7, <3>1, ZenonT(120) DEF Replying
    <3>3. Passed(e)
      BY <2>2, <3>1, <3>2 DEF Passed
    <3>4. Carries(e) /\ Carries("C")
      BY <2>3, <3>2, <3>3 DEF Carries
    <3> QED
      BY <3>1, <3>4, EndParts DEF AllCarried
  <2> QED
    BY <2>0, <2>4, <2>5, <2>6, <2>7
<1>23. ASSUME NEW e \in Ends, CloseFd(e), UNCHANGED own PROVE AllCarried
  BY <1>23, <1>0, CarrySame, CloseFdShape DEF own
<1>24. ASSUME NEW e \in Ends, CloseTable(e), UNCHANGED own PROVE AllCarried
  BY <1>24, <1>0, CarrySame, CloseTableShape DEF own
<1>25. ASSUME NEW a \in {"A", "L"}, Begin(a) PROVE AllCarried
  BY <1>25, <1>0, CarrySame, BeginShape DEF linkVars
<1>26. ASSUME NEW a \in {"A", "L"}, DoPrint(a) PROVE AllCarried
  <2> DEFINE k == actors[a].cur
             f == [t |-> "out", id |-> calls[k].id, k |-> k]
  <2>1. Home(a) \in Ends /\ (Sending(Home(a), f) \/ net' = net)
    BY <1>26, <1>0, DoPrintShape
  <2> HIDE DEF f
  <2>2. CASE net' = net
    BY <2>2, CarrySame
  <2> QED
    BY <2>1, <2>2, CarrySent
<1>27. ASSUME DoKeep("A") PROVE AllCarried
  BY <1>27, <1>0, CarrySame, DoKeepShape DEF linkVars
<1>28. ASSUME DoBack("A") PROVE AllCarried
  BY <1>28, <1>0, CarrySame, DoBackShape DEF linkVars
<1>29. ASSUME DoAwait("A") PROVE AllCarried
  BY <1>29, <1>0, CarrySame, DoAwaitShape DEF linkVars
<1>30. ASSUME NEW a \in {"A", "L"}, Finish(a) PROVE AllCarried
  BY <1>30, <1>0, CarrySame, FinishShape DEF linkVars
<1>31. ASSUME Exit("A") PROVE AllCarried
  BY <1>31, <1>0, CarrySame, ExitShape DEF linkVars
<1>32. ASSUME NEW p \in DOMAIN proxies, Drop(p) PROVE AllCarried
  BY <1>32, <1>0, CarrySame, DropShape
<1>33. ASSUME Forget PROVE AllCarried
  BY <1>33, <1>0, CarrySame, ForgetShape DEF linkVars
<1>34. ASSUME Leave PROVE AllCarried
  BY <1>34, <1>0, CarrySame DEF Leave
<1>35. ASSUME NEW e \in Ends, Crash(e) PROVE AllCarried
  BY <1>35, <1>0, CarrySame DEF Crash
<1>36. ASSUME UNCHANGED vars PROVE AllCarried
  BY <1>36, <1>0, CarrySame DEF vars, linkVars, own
<1> QED
  BY <1>1, <1>2, <1>3, <1>4, <1>5, <1>6, <1>7, <1>8, <1>9, <1>10, <1>11, <1>12, <1>13, <1>14,
     <1>15, <1>16, <1>17, <1>18, <1>19, <1>20, <1>21, <1>22, <1>23, <1>24, <1>25, <1>26,
     <1>27, <1>28, <1>29, <1>30, <1>31, <1>32, <1>33, <1>34, <1>35, <1>36
     DEF Next, Step, Environment

(* A result is taken by an end that hears it; while the server's           *)
(* connection is open, only a result ends a call of the server.            *)
HeardMove ==
  \A i \in Ids \ {0} :
    /\ promise'["C"][i].st = "ok" /\ promise["C"][i].st # "ok" => ~Deaf
    /\ Settled("S", i) => \/ phase'["S"] # "open"
                          \/ 1 \in DOMAIN net["S"] /\ net["S"][1].t = "result" /\ net["S"][1].id = i

(* Slots that are not touched. *)
LEMMA HeardUntouched ==
  ASSUME \A i \in Ids \ {0} : Untouched("C", i) /\ Untouched("S", i)
  PROVE  HeardMove
BY DEF HeardMove, Untouched, Settled

(* No table changes. *)
LEMMA HeardSame ==
  ASSUME UNCHANGED <<pending, promise>>
  PROVE  HeardMove
BY DEF HeardMove, Settled

(* Every answer. *)
LEMMA HeardStep ==
  ASSUME Inv, [Next]_vars
  PROVE  HeardMove
<1>0. /\ TypeInv /\ StageInv /\ RefInv /\ FrameInv /\ IdInv /\ SlotInv /\ JobInv /\ QueueInv
      /\ TakenInv /\ SpawnInv
  BY DEF Inv
<1>1. ASSUME Connect PROVE HeardMove
  BY <1>1, <1>0, HeardSame, ConnectShape
<1>2. ASSUME EnterSlot PROVE HeardMove
  <2>1. \A d \in Ends : \A j \in Ids : ~(d = "C" /\ j = 0) => Untouched(d, j)
    BY <1>2, <1>0, EnterSlotShape
  <2> QED
    BY <2>1, HeardUntouched, EndParts
<1>3. ASSUME TakeFuture PROVE HeardMove
  BY <1>3, <1>0, HeardSame, TakeFutureShape
<1>4. ASSUME Greeted PROVE HeardMove
  BY <1>4, <1>0, HeardSame, GreetedShape
<1>5. ASSUME Unwind PROVE HeardMove
  BY <1>5, <1>0, HeardSame, UnwindShape DEF own
<1>6. ASSUME NEW k \in Keys, TakeCall(k) PROVE HeardMove
  BY <1>6, <1>0, HeardSame, TakeCallShape
<1>7. ASSUME NEW k \in Keys, EnterCall(k) PROVE HeardMove
  <2>1. /\ promise' = promise
        /\ \A d \in Ends : \A j \in Ids : ~(d = calls[k].end /\ j = calls[k].id) => Untouched(d, j)
        /\ calls[k].id \in pending'[calls[k].end]
    BY <1>7, <1>0, EnterCallShape
  <2>2. \A j \in Ids : ~Settled("S", j)
    BY <2>1, EndParts DEF Settled, Untouched
  <2> QED
    BY <2>1, <2>2 DEF HeardMove
<1>8. ASSUME NEW k \in Keys, SendCall(k) PROVE HeardMove
  BY <1>8, <1>0, HeardSame, SendCallShape
<1>9. ASSUME NEW k \in Keys, ReturnCall(k) PROVE HeardMove
  BY <1>9, <1>0, HeardSame, ReturnCallShape DEF linkVars
<1>10. ASSUME NEW k \in Keys, JobQueue(k) PROVE HeardMove
  BY <1>10, <1>0, HeardSame, JobQueueShape DEF linkVars
<1>11. ASSUME NEW k \in Keys, JobReply(k) PROVE HeardMove
  BY <1>11, <1>0, HeardSame, JobReplyShape
<1>12. ASSUME Welcome PROVE HeardMove
  BY <1>12, <1>0, HeardSame, WelcomeShape
<1>13. ASSUME Spawn PROVE HeardMove
  BY <1>13, <1>0, HeardSame, SpawnShape
<1>14. ASSUME Serve PROVE HeardMove
  BY <1>14, <1>0, HeardSame, ServeShape
<1>15. ASSUME Disconnected PROVE HeardMove
  BY <1>15, <1>0, HeardSame, DisconnectedShape DEF linkVars
<1>16. ASSUME CleanedUp PROVE HeardMove
  BY <1>16, <1>0, HeardSame DEF CleanedUp, linkVars
<1>17. ASSUME Released PROVE HeardMove
  BY <1>17, <1>0, HeardSame DEF Released, own
<1>18. ASSUME HelloAnswer PROVE HeardMove
  <2>1. \A d \in Ends : \A j \in Ids : ~(d = "C" /\ j = 0 /\ 0 \in pending["C"]) => Untouched(d, j)
    BY <1>18, <1>0, HelloAnswerShape
  <2> QED
    BY <2>1, HeardUntouched, EndParts
<1>19. ASSUME Refer PROVE HeardMove
  <2> DEFINE i == net["C"][1].id
  <2>1. \/ UNCHANGED <<promise, pending>>
        \/ /\ \A d \in Ends : \A j \in Ids : ~(d = "C" /\ j = i /\ j \in pending["C"]) => Untouched(d, j)
           /\ i \in pending["C"] => promise'["C"][i].st = "err"
    BY <1>19, <1>0, ReferShape
  <2> HIDE DEF i
  <2>2. CASE UNCHANGED <<promise, pending>>
    BY <2>2, HeardUntouched DEF Untouched
  <2>3. CASE /\ \A d \in Ends : \A j \in Ids : ~(d = "C" /\ j = i /\ j \in pending["C"]) => Untouched(d, j)
             /\ i \in pending["C"] => promise'["C"][i].st = "err"
    BY <2>3, EndParts DEF HeardMove, Untouched, Settled
  <2> QED
    BY <2>1, <2>2, <2>3
<1>20. ASSUME Hangup PROVE HeardMove
  BY <1>20, <1>0, HeardSame DEF Hangup, own
<1>21. ASSUME NEW e \in Ends, Result(e) PROVE HeardMove
  <2> DEFINE f == net[e][1]
  <2>1. /\ \A d \in Ends : \A j \in Ids : ~(d = e /\ j = f.id /\ j \in pending[e]) => Untouched(d, j)
        /\ f.t = "result" /\ Reading1(e) /\ Hears(e)
    BY <1>21, <1>0, ResultShape
  <2>2. 1 \in DOMAIN net[e]
    BY <2>1 DEF Reading1, Taking
  <2>3. e = "C" => ~Deaf
    BY <2>1, HearsReads DEF Deaf
  <2>4. e = "C" \/ e = "S"
    BY EndParts
  <2>5. CASE e = "C"
    BY <2>1, <2>3, <2>5, EndParts DEF HeardMove, Untouched, Settled
  <2>6. CASE e = "S"
    <3>1. \A i \in Ids : Untouched("C", i)
      BY <2>1, <2>6, EndParts
    <3>2. \A i \in Ids : Settled("S", i) => i = f.id
      BY <2>1, <2>6, EndParts DEF Settled, Untouched
    <3> QED
      BY <2>1, <2>2, <2>6, <3>1, <3>2 DEF HeardMove, Untouched
  <2> QED
    BY <2>4, <2>5, <2>6
<1>22. ASSUME NEW e \in Ends, Output(e) PROVE HeardMove
  BY <1>22, <1>0, HeardSame, OutputShape
<1>23. ASSUME NEW e \in Ends, CloseFd(e), UNCHANGED own PROVE HeardMove
  BY <1>23, <1>0, HeardSame, CloseFdShape DEF own
<1>24. ASSUME NEW e \in Ends, CloseTable(e), UNCHANGED own PROVE HeardMove
  <2>1. /\ \A d \in Ends : \A j \in Ids : ~(d = e /\ j \in pending[e]) => Untouched(d, j)
        /\ \A j \in pending[e] : promise'[e][j].st = "err"
        /\ phase'[e] # "open"
    BY <1>24, <1>0, CloseTableShape
  <2>2. e = "C" \/ e = "S"
    BY EndParts
  <2> QED
    BY <2>1, <2>2, EndParts DEF HeardMove, Untouched, Settled
<1>25. ASSUME NEW a \in {"A", "L"}, Begin(a) PROVE HeardMove
  BY <1>25, <1>0, HeardSame, BeginShape DEF linkVars
<1>26. ASSUME NEW a \in {"A", "L"}, DoPrint(a) PROVE HeardMove
  BY <1>26, <1>0, HeardSame, DoPrintShape
<1>27. ASSUME DoKeep("A") PROVE HeardMove
  BY <1>27, <1>0, HeardSame, DoKeepShape DEF linkVars
<1>28. ASSUME DoBack("A") PROVE HeardMove
  BY <1>28, <1>0, HeardSame, DoBackShape DEF linkVars
<1>29. ASSUME DoAwait("A") PROVE HeardMove
  BY <1>29, <1>0, HeardSame, DoAwaitShape DEF linkVars
<1>30. ASSUME NEW a \in {"A", "L"}, Finish(a) PROVE HeardMove
  BY <1>30, <1>0, HeardSame, FinishShape DEF linkVars
<1>31. ASSUME Exit("A") PROVE HeardMove
  BY <1>31, <1>0, HeardSame, ExitShape DEF linkVars
<1>32. ASSUME NEW p \in DOMAIN proxies, Drop(p) PROVE HeardMove
  BY <1>32, <1>0, HeardSame, DropShape
<1>33. ASSUME Forget PROVE HeardMove
  BY <1>33, <1>0, HeardSame, ForgetShape DEF linkVars
<1>34. ASSUME Leave PROVE HeardMove
  BY <1>34, <1>0, HeardSame DEF Leave
<1>35. ASSUME NEW e \in Ends, Crash(e) PROVE HeardMove
  BY <1>35, <1>0, HeardSame DEF Crash
<1>36. ASSUME UNCHANGED vars PROVE HeardMove
  BY <1>36, <1>0, HeardSame DEF vars, linkVars, own
<1> QED
  BY <1>1, <1>2, <1>3, <1>4, <1>5, <1>6, <1>7, <1>8, <1>9, <1>10, <1>11, <1>12, <1>13, <1>14,
     <1>15, <1>16, <1>17, <1>18, <1>19, <1>20, <1>21, <1>22, <1>23, <1>24, <1>25, <1>26,
     <1>27, <1>28, <1>29, <1>30, <1>31, <1>32, <1>33, <1>34, <1>35, <1>36
     DEF Next, Step, Environment

(* A method that waits has called, and the call has returned. *)
WaitMove ==
  \A k \in Keys : calls'[k].waited /\ ~calls[k].waited =>
    calls[k].pc = "done" /\ calls[k].route = actors["A"].cur

(* Nobody stops waiting. *)
LEMMA WaitKept ==
  ASSUME \A j \in Keys : calls'[j].waited = calls[j].waited
  PROVE  WaitMove
BY DEF WaitMove

(* No call changes. *)
LEMMA WaitSame ==
  ASSUME UNCHANGED <<calls>>
  PROVE  WaitMove
BY DEF WaitMove

(* Every wait. *)
LEMMA WaitStep ==
  ASSUME Inv, [Next]_vars
  PROVE  WaitMove
<1>0. /\ TypeInv /\ StageInv /\ RefInv /\ FrameInv /\ IdInv /\ SlotInv /\ JobInv /\ QueueInv
      /\ TakenInv /\ SpawnInv
  BY DEF Inv
<1>1. ASSUME Connect PROVE WaitMove
  BY <1>1, <1>0, WaitSame, ConnectShape
<1>2. ASSUME EnterSlot PROVE WaitMove
  BY <1>2, <1>0, WaitSame, EnterSlotShape
<1>3. ASSUME TakeFuture PROVE WaitMove
  BY <1>3, <1>0, WaitSame, TakeFutureShape
<1>4. ASSUME Greeted PROVE WaitMove
  <2>1. Keys = {}
    BY <1>4, <1>0, GreetedShape DEF Keys
  <2> QED
    BY <2>1, WaitKept
<1>5. ASSUME Unwind PROVE WaitMove
  BY <1>5, <1>0, WaitSame, UnwindShape DEF own
<1>6. ASSUME NEW k \in Keys, TakeCall(k) PROVE WaitMove
  <2>1. \A j \in Keys : calls'[j].waited = calls[j].waited
    <3> DEFINE c == k
    <3>1. Alters(c, {"pc", "id", "wire"})
      BY <1>6, <1>0, TakeCallShape
    <3> HIDE DEF c
    <3> QED
      BY <3>1 DEF Alters, Fields
  <2> QED
    BY <2>1, WaitKept
<1>7. ASSUME NEW k \in Keys, EnterCall(k) PROVE WaitMove
  <2>1. \A j \in Keys : calls'[j].waited = calls[j].waited
    <3> DEFINE c == k
    <3>1. Alters(c, {"pc"})
      BY <1>7, <1>0, EnterCallShape
    <3> HIDE DEF c
    <3> QED
      BY <3>1 DEF Alters, Fields
  <2> QED
    BY <2>1, WaitKept
<1>8. ASSUME NEW k \in Keys, SendCall(k) PROVE WaitMove
  <2>1. CASE Threw(k)
    <3>1. \A j \in Keys : calls'[j].waited = calls[j].waited
      BY <2>1 DEF Threw, Fields
    <3> QED
      BY <3>1, WaitKept
  <2>2. CASE Alters(k, {"pc"})
    <3>1. \A j \in Keys : calls'[j].waited = calls[j].waited
      BY <2>2 DEF Came, Alters, Fields
    <3> QED
      BY <3>1, WaitKept
  <2> QED
    BY <1>8, <1>0, <2>1, <2>2, SendCallShape
<1>9. ASSUME NEW k \in Keys, ReturnCall(k) PROVE WaitMove
  <2>1. CASE Threw(k)
    <3>1. \A j \in Keys : calls'[j].waited = calls[j].waited
      BY <2>1 DEF Threw, Fields
    <3> QED
      BY <3>1, WaitKept
  <2>2. CASE Came(k)
    <3>1. \A j \in Keys : calls'[j].waited = calls[j].waited
      BY <2>2 DEF Came, Alters, Fields
    <3> QED
      BY <3>1, WaitKept
  <2> QED
    BY <1>9, <1>0, <2>1, <2>2, ReturnCallShape
<1>10. ASSUME NEW k \in Keys, JobQueue(k) PROVE WaitMove
  <2>1. \A j \in Keys : calls'[j].waited = calls[j].waited
    <3> DEFINE c == k
    <3>1. Alters(c, {"job"})
      BY <1>10, <1>0, JobQueueShape
    <3> HIDE DEF c
    <3> QED
      BY <3>1 DEF Alters, Fields
  <2> QED
    BY <2>1, WaitKept
<1>11. ASSUME NEW k \in Keys, JobReply(k) PROVE WaitMove
  <2>1. \A j \in Keys : calls'[j].waited = calls[j].waited
    <3> DEFINE c == k
    <3>1. Alters(c, {"job"})
      BY <1>11, <1>0, JobReplyShape
    <3> HIDE DEF c
    <3> QED
      BY <3>1 DEF Alters, Fields
  <2> QED
    BY <2>1, WaitKept
<1>12. ASSUME Welcome PROVE WaitMove
  BY <1>12, <1>0, WaitSame, WelcomeShape
<1>13. ASSUME Spawn PROVE WaitMove
  BY <1>13, <1>0, WaitSame, SpawnShape
<1>14. ASSUME Serve PROVE WaitMove
  <2>1. \A j \in Keys : calls'[j].waited = calls[j].waited
    <3> DEFINE c == net["S"][1].k
    <3>1. Alters(c, {"job", "to", "ref"}) \/ UNCHANGED calls
      BY <1>14, <1>0, ServeShape
    <3> HIDE DEF c
    <3> QED
      BY <3>1 DEF Alters, Fields
  <2> QED
    BY <2>1, WaitKept
<1>15. ASSUME Disconnected PROVE WaitMove
  BY <1>15, <1>0, WaitSame, DisconnectedShape DEF linkVars
<1>16. ASSUME CleanedUp PROVE WaitMove
  BY <1>16, <1>0, WaitSame DEF CleanedUp, linkVars
<1>17. ASSUME Released PROVE WaitMove
  BY <1>17, <1>0, WaitSame DEF Released, own
<1>18. ASSUME HelloAnswer PROVE WaitMove
  BY <1>18, <1>0, WaitSame, HelloAnswerShape DEF own
<1>19. ASSUME Refer PROVE WaitMove
  <2>1. \A j \in Keys : calls'[j].waited = calls[j].waited
    <3> DEFINE c == net["C"][1].k
    <3>1. Alters(c, {"job", "to"}) \/ UNCHANGED calls
      BY <1>19, <1>0, ReferShape
    <3> HIDE DEF c
    <3> QED
      BY <3>1 DEF Alters, Fields
  <2> QED
    BY <2>1, WaitKept
<1>20. ASSUME Hangup PROVE WaitMove
  BY <1>20, <1>0, WaitSame DEF Hangup, own
<1>21. ASSUME NEW e \in Ends, Result(e) PROVE WaitMove
  <2>1. \A j \in Keys : calls'[j].waited = calls[j].waited
    <3> DEFINE c == net[e][1].k
    <3>1. Alters(c, {"gift"}) \/ UNCHANGED calls
      BY <1>21, <1>0, ResultShape
    <3> HIDE DEF c
    <3> QED
      BY <3>1 DEF Alters, Fields
  <2> QED
    BY <2>1, WaitKept
<1>22. ASSUME NEW e \in Ends, Output(e) PROVE WaitMove
  BY <1>22, <1>0, WaitSame, OutputShape
<1>23. ASSUME NEW e \in Ends, CloseFd(e), UNCHANGED own PROVE WaitMove
  BY <1>23, <1>0, WaitSame, CloseFdShape DEF own
<1>24. ASSUME NEW e \in Ends, CloseTable(e), UNCHANGED own PROVE WaitMove
  BY <1>24, <1>0, WaitSame, CloseTableShape DEF own
<1>25. ASSUME NEW a \in {"A", "L"}, Begin(a) PROVE WaitMove
  <2>1. \A j \in Keys : calls'[j].waited = calls[j].waited
    <3> DEFINE c == actors[a].q[1]
    <3>1. Alters(c, {"ran"})
      BY <1>25, <1>0, BeginShape
    <3> HIDE DEF c
    <3> QED
      BY <3>1 DEF Alters, Fields
  <2> QED
    BY <2>1, WaitKept
<1>26. ASSUME NEW a \in {"A", "L"}, DoPrint(a) PROVE WaitMove
  <2>1. \A j \in Keys : calls'[j].waited = calls[j].waited
    <3> DEFINE c == actors[a].cur
    <3>1. Alters(c, {"body"})
      BY <1>26, <1>0, DoPrintShape
    <3> HIDE DEF c
    <3> QED
      BY <3>1 DEF Alters, Fields
  <2> QED
    BY <2>1, WaitKept
<1>27. ASSUME DoKeep("A") PROVE WaitMove
  <2>1. \A j \in Keys : calls'[j].waited = calls[j].waited
    <3> DEFINE c == actors["A"].cur
    <3>1. Alters(c, {"body"})
      BY <1>27, <1>0, DoKeepShape
    <3> HIDE DEF c
    <3> QED
      BY <3>1 DEF Alters, Fields
  <2> QED
    BY <2>1, WaitKept
<1>28. ASSUME DoBack("A") PROVE WaitMove
  <2>1. \A j \in Keys : calls'[j].waited = calls[j].waited
    <3> DEFINE c == actors["A"].cur
    <3>1. Alters(c, {"body", "last"})
      BY <1>28, <1>0, DoBackShape
    <3> HIDE DEF c
    <3> QED
      BY <3>1 DEF Alters, Fields
  <2> QED
    BY <2>1, WaitKept
<1>29. ASSUME DoAwait("A") PROVE WaitMove
  <2> DEFINE k == actors["A"].cur
             c == calls[k].last
  <2>1. /\ k \in Keys /\ (c # 0 => c \in Keys /\ calls[c].pc = "done")
        /\ \A j \in Keys : j # k /\ j # c => calls'[j] = calls[j]
        /\ \A f \in Fields \ {"body"} : calls'[k][f] = calls[k][f]
    BY <1>29, <1>0, DoAwaitShape
  <2>2. 0 \notin Keys
    BY <1>0, ListOf
  <2>3. c # 0 => calls[c].route = k
    BY <1>0, <2>1 DEF RefInv, RefOK
  <2>4. calls'[k].waited = calls[k].waited
    BY <2>1 DEF Fields
  <2> HIDE DEF c
  <2>5. \A j \in Keys : j # c => calls'[j].waited = calls[j].waited
    BY <2>1, <2>4
  <2> QED
    BY <2>1, <2>2, <2>3, <2>5 DEF WaitMove
<1>30. ASSUME NEW a \in {"A", "L"}, Finish(a) PROVE WaitMove
  <2>1. \A j \in Keys : calls'[j].waited = calls[j].waited
    <3> DEFINE c == actors[a].cur
    <3>1. Alters(c, {"job"})
      BY <1>30, <1>0, FinishShape
    <3> HIDE DEF c
    <3> QED
      BY <3>1 DEF Alters, Fields
  <2> QED
    BY <2>1, WaitKept
<1>31. ASSUME Exit("A") PROVE WaitMove
  BY <1>31, <1>0, WaitSame, ExitShape DEF linkVars
<1>32. ASSUME NEW p \in DOMAIN proxies, Drop(p) PROVE WaitMove
  BY <1>32, <1>0, WaitSame, DropShape
<1>33. ASSUME Forget PROVE WaitMove
  BY <1>33, <1>0, WaitSame, ForgetShape DEF linkVars
<1>34. ASSUME Leave PROVE WaitMove
  BY <1>34, <1>0, WaitSame DEF Leave
<1>35. ASSUME NEW e \in Ends, Crash(e) PROVE WaitMove
  BY <1>35, <1>0, WaitSame DEF Crash
<1>36. ASSUME UNCHANGED vars PROVE WaitMove
  BY <1>36, <1>0, WaitSame DEF vars, linkVars, own
<1> QED
  BY <1>1, <1>2, <1>3, <1>4, <1>5, <1>6, <1>7, <1>8, <1>9, <1>10, <1>11, <1>12, <1>13, <1>14,
     <1>15, <1>16, <1>17, <1>18, <1>19, <1>20, <1>21, <1>22, <1>23, <1>24, <1>25, <1>26,
     <1>27, <1>28, <1>29, <1>30, <1>31, <1>32, <1>33, <1>34, <1>35, <1>36
     DEF Next, Step, Environment

(* A takes up a call that has not run. *)
CurMove ==
  \/ actors'["A"].cur \in {0, actors["A"].cur}
  \/ calls[actors'["A"].cur].ran = <<>>

(* No actor changes. *)
LEMMA CurSame ==
  ASSUME UNCHANGED <<actors>>
  PROVE  CurMove
BY DEF CurMove

(* What A works on. *)
LEMMA CurStep ==
  ASSUME Inv, [Next]_vars
  PROVE  CurMove
<1>0. /\ TypeInv /\ StageInv /\ RefInv /\ FrameInv /\ IdInv /\ SlotInv /\ JobInv /\ QueueInv
      /\ TakenInv /\ SpawnInv
  BY DEF Inv
<1>1. ASSUME Connect PROVE CurMove
  BY <1>1, <1>0, CurSame, ConnectShape
<1>2. ASSUME EnterSlot PROVE CurMove
  BY <1>2, <1>0, CurSame, EnterSlotShape
<1>3. ASSUME TakeFuture PROVE CurMove
  BY <1>3, <1>0, CurSame, TakeFutureShape
<1>4. ASSUME Greeted PROVE CurMove
  BY <1>4, <1>0, CurSame, GreetedShape
<1>5. ASSUME Unwind PROVE CurMove
  BY <1>5, <1>0, CurSame, UnwindShape DEF own
<1>6. ASSUME NEW k \in Keys, TakeCall(k) PROVE CurMove
  BY <1>6, <1>0, CurSame, TakeCallShape
<1>7. ASSUME NEW k \in Keys, EnterCall(k) PROVE CurMove
  BY <1>7, <1>0, CurSame, EnterCallShape
<1>8. ASSUME NEW k \in Keys, SendCall(k) PROVE CurMove
  BY <1>8, <1>0, CurSame, SendCallShape
<1>9. ASSUME NEW k \in Keys, ReturnCall(k) PROVE CurMove
  BY <1>9, <1>0, CurSame, ReturnCallShape DEF linkVars
<1>10. ASSUME NEW k \in Keys, JobQueue(k) PROVE CurMove
  <2>1. CASE actors' = actors
    BY <2>1 DEF CurMove
  <2>2. CASE ActorSet(Actor(k), Append(actors[Actor(k)].q, k), actors[Actor(k)].cur)
    BY <2>2 DEF ActorSet, CurMove, Actor
  <2> QED
    BY <1>10, <1>0, <2>1, <2>2, JobQueueShape
<1>11. ASSUME NEW k \in Keys, JobReply(k) PROVE CurMove
  BY <1>11, <1>0, CurSame, JobReplyShape
<1>12. ASSUME Welcome PROVE CurMove
  <2>1. ActorsKept
    BY <1>12, <1>0, WelcomeShape
  <2> QED
    BY <2>1 DEF ActorsKept, CurMove
<1>13. ASSUME Spawn PROVE CurMove
  <2>1. CASE actors' = actors
    BY <2>1 DEF CurMove
  <2>2. CASE ActorSet("A", <<1>>, actors["A"].cur)
    BY <2>2 DEF ActorSet, CurMove
  <2> QED
    BY <1>13, <1>0, <2>1, <2>2, SpawnShape
<1>14. ASSUME Serve PROVE CurMove
  <2>1. ActorsKept
    BY <1>14, <1>0, ServeShape, ActorsSame
  <2> QED
    BY <2>1 DEF ActorsKept, CurMove
<1>15. ASSUME Disconnected PROVE CurMove
  <2>1. ActorsKept
    BY <1>15, <1>0, DisconnectedShape
  <2> QED
    BY <2>1 DEF ActorsKept, CurMove
<1>16. ASSUME CleanedUp PROVE CurMove
  BY <1>16, <1>0, CurSame DEF CleanedUp, linkVars
<1>17. ASSUME Released PROVE CurMove
  BY <1>17, <1>0, CurSame DEF Released, own
<1>18. ASSUME HelloAnswer PROVE CurMove
  BY <1>18, <1>0, CurSame, HelloAnswerShape DEF own
<1>19. ASSUME Refer PROVE CurMove
  BY <1>19, <1>0, CurSame, ReferShape
<1>20. ASSUME Hangup PROVE CurMove
  BY <1>20, <1>0, CurSame DEF Hangup, own
<1>21. ASSUME NEW e \in Ends, Result(e) PROVE CurMove
  BY <1>21, <1>0, CurSame, ResultShape
<1>22. ASSUME NEW e \in Ends, Output(e) PROVE CurMove
  BY <1>22, <1>0, CurSame, OutputShape
<1>23. ASSUME NEW e \in Ends, CloseFd(e), UNCHANGED own PROVE CurMove
  BY <1>23, <1>0, CurSame, CloseFdShape DEF own
<1>24. ASSUME NEW e \in Ends, CloseTable(e), UNCHANGED own PROVE CurMove
  BY <1>24, <1>0, CurSame, CloseTableShape DEF own
<1>25. ASSUME NEW a \in {"A", "L"}, Begin(a) PROVE CurMove
  <2> DEFINE k == actors[a].q[1]
  <2>1. ActorSet(a, Tail(actors[a].q), k) /\ calls[k].ran = <<>>
    BY <1>25, <1>0, BeginShape
  <2> HIDE DEF k
  <2>2. actors'["A"].cur = actors["A"].cur \/ actors'["A"].cur = k
    BY <2>1 DEF ActorSet
  <2> QED
    BY <2>1, <2>2 DEF CurMove
<1>26. ASSUME NEW a \in {"A", "L"}, DoPrint(a) PROVE CurMove
  BY <1>26, <1>0, CurSame, DoPrintShape
<1>27. ASSUME DoKeep("A") PROVE CurMove
  BY <1>27, <1>0, CurSame, DoKeepShape DEF linkVars
<1>28. ASSUME DoBack("A") PROVE CurMove
  BY <1>28, <1>0, CurSame, DoBackShape DEF linkVars
<1>29. ASSUME DoAwait("A") PROVE CurMove
  BY <1>29, <1>0, CurSame, DoAwaitShape DEF linkVars
<1>30. ASSUME NEW a \in {"A", "L"}, Finish(a) PROVE CurMove
  <2>1. ActorSet(a, actors[a].q, 0)
    BY <1>30, <1>0, FinishShape
  <2> QED
    BY <2>1 DEF ActorSet, CurMove
<1>31. ASSUME Exit("A") PROVE CurMove
  <2>1. ActorsKept
    BY <1>31, <1>0, ExitShape
  <2> QED
    BY <2>1 DEF ActorsKept, CurMove
<1>32. ASSUME NEW p \in DOMAIN proxies, Drop(p) PROVE CurMove
  BY <1>32, <1>0, CurSame, DropShape
<1>33. ASSUME Forget PROVE CurMove
  <2>1. ActorsKept
    BY <1>33, <1>0, ForgetShape
  <2> QED
    BY <2>1 DEF ActorsKept, CurMove
<1>34. ASSUME Leave PROVE CurMove
  BY <1>34, <1>0, CurSame DEF Leave
<1>35. ASSUME NEW e \in Ends, Crash(e) PROVE CurMove
  BY <1>35, <1>0, CurSame DEF Crash
<1>36. ASSUME UNCHANGED vars PROVE CurMove
  BY <1>36, <1>0, CurSame DEF vars, linkVars, own
<1> QED
  BY <1>1, <1>2, <1>3, <1>4, <1>5, <1>6, <1>7, <1>8, <1>9, <1>10, <1>11, <1>12, <1>13, <1>14,
     <1>15, <1>16, <1>17, <1>18, <1>19, <1>20, <1>21, <1>22, <1>23, <1>24, <1>25, <1>26,
     <1>27, <1>28, <1>29, <1>30, <1>31, <1>32, <1>33, <1>34, <1>35, <1>36
     DEF Next, Step, Environment

-----------------------------------------------------------------------------
(* What is ahead of a result stays ahead *)

(* A frame is added behind it. *)
LEMMA AheadAppend ==
  ASSUME NEW s \in Seq(Frames), NEW f \in Frames, NEW j, NEW i, NEW o, Ahead(s, j, i, o)
  PROVE  Ahead(Append(s, f), j, i, o)
<1> DEFINE t == Append(s, f)
<1>1. /\ Len(s) \in Nat /\ DOMAIN s = 1 .. Len(s) /\ DOMAIN t = 1 .. Len(s) + 1
      /\ \A q \in DOMAIN s : t[q] = s[q]
  BY AppendFrames
<1>2. PICK p \in DOMAIN s : /\ s[p].t = "out" /\ s[p].k = j /\ s[p].id = i
                            /\ \A q \in 1 .. p : ~(s[q].t = "result" /\ s[q].k = o)
  BY DEF Ahead
<1>3. p \in DOMAIN t /\ \A q \in 1 .. p : q \in DOMAIN s
  BY <1>1, <1>2
<1> HIDE DEF t
<1>4. Ahead(t, j, i, o)
  BY <1>1, <1>2, <1>3 DEF Ahead
<1> QED
  BY <1>4 DEF t

(* Another frame is read. *)
LEMMA AheadTail ==
  ASSUME NEW s \in Seq(Frames), s # <<>>, NEW j, NEW i, NEW o, Ahead(s, j, i, o),
         ~(s[1].t = "out" /\ s[1].k = j /\ s[1].id = i)
  PROVE  Ahead(Tail(s), j, i, o)
<1> DEFINE t == Tail(s)
<1>1. /\ Len(s) \in Nat /\ DOMAIN s = 1 .. Len(s) /\ DOMAIN t = 1 .. Len(s) - 1
      /\ \A q \in DOMAIN t : q + 1 \in DOMAIN s /\ t[q] = s[q + 1]
  BY TailFrames
<1>2. PICK p \in DOMAIN s : /\ s[p].t = "out" /\ s[p].k = j /\ s[p].id = i
                            /\ \A q \in 1 .. p : ~(s[q].t = "result" /\ s[q].k = o)
  BY DEF Ahead
<1>3. p # 1
  BY <1>2
<1>4. PICK r : r = p - 1
  OBVIOUS
<1>5. r \in DOMAIN t /\ r + 1 = p /\ \A q \in 1 .. r : q \in DOMAIN t /\ q + 1 \in 1 .. p
  BY <1>1, <1>3, <1>4
<1> HIDE DEF t
<1>6. t[r].t = "out" /\ t[r].k = j /\ t[r].id = i
  BY <1>1, <1>2, <1>5
<1>7. \A q \in 1 .. r : ~(t[q].t = "result" /\ t[q].k = o)
  BY <1>1, <1>2, <1>5
<1>8. Ahead(t, j, i, o)
  BY <1>5, <1>6, <1>7 DEF Ahead
<1> QED
  BY <1>8 DEF t

(* It is sent, and no result has been. *)
LEMMA AheadNew ==
  ASSUME NEW s \in Seq(Frames), NEW f \in Frames, NEW j, NEW i, NEW o,
         f.t = "out", f.k = j, f.id = i, \A q \in DOMAIN s : ~(s[q].t = "result" /\ s[q].k = o)
  PROVE  Ahead(Append(s, f), j, i, o)
<1> DEFINE t == Append(s, f)
           n == Len(s) + 1
<1>1. /\ Len(s) \in Nat /\ DOMAIN s = 1 .. Len(s) /\ DOMAIN t = 1 .. n
      /\ \A q \in DOMAIN s : t[q] = s[q]
      /\ t[n] = f
  BY AppendFrames
<1>2. n \in DOMAIN t /\ \A q \in 1 .. n : q = n \/ q \in DOMAIN s
  BY <1>1
<1> HIDE DEF t, n
<1>3. ~(t[n].t = "result")
  BY <1>1
<1>4. \A q \in 1 .. n : ~(t[q].t = "result" /\ t[q].k = o)
  BY <1>1, <1>2, <1>3
<1>5. Ahead(t, j, i, o)
  BY <1>1, <1>2, <1>4 DEF Ahead
<1> QED
  BY <1>5 DEF t

(* The result is not next. *)
LEMMA AheadFirst ==
  ASSUME NEW s \in Seq(Frames), NEW j, NEW i, NEW o, Ahead(s, j, i, o)
  PROVE  s # <<>> /\ ~(s[1].t = "result" /\ s[1].k = o)
<1>1. PICK p \in DOMAIN s : \A q \in 1 .. p : ~(s[q].t = "result" /\ s[q].k = o)
  BY DEF Ahead
<1>2. DOMAIN s = 1 .. Len(s) /\ Len(s) \in Nat
  OBVIOUS
<1>3. 1 \in 1 .. p /\ DOMAIN s # {}
  BY <1>1, <1>2
<1> QED
  BY <1>1, <1>3

-----------------------------------------------------------------------------
(* The invariant is kept: connections and back-channel calls *)

(* The facts the next proofs use of a step. *)
LEMMA PrintFacts ==
  ASSUME Inv, [Next]_vars
  PROVE  /\ TypeInv /\ StageInv /\ RefInv /\ IdInv /\ SlotInv /\ AnswerInv /\ FrameInv /\ SpawnInv
         /\ JobInv /\ QueueInv /\ TakenInv /\ BackInv /\ DownInv /\ PrintInv
         /\ TypeInv' /\ IdInv' /\ CallsGrow /\ AllBorn /\ IdsMove /\ SlotsMove /\ LinkMove
         /\ AllCarried /\ HeardMove /\ WaitMove /\ CurMove
         /\ delivered \subseteq delivered'
BY FrameFacts, IdStep, LinkStep, CarryStep, HeardStep, WaitStep, CurStep, DeliveredStep DEF Inv

(* A process that is gone has no connection. *)
LEMMA DownStep ==
  ASSUME Inv, [Next]_vars
  PROVE  DownInv'
<1>1. DownInv /\ LinkMove
  BY PrintFacts
<1> QED
  BY <1>1 DEF DownInv, LinkMove, Up

(* The only call with a given id at an end. *)
LEMMA SameCall ==
  ASSUME IdInv, NEW j \in Keys, NEW k \in Keys, calls[j].end = calls[k].end,
         calls[j].id = calls[k].id, calls[k].id # 0
  PROVE  j = k
BY DEF IdInv, IdOK

(* A result for a call of the server is the next frame. *)
LEMMA BackResult ==
  ASSUME Inv, [Next]_vars, NEW k \in Keys, calls[k].end = "S", calls[k].id # 0,
         Settled("S", calls[k].id), phase'["S"] = "open"
  PROVE  1 \in DOMAIN net["S"] /\ net["S"][1].t = "result" /\ net["S"][1].k = k
<1>0. /\ TypeInv /\ IdInv /\ FrameInv /\ HeardMove
  BY PrintFacts
<1>1. calls[k].id \in Ids
  BY <1>0, CallOf, CallType
<1>2. 1 \in DOMAIN net["S"] /\ net["S"][1].t = "result" /\ net["S"][1].id = calls[k].id
  BY <1>0, <1>1 DEF HeardMove
<1>3. ResultOK("S", net["S"][1])
  BY <1>0, <1>2, EndParts DEF FrameInv, FrameOK
<1> QED
  BY <1>0, <1>2, <1>3, SameCall DEF ResultOK

(* Back-channel calls that have been answered. *)
LEMMA BackStep ==
  ASSUME Inv, [Next]_vars
  PROVE  BackInv'
<1>0. /\ TypeInv /\ StageInv /\ IdInv /\ FrameInv /\ BackInv /\ IdInv' /\ CallsGrow /\ AllBorn
      /\ SlotsMove /\ LinkMove /\ WaitMove
  BY PrintFacts
<1> SUFFICES ASSUME NEW k \in Keys' PROVE BackOK(k)'
  BY DEF BackInv
<1> SUFFICES ASSUME calls'[k].end = "S"
             PROVE  /\ \A i \in DOMAIN net'["S"] :
                         net'["S"][i].t = "result" /\ net'["S"][i].k = k => calls'[k].job = "sent"
                    /\ calls'[k].id # 0 /\ promise'["S"][calls'[k].id].st # "none"
                       /\ phase'["S"] = "open" => calls'[k].job = "sent"
                    /\ calls'[k].waited => calls'[k].pc = "done"
  BY DEF BackOK
<1>1. ASSUME NEW i \in DOMAIN net'["S"], net'["S"][i].t = "result", net'["S"][i].k = k
      PROVE  calls'[k].job = "sent"
  <2>0. PICK f : f = net'["S"][i]
    OBVIOUS
  <2>1. CASE NewFrame("S", f)
    <3>1. ResultNew("S", f)
      BY <1>1, <2>0, <2>1 DEF NewFrame
    <3>2. /\ k \in Keys /\ calls[k].end = "S" /\ (k # 1 => calls'[k].job \in {"none", "sent"})
          /\ calls[k].job \in {"ran", "dead"} \/ Consumed("S", k)
      BY <1>1, <2>0, <3>1 DEF ResultNew
    <3>3. k # 1
      BY <1>0, <3>2 DEF StageInv, Keys
    <3>4. ~Consumed("S", k)
      <4> SUFFICES ASSUME Consumed("S", k) PROVE FALSE
        OBVIOUS
      <4>1. net["S"] # <<>> /\ IsRequest(net["S"][1]) /\ net["S"][1].k = k
        BY DEF Consumed
      <4>2. 1 \in DOMAIN net["S"]
        BY <1>0, <4>1, ReadFrame, EndParts
      <4>3. RequestOK("S", net["S"][1])
        BY <1>0, <4>1, <4>2, EndParts DEF FrameInv, FrameOK
      <4> QED
        BY <3>2, <4>1, <4>3, EndParts DEF RequestOK
    <3>5. calls'[k].job # "none"
      BY <1>0, <3>2, <3>4 DEF CallsGrow, Older
    <3> QED
      BY <3>2, <3>3, <3>5
  <2>2. CASE ~NewFrame("S", f)
    <3>1. PICK j \in DOMAIN net["S"] : f = net["S"][j]
      BY <1>1, <2>0, <2>2, Origin, EndParts
    <3>2. k \in Keys /\ calls[k].end = "S"
      BY <1>0, <1>1, <2>0, <3>1, EndParts DEF FrameInv, FrameOK, ResultOK
    <3>3. calls[k].job = "sent"
      BY <1>0, <1>1, <2>0, <3>1, <3>2 DEF BackInv, BackOK
    <3> QED
      BY <1>0, <3>2, <3>3 DEF CallsGrow, Older
  <2> QED
    BY <2>1, <2>2
<1>2. ASSUME calls'[k].id # 0, promise'["S"][calls'[k].id].st # "none", phase'["S"] = "open"
      PROVE  calls'[k].job = "sent"
  <2>1. k \in Keys
    BY <1>0, <1>2 DEF AllBorn, Newborn, Spawning, Calling
  <2>2. calls[k].end = "S" /\ Older(k)
    BY <1>0, <2>1 DEF CallsGrow, Older
  <2>3. calls'[k].id = calls[k].id
    <3> SUFFICES ASSUME calls'[k].id # calls[k].id PROVE FALSE
      OBVIOUS
    <3>1. calls'[k].pc = "ready"
      BY <2>2 DEF Older
    <3> QED
      BY <1>0, <1>2, <3>1 DEF IdInv, IdOK
  <2>4. calls[k].id \in Ids /\ calls[k].id # 0
    BY <1>0, <1>2, <2>1, <2>3, CallOf, CallType
  <2>5. phase["S"] = "open"
    BY <1>0, <1>2, EndParts DEF LinkMove
  <2>6. CASE promise["S"][calls[k].id].st # "none"
    <3>1. calls[k].job = "sent"
      BY <1>0, <2>1, <2>2, <2>4, <2>5, <2>6 DEF BackInv, BackOK
    <3> QED
      BY <2>2, <3>1 DEF Older
  <2>7. CASE promise["S"][calls[k].id].st = "none"
    <3>1. Settled("S", calls[k].id)
      BY <1>0, <1>2, <2>3, <2>4, <2>7, EndParts DEF SlotsMove, SlotMove, Untouched, Entered
    <3>2. 1 \in DOMAIN net["S"] /\ net["S"][1].t = "result" /\ net["S"][1].k = k
      BY <1>2, <2>1, <2>2, <2>4, <3>1, BackResult
    <3>3. calls[k].job = "sent"
      BY <1>0, <2>1, <2>2, <3>2 DEF BackInv, BackOK
    <3> QED
      BY <2>2, <3>3 DEF Older
  <2> QED
    BY <2>6, <2>7
<1>3. ASSUME calls'[k].waited PROVE calls'[k].pc = "done"
  <2>1. k \in Keys
    BY <1>0, <1>3 DEF AllBorn, Newborn
  <2>2. calls[k].end = "S" /\ Older(k)
    BY <1>0, <2>1 DEF CallsGrow, Older
  <2>3. calls[k].pc = "done"
    BY <1>0, <1>3, <2>1, <2>2 DEF WaitMove, BackInv, BackOK
  <2> QED
    BY <2>2, <2>3 DEF Older
<1> QED
  BY <1>1, <1>2, <1>3

-----------------------------------------------------------------------------
(* The invariant is kept: what has been printed *)

(* The client's call that a print belongs to. *)
LEMMA OwnCall ==
  ASSUME TypeInv, StageInv, RefInv, JobInv, NEW j \in Keys, calls[j].ran # <<>>
  PROVE  /\ Own(j) \in Keys /\ calls[Own(j)].end = "C" /\ calls[Own(j)].ran # <<>>
         /\ calls[Own(j)].id # 0 /\ calls[Own(j)].id \in Ids
         /\ Own(j) # 1 => calls[Own(j)].job # "none"
<1>1. calls[j].end = "C" \/ calls[j].end = "S"
  BY CallOf, CallType, EndParts
<1>2. Own(j) \in Keys /\ calls[Own(j)].end = "C" /\ calls[Own(j)].ran # <<>>
  BY <1>1 DEF Own, RefInv, RefOK
<1>3. calls[Own(j)].id \in Ids
  BY <1>2, CallOf, CallType
<1>4. Own(j) # 1 => calls[Own(j)].job # "none"
  BY <1>2 DEF JobInv, JobOK
<1>5. CASE Own(j) # 1
  BY <1>2, <1>3, <1>4, <1>5 DEF JobInv, JobOK
<1>6. CASE Own(j) = 1
  BY <1>2, <1>3, <1>6 DEF StageInv, Keys
<1> QED
  BY <1>2, <1>3, <1>4, <1>5, <1>6

(* The client's call that a call belongs to stays the same. *)
LEMMA OwnStays ==
  ASSUME Inv, [Next]_vars, NEW j \in Keys
  PROVE  j \in Keys' /\ Own(j)' = Own(j)
<1>1. CallsGrow /\ TypeInv
  BY PrintFacts
<1>2. j \in Keys'
  BY <1>1, ListOf DEF CallsGrow, Keys
<1> QED
  BY <1>1, <1>2 DEF CallsGrow, Older, Own

(* A call that A is working on has not been answered. *)
LEMMA AtWork ==
  ASSUME TypeInv, IdInv, FrameInv, TakenInv, NEW o \in Keys, o # 1, calls[o].end = "C",
         calls[o].id # 0, calls[o].job = "queued"
  PROVE  /\ promise["C"][calls[o].id].st # "ok"
         /\ \A q \in DOMAIN net["C"] : ~(net["C"][q].t = "result" /\ net["C"][q].k = o)
<1>1. calls[o].id \in Ids
  BY CallOf, CallType
<1>2. promise["C"][calls[o].id].st # "ok"
  <2> SUFFICES ASSUME promise["C"][calls[o].id].st = "ok" PROVE FALSE
    OBVIOUS
  <2>1. PICK k : k = promise["C"][calls[o].id].from
    OBVIOUS
  <2>2. AnswerOf("C", calls[o].id, k)
    BY <1>1, <2>1, EndParts DEF TakenInv, TakenOK
  <2>3. k = o
    BY <2>2, SameCall DEF AnswerOf
  <2> QED
    BY <2>2, <2>3 DEF AnswerOf, Served
<1>3. \A q \in DOMAIN net["C"] : ~(net["C"][q].t = "result" /\ net["C"][q].k = o)
  BY EndParts DEF FrameInv, FrameOK, ResultOK
<1> QED
  BY <1>2, <1>3

(* What has been shown to the client's call stays so. *)
LEMMA ShownStays ==
  ASSUME Inv, [Next]_vars, NEW j \in Keys, calls[j].ran # <<>>, Own(j) # 1, Shown(j)
  PROVE  Shown(j)'
<1>0. /\ TypeInv /\ StageInv /\ RefInv /\ IdInv /\ SlotInv /\ AnswerInv /\ FrameInv /\ JobInv
      /\ TypeInv' /\ CallsGrow /\ SlotsMove /\ LinkMove /\ AllCarried /\ HeardMove
      /\ delivered \subseteq delivered'
  BY PrintFacts
<1>1. PICK o \in Keys : o = Own(j)
  BY <1>0, OwnCall
<1>2. PICK i \in Ids : i = calls[o].id
  BY <1>0, <1>1, OwnCall
<1>3. /\ calls[o].end = "C" /\ calls[o].ran # <<>> /\ i # 0 /\ o # 1 /\ calls[o].job # "none"
  BY <1>0, <1>1, <1>2, OwnCall
<1>4. j \in Keys' /\ Own(j)' = o /\ calls'[o].id = i
  BY <1>0, <1>1, <1>2, <1>3, OwnStays, IdStays
<1>5. CASE j \in delivered
  BY <1>0, <1>5 DEF Shown
<1>6. CASE j \notin delivered
  <2>0. /\ promise["C"][i].st # "ok"
        /\ Deaf \/ promise["C"][i].st = "err" \/ Ahead(net["C"], j, i, o)
    BY <1>1, <1>2, <1>6 DEF Shown
  <2>1. promise'["C"][i].st # "ok"
    <3> SUFFICES ASSUME promise'["C"][i].st = "ok" PROVE FALSE
      OBVIOUS
    <3>1. ~Deaf
      BY <1>0, <1>3, <2>0 DEF HeardMove
    <3>2. SlotMove("C", i)
      BY <1>0, EndParts DEF SlotsMove
    <3>3. Settled("C", i)
      BY <2>0, <3>2 DEF SlotMove, Untouched, Entered
    <3>4. PICK k : k = promise'["C"][i].from
      OBVIOUS
    <3>5. AnswerOf("C", i, k) /\ net["C"][1].t = "result" /\ net["C"][1].k = k
      BY <1>3, <2>0, <3>2, <3>4 DEF SlotMove, Untouched, Entered
    <3>6. k = o
      BY <1>0, <1>2, <1>3, <3>5, SameCall DEF AnswerOf
    <3>7. promise["C"][i].st = "none"
      BY <1>0, <3>3, EndParts DEF Settled, SlotInv, SlotOK
    <3>8. Ahead(net["C"], j, i, o)
      BY <2>0, <3>1, <3>7
    <3>9. net["C"] \in Seq(Frames)
      BY <1>0, NetType, EndParts
    <3> QED
      BY <3>5, <3>6, <3>8, <3>9, AheadFirst
  <2> SUFFICES Deaf' \/ promise'["C"][i].st = "err" \/ Ahead(net'["C"], j, i, o) \/ j \in delivered'
    BY <1>4, <2>1 DEF Shown
  <2>2. CASE Deaf
    BY <1>0, <2>2, EndParts DEF Deaf, LinkMove
  <2>3. CASE promise["C"][i].st = "err"
    <3>1. i \notin pending["C"]
      BY <1>0, <2>3, EndParts DEF SlotInv, SlotOK
    <3>2. promise'["C"][i] = promise["C"][i]
      BY <1>0, <3>1, EndParts DEF SlotsMove, SlotMove, Untouched, Settled, Entered
    <3> QED
      BY <2>3, <3>2
  <2>4. CASE Ahead(net["C"], j, i, o) /\ promise["C"][i].st # "err"
    <3>1. net["C"] \in Seq(Frames)
      BY <1>0, NetType, EndParts
    <3>2. CASE net'["C"] = net["C"]
      BY <2>4, <3>2
    <3>3. CASE \E f \in Frames : net'["C"] = Append(net["C"], f)
      <4>1. PICK f \in Frames : net'["C"] = Append(net["C"], f)
        BY <3>3
      <4>2. Ahead(Append(net["C"], f), j, i, o)
        BY <2>4, <3>1, AheadAppend
      <4> QED
        BY <4>1, <4>2
    <3>4. CASE /\ net["C"] # <<>> /\ net'["C"] = Tail(net["C"])
               /\ net["C"][1].t = "out" /\ net["C"][1].id \in pending["C"] => Passed("C")
      <4>1. CASE net["C"][1].t = "out" /\ net["C"][1].k = j /\ net["C"][1].id = i
        <5>1. promise["C"][i].st = "none"
          BY <1>0, <2>0, <2>4, SlotType, EndParts
        <5>2. calls[o].pc = "wait"
          BY <1>0, <1>2, <1>3, <5>1 DEF JobInv, JobOK
        <5>3. i \in pending["C"]
          BY <1>0, <1>2, <1>3, <5>1, <5>2 DEF AnswerInv, Answerable
        <5> QED
          BY <3>4, <4>1, <5>3 DEF Passed
      <4>2. CASE ~(net["C"][1].t = "out" /\ net["C"][1].k = j /\ net["C"][1].id = i)
        <5>1. Ahead(Tail(net["C"]), j, i, o)
          BY <2>4, <3>1, <3>4, <4>2, AheadTail
        <5> QED
          BY <3>4, <5>1
      <4> QED
        BY <4>1, <4>2
    <3> QED
      BY <1>0, <3>2, <3>3, <3>4, EndParts DEF AllCarried, Carries
  <2> QED
    BY <2>0, <2>2, <2>3, <2>4
<1> QED
  BY <1>5, <1>6

(* What is on its way to the server stays so, or comes back to the client. *)
LEMMA RelayedStays ==
  ASSUME Inv, [Next]_vars, NEW j \in Keys, calls[j].ran # <<>>, Own(j) # 1, calls[j].end = "S",
         ~calls[j].waited, actors["A"].cur = Own(j), phase'["S"] = "open", Relayed(j)
  PROVE  Shown(j)' \/ (~calls'[j].waited /\ Relayed(j)')
<1>0. /\ TypeInv /\ StageInv /\ RefInv /\ IdInv /\ SlotInv /\ AnswerInv /\ FrameInv /\ JobInv
      /\ QueueInv /\ TakenInv /\ TypeInv' /\ CallsGrow /\ SlotsMove /\ IdsMove /\ LinkMove
      /\ AllCarried /\ HeardMove /\ WaitMove
  BY PrintFacts
<1>1. PICK i \in Ids : i = calls[j].id
  BY <1>0, CallOf, CallType
<1>2. calls[j].pc = "wait" /\ promise["S"][i].st = "none" /\ Ahead(net["S"], j, i, j)
  BY <1>1 DEF Relayed
<1>3. i # 0 /\ calls'[j].id = i /\ j \in Keys'
  BY <1>0, <1>1, <1>2, IdStays DEF IdInv, IdOK
<1>4. ~calls'[j].waited
  BY <1>0, <1>2 DEF WaitMove
<1>5. calls'[j].pc = "wait"
  BY <1>0, <1>1, <1>2 DEF CallsGrow, Older, IdsMove
<1>6. net["S"] \in Seq(Frames)
  BY <1>0, NetType, EndParts
<1>7. promise'["S"][i].st = "none"
  <2>1. CASE Settled("S", i)
    <3>1. net["S"][1].t = "result" /\ net["S"][1].k = j
      BY <1>1, <1>3, <2>1, BackResult
    <3> QED
      BY <1>2, <1>6, <3>1, AheadFirst
  <2>2. CASE ~Settled("S", i)
    BY <1>0, <1>2, <2>2, EndParts DEF SlotsMove, SlotMove, Untouched, Entered
  <2> QED
    BY <2>1, <2>2
<1>8. ASSUME Ahead(net'["S"], j, i, j) PROVE Relayed(j)'
  BY <1>3, <1>5, <1>7, <1>8 DEF Relayed
<1>9. CASE net'["S"] = net["S"]
  BY <1>2, <1>4, <1>8, <1>9
<1>10. CASE \E f \in Frames : net'["S"] = Append(net["S"], f)
  <2>1. PICK f \in Frames : net'["S"] = Append(net["S"], f)
    BY <1>10
  <2>2. Ahead(Append(net["S"], f), j, i, j)
    BY <1>2, <1>6, AheadAppend
  <2> QED
    BY <1>4, <1>8, <2>1, <2>2
<1>11. CASE /\ net["S"] # <<>> /\ net'["S"] = Tail(net["S"])
            /\ net["S"][1].t = "out" /\ net["S"][1].id \in pending["S"] => Passed("S")
  <2>1. CASE ~(net["S"][1].t = "out" /\ net["S"][1].k = j /\ net["S"][1].id = i)
    <3>1. Ahead(Tail(net["S"]), j, i, j)
      BY <1>2, <1>6, <1>11, <2>1, AheadTail
    <3> QED
      BY <1>4, <1>8, <1>11, <3>1
  <2>2. CASE net["S"][1].t = "out" /\ net["S"][1].k = j /\ net["S"][1].id = i
    <3>1. i \in pending["S"]
      BY <1>0, <1>1, <1>2 DEF AnswerInv, Answerable
    <3>2. Passed("S")
      BY <1>11, <2>2, <3>1
    <3>3. phase["S"] = "open"
      BY <1>0, EndParts DEF LinkMove
    <3>4. PICK o \in Keys : o = Own(j)
      BY <1>0, OwnCall
    <3>5. /\ o = calls[j].route /\ o # 1 /\ calls[o].end = "C" /\ calls[o].id # 0 /\ calls[o].id \in Ids
      BY <1>0, <3>4, OwnCall DEF Own
    <3>6. calls[o].job = "queued"
      BY <1>0, <3>4, <3>5, AtCall, CallOf DEF InHand
    <3>7. /\ promise["C"][calls[o].id].st # "ok"
          /\ \A q \in DOMAIN net["C"] : ~(net["C"][q].t = "result" /\ net["C"][q].k = o)
      BY <1>0, <3>5, <3>6, AtWork
    <3>8. Own(j)' = o /\ calls'[o].id = calls[o].id
      BY <3>4, <3>5, OwnStays, IdStays
    <3>9. promise'["C"][calls[o].id].st # "ok"
      <4> SUFFICES ASSUME promise'["C"][calls[o].id].st = "ok" PROVE FALSE
        OBVIOUS
      <4>1. PICK k : k = promise'["C"][calls[o].id].from
        OBVIOUS
      <4>2. AnswerOf("C", calls[o].id, k)
        BY <1>0, <3>5, <3>7, <4>1, EndParts DEF SlotsMove, SlotMove, Untouched, Entered
      <4>3. k = o
        BY <1>0, <3>5, <4>2, SameCall DEF AnswerOf
      <4> QED
        BY <3>5, <3>6, <4>2, <4>3 DEF AnswerOf, Served
    <3>10. CASE Broken("S")
      <4>1. Deaf
        BY <3>10, EndParts DEF Broken, Deaf, FdOpen
      <4>2. Deaf'
        BY <1>0, <4>1, EndParts DEF Deaf, LinkMove
      <4> QED
        BY <3>8, <3>9, <4>2 DEF Shown
    <3>11. CASE \E g \in Frames : /\ net'["C"] = Append(net["C"], g) /\ g.t = "out"
                                  /\ g.k = j /\ g.id = calls[o].id
      <4>1. PICK g \in Frames : /\ net'["C"] = Append(net["C"], g) /\ g.t = "out"
                                /\ g.k = j /\ g.id = calls[o].id
        BY <3>11
      <4>2. net["C"] \in Seq(Frames)
        BY <1>0, NetType, EndParts
      <4>3. Ahead(Append(net["C"], g), j, calls[o].id, o)
        BY <3>7, <4>1, <4>2, AheadNew
      <4>4. Ahead(net'["C"], j, calls[o].id, o)
        BY <4>1, <4>3
      <4> QED
        BY <3>8, <3>9, <4>4 DEF Shown
    <3> QED
      BY <2>2, <3>2, <3>3, <3>5, <3>10, <3>11 DEF Passed
  <2> QED
    BY <2>1, <2>2
<1> QED
  BY <1>0, <1>9, <1>10, <1>11, EndParts DEF AllCarried, Carries

(* A print that there has been. *)
LEMMA OldPrint ==
  ASSUME Inv, [Next]_vars, NEW j \in printed
  PROVE  PrintOK(j)'
<1>0. /\ TypeInv /\ StageInv /\ RefInv /\ JobInv /\ PrintInv /\ CallsGrow /\ LinkMove /\ WaitMove
      /\ CurMove
  BY PrintFacts
<1>1. j \in Keys /\ calls[j].ran # <<>> /\ PrintOK(j)
  BY <1>0 DEF PrintInv, PrintOK
<1>2. /\ j \in Keys' /\ Own(j)' = Own(j) /\ calls'[j].ran = calls[j].ran /\ calls'[j].end = calls[j].end
      /\ calls[j].waited => calls'[j].waited
  BY <1>0, <1>1, OwnStays DEF CallsGrow, Older
<1>3. ASSUME phase'["S"] = "open", Own(j) # 1, calls[j].end = "C" PROVE Shown(j)'
  <2>1. phase["S"] = "open"
    BY <1>0, <1>3, EndParts DEF LinkMove
  <2>2. Shown(j)
    BY <1>1, <1>3, <2>1 DEF PrintOK
  <2> QED
    BY <1>1, <1>3, <2>2, ShownStays
<1>4. ASSUME phase'["S"] = "open", Own(j) # 1, calls[j].end = "S",
             calls'[j].waited \/ actors'["A"].cur = Own(j)
      PROVE  Shown(j)' \/ (~calls'[j].waited /\ Relayed(j)')
  <2>1. phase["S"] = "open"
    BY <1>0, <1>4, EndParts DEF LinkMove
  <2>2. /\ Own(j) \in Keys /\ Own(j) = calls[j].route /\ calls[Own(j)].ran # <<>>
    BY <1>0, <1>1, <1>4, OwnCall DEF Own
  <2>3. Own(j) # 0
    BY <1>0, <2>2, CallOf
  <2>4. calls[j].waited \/ actors["A"].cur = Own(j)
    <3>1. CASE calls'[j].waited
      BY <1>0, <1>1, <2>2, <3>1 DEF WaitMove
    <3>2. CASE actors'["A"].cur = Own(j)
      BY <1>0, <2>2, <2>3, <3>2 DEF CurMove
    <3> QED
      BY <1>4, <3>1, <3>2
  <2>5. Shown(j) \/ (~calls[j].waited /\ Relayed(j))
    BY <1>1, <1>4, <2>1, <2>4 DEF PrintOK
  <2>6. CASE Shown(j)
    BY <1>1, <1>4, <2>6, ShownStays
  <2>7. CASE ~calls[j].waited /\ Relayed(j)
    BY <1>1, <1>4, <2>4, <2>7, RelayedStays
  <2> QED
    BY <2>5, <2>6, <2>7
<1> QED
  BY <1>1, <1>2, <1>3, <1>4 DEF PrintOK

(* A print sent, or one that cannot be. *)
LEMMA NewPrint ==
  ASSUME Inv, [Next]_vars, NEW a \in {"A", "L"}, DoPrint(a), NEW k, k = actors[a].cur
  PROVE  PrintOK(k)'
<1>0. /\ TypeInv /\ StageInv /\ RefInv /\ IdInv /\ SlotInv /\ AnswerInv /\ FrameInv /\ JobInv
      /\ QueueInv /\ TakenInv /\ BackInv /\ DownInv /\ CallsGrow
  BY PrintFacts
<1>1. /\ k \in Keys /\ InHand(k, a) /\ calls[k].ran = <<a>> /\ Peered(k) = Home(a)
      /\ phase[Home(a)] = "open" => Sending(Home(a), [t |-> "out", id |-> calls[k].id, k |-> k])
      /\ phase[Home(a)] # "open" => net' = net
      /\ UNCHANGED <<proc, phase, promise, actors>> /\ Alters(k, {"body"})
  BY <1>0, DoPrintShape
<1>2. <<a>> # <<>>
  OBVIOUS
<1>3. calls[k].ran # <<>>
  BY <1>1, <1>2
<1>4. /\ k \in Keys' /\ Own(k)' = Own(k) /\ calls'[k].ran # <<>>
  BY <1>0, <1>1, <1>3, OwnStays DEF CallsGrow, Older
<1>5. /\ calls'[k].end = calls[k].end /\ calls'[k].waited = calls[k].waited
      /\ calls'[k].id = calls[k].id /\ calls'[k].pc = calls[k].pc
  BY <1>1 DEF Alters, Fields
<1>6. PICK o \in Keys : o = Own(k)
  BY <1>0, <1>1, <1>3, OwnCall
<1>7. /\ calls[o].end = "C" /\ calls[o].id # 0 /\ calls[o].id \in Ids /\ calls'[o].id = calls[o].id
  BY <1>0, <1>1, <1>3, <1>6, OwnCall, IdStays
<1>8. SUFFICES ASSUME phase["S"] = "open", o # 1
               PROVE  /\ calls[k].end = "C" => Shown(k)'
                      /\ calls[k].end = "S" /\ (calls[k].waited \/ actors["A"].cur = o) =>
                           Shown(k)' \/ (~calls[k].waited /\ Relayed(k)')
  BY <1>1, <1>4, <1>5, <1>6 DEF PrintOK
<1> DEFINE f == [t |-> "out", id |-> calls[k].id, k |-> k]
<1>9. f.t = "out" /\ f.id = calls[k].id /\ f.k = k
  OBVIOUS
<1>10. Sending(Home(a), f) => f \in Frames
  BY DEF Sending
<1>11. phase[Home(a)] = "open" => Sending(Home(a), f)
  BY <1>1
<1> HIDE DEF f
<1>12. net["C"] \in Seq(Frames) /\ net["S"] \in Seq(Frames)
  BY <1>0, NetType, EndParts
<1>13. CASE calls[k].end = "C"
  <2>1. a = "A" /\ o = k /\ Home(a) = "S"
    BY <1>1, <1>6, <1>13 DEF InHand, Actor, Own, Home
  <2>2. calls[o].job = "queued"
    BY <1>1, <1>8, <2>1 DEF InHand
  <2>3. /\ promise["C"][calls[o].id].st # "ok"
        /\ \A q \in DOMAIN net["C"] : ~(net["C"][q].t = "result" /\ net["C"][q].k = o)
    BY <1>0, <1>7, <1>8, <2>2, AtWork
  <2>4. Sending("S", f) /\ f \in Frames
    BY <1>8, <1>10, <1>11, <2>1
  <2>5. CASE net'["C"] = Append(net["C"], f)
    <3>1. Ahead(Append(net["C"], f), k, calls[o].id, o)
      BY <1>9, <1>12, <2>1, <2>3, <2>4, AheadNew
    <3>2. Ahead(net'["C"], k, calls[o].id, o)
      BY <2>5, <3>1
    <3> QED
      BY <1>1, <1>4, <1>6, <1>7, <1>13, <2>3, <3>2 DEF Shown
  <2>6. CASE ~FdOpen("S") \/ Broken("S")
    <3>1. Deaf'
      BY <1>1, <1>8, <2>6, EndParts DEF FdOpen, Broken, Deaf, Up
    <3> QED
      BY <1>1, <1>4, <1>6, <1>7, <1>13, <2>3, <3>1 DEF Shown
  <2>7. net'["C"] = Append(net["C"], f) \/ ~FdOpen("S") \/ Broken("S")
    BY <2>4, EndParts DEF Sending
  <2> QED
    BY <2>5, <2>6, <2>7
<1>14. CASE calls[k].end = "S"
  <2>1. a = "L" /\ o = calls[k].route /\ Home(a) = "C" /\ k # 1
    BY <1>0, <1>1, <1>6, <1>14 DEF InHand, Actor, Own, Home, StageInv, Keys
  <2>2. calls[k].job = "queued" /\ calls[k].id # 0 /\ calls[k].id \in Ids
    BY <1>0, <1>1, <2>1, CallerEnd DEF InHand, JobInv, JobOK
  <2>3. promise["S"][calls[k].id].st = "none"
    BY <1>0, <1>1, <1>8, <1>14, <2>2 DEF BackInv, BackOK
  <2>4. calls[k].pc = "wait"
    BY <1>0, <1>1, <1>14, <2>1, <2>2, <2>3 DEF JobInv, JobOK
  <2>5. ~calls[k].waited
    BY <1>0, <1>1, <1>14, <2>4 DEF BackInv, BackOK
  <2>6. \A q \in DOMAIN net["S"] : ~(net["S"][q].t = "result" /\ net["S"][q].k = k)
    BY <1>0, <1>1, <1>14, <2>2 DEF BackInv, BackOK
  <2>7. SUFFICES ASSUME actors["A"].cur = o PROVE Shown(k)' \/ Relayed(k)'
    BY <1>14, <2>5
  <2>8. calls[o].job = "queued"
    BY <1>0, <1>8, <2>7, AtCall, CallOf DEF InHand
  <2>9. promise["C"][calls[o].id].st # "ok"
    BY <1>0, <1>7, <1>8, <2>8, AtWork
  <2>10. CASE phase["C"] # "open"
    <3>1. Deaf'
      BY <1>1, <2>10 DEF Deaf
    <3> QED
      BY <1>1, <1>4, <1>6, <1>7, <2>9, <3>1 DEF Shown
  <2>11. CASE phase["C"] = "open"
    <3>1. Sending("C", f) /\ f \in Frames
      BY <1>10, <1>11, <2>1, <2>11
    <3>2. FdOpen("C") /\ ~Broken("C")
      BY <1>0, <1>8, <2>11, EndParts DEF FdOpen, Broken, DownInv
    <3>3. net'["S"] = Append(net["S"], f)
      BY <3>1, <3>2, EndParts DEF Sending
    <3>4. Ahead(Append(net["S"], f), k, calls[k].id, k)
      BY <1>9, <1>12, <2>6, <3>1, AheadNew
    <3>5. Ahead(net'["S"], k, calls'[k].id, k)
      BY <1>5, <3>3, <3>4
    <3> QED
      BY <1>1, <1>5, <2>3, <2>4, <3>5 DEF Relayed
  <2> QED
    BY <2>10, <2>11
<1>15. calls[k].end = "C" \/ calls[k].end = "S"
  BY <1>0, <1>1, CallerEnd, EndParts
<1> QED
  BY <1>13, <1>14, <1>15

(* What a step prints. *)
PrintsMove == \A j \in printed' : j \in printed \/ PrintOK(j)'

(* Nothing is printed. *)
LEMMA PrintsSame ==
  ASSUME UNCHANGED <<printed>>
  PROVE  PrintsMove
BY DEF PrintsMove

(* Every print. *)
LEMMA PrintsStep ==
  ASSUME Inv, [Next]_vars
  PROVE  PrintsMove
<1>0. /\ TypeInv /\ StageInv /\ RefInv /\ FrameInv /\ IdInv /\ SlotInv /\ JobInv /\ QueueInv
      /\ TakenInv /\ SpawnInv
  BY DEF Inv
<1>1. ASSUME Connect PROVE PrintsMove
  BY <1>1, <1>0, PrintsSame, ConnectShape
<1>2. ASSUME EnterSlot PROVE PrintsMove
  BY <1>2, <1>0, PrintsSame, EnterSlotShape
<1>3. ASSUME TakeFuture PROVE PrintsMove
  BY <1>3, <1>0, PrintsSame, TakeFutureShape
<1>4. ASSUME Greeted PROVE PrintsMove
  BY <1>4, <1>0, PrintsSame, GreetedShape
<1>5. ASSUME Unwind PROVE PrintsMove
  BY <1>5, <1>0, PrintsSame, UnwindShape DEF own
<1>6. ASSUME NEW k \in Keys, TakeCall(k) PROVE PrintsMove
  BY <1>6, <1>0, PrintsSame, TakeCallShape
<1>7. ASSUME NEW k \in Keys, EnterCall(k) PROVE PrintsMove
  BY <1>7, <1>0, PrintsSame, EnterCallShape
<1>8. ASSUME NEW k \in Keys, SendCall(k) PROVE PrintsMove
  BY <1>8, <1>0, PrintsSame, SendCallShape
<1>9. ASSUME NEW k \in Keys, ReturnCall(k) PROVE PrintsMove
  BY <1>9, <1>0, PrintsSame, ReturnCallShape DEF linkVars
<1>10. ASSUME NEW k \in Keys, JobQueue(k) PROVE PrintsMove
  BY <1>10, <1>0, PrintsSame, JobQueueShape DEF linkVars
<1>11. ASSUME NEW k \in Keys, JobReply(k) PROVE PrintsMove
  BY <1>11, <1>0, PrintsSame, JobReplyShape
<1>12. ASSUME Welcome PROVE PrintsMove
  BY <1>12, <1>0, PrintsSame, WelcomeShape
<1>13. ASSUME Spawn PROVE PrintsMove
  BY <1>13, <1>0, PrintsSame, SpawnShape
<1>14. ASSUME Serve PROVE PrintsMove
  BY <1>14, <1>0, PrintsSame, ServeShape
<1>15. ASSUME Disconnected PROVE PrintsMove
  BY <1>15, <1>0, PrintsSame, DisconnectedShape DEF linkVars
<1>16. ASSUME CleanedUp PROVE PrintsMove
  BY <1>16, <1>0, PrintsSame DEF CleanedUp, linkVars
<1>17. ASSUME Released PROVE PrintsMove
  BY <1>17, <1>0, PrintsSame DEF Released, own
<1>18. ASSUME HelloAnswer PROVE PrintsMove
  BY <1>18, <1>0, PrintsSame, HelloAnswerShape DEF own
<1>19. ASSUME Refer PROVE PrintsMove
  BY <1>19, <1>0, PrintsSame, ReferShape
<1>20. ASSUME Hangup PROVE PrintsMove
  BY <1>20, <1>0, PrintsSame DEF Hangup, own
<1>21. ASSUME NEW e \in Ends, Result(e) PROVE PrintsMove
  BY <1>21, <1>0, PrintsSame, ResultShape
<1>22. ASSUME NEW e \in Ends, Output(e) PROVE PrintsMove
  BY <1>22, <1>0, PrintsSame, OutputShape
<1>23. ASSUME NEW e \in Ends, CloseFd(e), UNCHANGED own PROVE PrintsMove
  BY <1>23, <1>0, PrintsSame, CloseFdShape DEF own
<1>24. ASSUME NEW e \in Ends, CloseTable(e), UNCHANGED own PROVE PrintsMove
  BY <1>24, <1>0, PrintsSame, CloseTableShape DEF own
<1>25. ASSUME NEW a \in {"A", "L"}, Begin(a) PROVE PrintsMove
  BY <1>25, <1>0, PrintsSame, BeginShape DEF linkVars
<1>26. ASSUME NEW a \in {"A", "L"}, DoPrint(a) PROVE PrintsMove
  <2>0. PICK k : k = actors[a].cur
    OBVIOUS
  <2>1. printed' = printed \union {k}
    BY <1>26, <1>0, <2>0, DoPrintShape
  <2>2. PrintOK(k)'
    BY <1>26, <2>0, NewPrint
  <2> QED
    BY <2>1, <2>2 DEF PrintsMove
<1>27. ASSUME DoKeep("A") PROVE PrintsMove
  BY <1>27, <1>0, PrintsSame, DoKeepShape DEF linkVars
<1>28. ASSUME DoBack("A") PROVE PrintsMove
  BY <1>28, <1>0, PrintsSame, DoBackShape DEF linkVars
<1>29. ASSUME DoAwait("A") PROVE PrintsMove
  BY <1>29, <1>0, PrintsSame, DoAwaitShape DEF linkVars
<1>30. ASSUME NEW a \in {"A", "L"}, Finish(a) PROVE PrintsMove
  BY <1>30, <1>0, PrintsSame, FinishShape DEF linkVars
<1>31. ASSUME Exit("A") PROVE PrintsMove
  BY <1>31, <1>0, PrintsSame, ExitShape DEF linkVars
<1>32. ASSUME NEW p \in DOMAIN proxies, Drop(p) PROVE PrintsMove
  BY <1>32, <1>0, PrintsSame, DropShape
<1>33. ASSUME Forget PROVE PrintsMove
  BY <1>33, <1>0, PrintsSame, ForgetShape DEF linkVars
<1>34. ASSUME Leave PROVE PrintsMove
  BY <1>34, <1>0, PrintsSame DEF Leave
<1>35. ASSUME NEW e \in Ends, Crash(e) PROVE PrintsMove
  BY <1>35, <1>0, PrintsSame DEF Crash
<1>36. ASSUME UNCHANGED vars PROVE PrintsMove
  BY <1>36, <1>0, PrintsSame DEF vars, linkVars, own
<1> QED
  BY <1>1, <1>2, <1>3, <1>4, <1>5, <1>6, <1>7, <1>8, <1>9, <1>10, <1>11, <1>12, <1>13, <1>14,
     <1>15, <1>16, <1>17, <1>18, <1>19, <1>20, <1>21, <1>22, <1>23, <1>24, <1>25, <1>26,
     <1>27, <1>28, <1>29, <1>30, <1>31, <1>32, <1>33, <1>34, <1>35, <1>36
     DEF Next, Step, Environment

(* What has been printed arrives first. *)
LEMMA PrintStep ==
  ASSUME Inv, [Next]_vars
  PROVE  PrintInv'
BY OldPrint, PrintsStep DEF PrintInv, PrintsMove

-----------------------------------------------------------------------------
(* The theorems *)

(* Nothing has happened. *)
LEMMA InitInv == Init => Inv
<1> SUFFICES ASSUME Init PROVE Inv
  OBVIOUS
<1>0. /\ calls = <<>> /\ proxies = <<>> /\ main = "start" /\ kept = 0 /\ printed = {}
      /\ locals = [e \in Ends |-> <<>>] /\ nextId = [e \in Ends |-> 1]
      /\ net = [e \in Ends |-> <<>>] /\ pending = [e \in Ends |-> {}]
      /\ promise = [e \in Ends |-> [i \in Ids |-> Open]]
      /\ proc = [e \in Ends |-> "up"] /\ phase = [e \in Ends |-> "open"]
  BY DEF Init, LinkInit
<1>1. Keys = {} /\ Len(calls) = 0 /\ Len(proxies) = 0 /\ DOMAIN proxies = {}
  BY <1>0 DEF Keys
<1>2. /\ \A e \in Ends : net[e] = <<>> /\ locals[e] = <<>> /\ pending[e] = {} /\ nextId[e] = 1
      /\ \A e \in Ends : \A i \in Ids : promise[e][i] = Open
      /\ \A e \in Ends : proc[e] = "up"
  BY <1>0
<1>3. \A e \in Ends : DOMAIN net[e] = {} /\ DOMAIN locals[e] = {}
  BY <1>2
<1>4. 0 \in Ids /\ MaxId \in Nat
  BY LinkAssumption DEF Ids
<1>5. Open.st = "none" /\ Open.from = 0 /\ Open \in Promise
  BY DEF Open, Promise
<1>6. LinkType
  <2>1. /\ proc \in [Ends -> {"up", "crashed", "terminated"}]
        /\ phase \in [Ends -> {"open", "marked", "shut", "closed"}]
        /\ net \in [Ends -> Seq(Frames)] /\ pending \in [Ends -> SUBSET Ids]
    BY <1>0
  <2>2. nextId \in [Ends -> 1 .. MaxId + 1]
    BY <1>0, <1>4
  <2>3. promise \in [Ends -> [Ids -> Promise]]
    BY <1>0, <1>5
  <2> QED
    BY <2>1, <2>2, <2>3 DEF LinkType
<1>7. OwnType
  <2>1. /\ world \in Worlds /\ session = "hello" /\ registry = FALSE /\ left = world.losses
        /\ actors = [a \in {"A", "L", "X"} |->
                       [st |-> IF a = "A" THEN "none" ELSE "up", q |-> <<>>, cur |-> 0]]
    BY DEF Init
  <2>2. left \in Nat
    BY <2>1, CallsAssumption
  <2>3. actors \in [{"A", "L", "X"} -> ActorRec]
    BY <2>1 DEF ActorRec
  <2>4. proxies \in Seq(ProxyRec) /\ calls \in Seq(CallRec) /\ locals \in [Ends -> Seq({"L", "X"})]
    BY <1>0
  <2> QED
    BY <1>0, <2>1, <2>2, <2>3, <2>4 DEF OwnType
<1>8. StageInv
  BY <1>0, <1>1, <1>2, <1>3, <1>4, <1>5, EndParts DEF StageInv
<1>9. /\ RefInv /\ IdInv /\ AnswerInv /\ JobInv /\ BackInv
  BY <1>1 DEF RefInv, IdInv, AnswerInv, JobInv, BackInv
<1>10. SlotInv
  BY <1>2, <1>5 DEF SlotInv, SlotOK
<1>11. FrameInv /\ OnceInv /\ ApartInv
  BY <1>3 DEF FrameInv, OnceInv, ApartInv
<1>12. \A a \in {"A", "L"} : actors[a].q = <<>> /\ actors[a].cur = 0
  BY DEF Init
<1>13. SpawnInv
  BY <1>0, <1>1, <1>12 DEF SpawnInv
<1>14. QueueInv
  <2>1. \A a \in {"A", "L"} : DOMAIN actors[a].q = {}
    BY <1>12
  <2> QED
    BY <1>12, <2>1 DEF QueueInv, QueueOK
<1>15. TakenInv
  BY <1>1, <1>2, <1>5 DEF TakenInv, TakenOK
<1>16. TargetInv
  BY <1>0, <1>1, <1>2, <1>3, EndParts DEF TargetInv
<1>17. DownInv /\ PrintInv
  BY <1>0, <1>2 DEF DownInv, Up, PrintInv
<1> QED
  BY <1>6, <1>7, <1>8, <1>9, <1>10, <1>11, <1>13, <1>14, <1>15, <1>16, <1>17 DEF Inv, TypeInv

(* Every step keeps the invariant. *)
LEMMA InvStep ==
  ASSUME Inv, [Next]_vars
  PROVE  Inv'
BY TypeStep, StageStep, RefStep, IdStep, SlotStep, AnswerStep, FrameStep, OnceStep, ApartStep,
   SpawnStep, JobStep, QueueStep, TakenStep, TargetStep, BackStep, DownStep, PrintStep
   DEF Inv

(* The inductive invariant holds in every reachable state, for every set   *)
(* of programs and every bound on the ids.                                 *)
THEOREM InvHolds == Spec => []Inv
BY InitInv, InvStep, PTL DEF Spec

(* The state has the types of the members it stands for, and no table      *)
(* holds an id that has not been handed out.                               *)
THEOREM TypeCorrect == Spec => []TypeOK
<1>1. Inv => TypeOK
  <2> SUFFICES ASSUME Inv PROVE TypeOK
    OBVIOUS
  <2>0. TypeInv /\ SlotInv
    BY DEF Inv
  <2>1. \A e \in Ends : pending[e] \subseteq 0 .. nextId[e] - 1
    <3> SUFFICES ASSUME NEW e \in Ends, NEW i \in pending[e] PROVE i \in 0 .. nextId[e] - 1
      OBVIOUS
    <3>1. i \in Ids /\ nextId[e] \in 1 .. MaxId + 1
      BY <2>0, SlotType
    <3>2. i < nextId[e]
      BY <2>0, <3>1 DEF SlotInv, SlotOK
    <3> QED
      BY <3>1, <3>2, LinkAssumption DEF Ids
  <2>2. LinkTypeOK
    BY <2>0, <2>1 DEF TypeInv, LinkType, LinkTypeOK, Promise
  <2>3. \A k \in Keys : /\ calls[k].pc \in {"queued", "ready", "entered", "wait", "done"}
                        /\ calls[k].res \in {"none", "ok", "nil"}
                        /\ calls[k].job \in {"none", "new", "queued", "ran", "dead", "sent"}
    BY <2>0, CallOf, CallType DEF PCs, Jobs
  <2>4. \A p \in DOMAIN proxies : proxies[p].st \in {"up", "exited", "gone"}
    <3>1. proxies \in Seq(ProxyRec)
      BY <2>0 DEF TypeInv, OwnType
    <3>2. \A p \in DOMAIN proxies : proxies[p] \in ProxyRec
      BY <3>1
    <3> QED
      BY <3>2 DEF ProxyRec
  <2>5. \A a \in DOMAIN actors : actors[a].st \in {"none", "up", "quit", "exited"}
    <3>1. DOMAIN actors = {"A", "L", "X"}
      BY <2>0 DEF TypeInv, OwnType
    <3> QED
      BY <2>0, <3>1, ActorType
  <2> QED
    BY <2>0, <2>2, <2>3, <2>4, <2>5 DEF TypeInv, OwnType, TypeOK
<1> QED
  BY <1>1, InvHolds, PTL

(* A caller blocked in waitForComputeFuture has an entry in pendingCalls_  *)
(* or a promise that has been fulfilled, whatever the order in which calls *)
(* are entered, sent and answered and connections are closed.              *)
THEOREM NoStrandedHolds == Spec => []NoStrandedCall
<1>1. Inv => NoStrandedCall
  BY DEF Inv, AnswerInv, Answerable, NoStrandedCall
<1> QED
  BY <1>1, InvHolds, PTL

(* In every program, references that come home included: a call runs at    *)
(* most once, on the actor that its end is served by, and its caller gets  *)
(* its own result, after its method has run to its end.                    *)
OwnResult ==
  \A k \in Keys :
    /\ calls[k].ran \in {<<>>, <<Actor(k)>>}
    /\ calls[k].res = "ok" => /\ calls[k].from = k
                              /\ calls[k].via # 0 => /\ calls[k].ran = <<Actor(k)>>
                                                     /\ calls[k].body = <<>>

(* This much follows from the invariant. *)
LEMMA OwnResultInv ==
  ASSUME Inv
  PROVE  OwnResult
<1> SUFFICES ASSUME NEW k \in Keys
             PROVE  /\ calls[k].ran \in {<<>>, <<Actor(k)>>}
                    /\ calls[k].res = "ok" =>
                         calls[k].from = k /\ (calls[k].via # 0 => calls[k].ran # <<>> /\ calls[k].body = <<>>)
  BY DEF OwnResult
<1>0. /\ TypeInv /\ StageInv /\ RefInv /\ IdInv /\ JobInv /\ TakenInv
  BY DEF Inv
<1>1. calls[k].end \in Ends /\ calls[k].id \in Ids
  BY <1>0, CallerEnd
<1>2. k = 1 => calls[k].via = 0
  BY <1>0 DEF StageInv, Keys
<1>3. calls[k].ran \in {<<>>, <<Actor(k)>>}
  BY <1>0 DEF JobInv, JobOK
<1>4. ASSUME calls[k].res = "ok"
      PROVE  calls[k].from = k /\ (calls[k].via # 0 => calls[k].ran # <<>> /\ calls[k].body = <<>>)
  <2>1. /\ calls[k].from = k /\ calls[k].id # 0
        /\ promise[calls[k].end][calls[k].id].st = "ok"
    BY <1>0, <1>4 DEF TakenInv
  <2>2. PICK j : j = promise[calls[k].end][calls[k].id].from
    OBVIOUS
  <2>3. AnswerOf(calls[k].end, calls[k].id, j)
    BY <1>0, <1>1, <2>1, <2>2 DEF TakenInv, TakenOK
  <2>4. j = k
    BY <1>0, <2>1, <2>3, SameCall DEF AnswerOf
  <2>5. k # 1 => calls[k].ran # <<>> /\ calls[k].body = <<>>
    BY <2>3, <2>4 DEF AnswerOf, Served
  <2> QED
    BY <1>2, <2>1, <2>5
<1> QED
  BY <1>3, <1>4

(* What a caller of waitForComputeFuture is handed is the result of the    *)
(* method it called, run once, whatever the program.                       *)
THEOREM OwnResultHolds == Spec => []OwnResult
BY OwnResultInv, InvHolds, PTL

(* A program that passes only actors of the client, and whose methods      *)
(* return none, has each call run at most once, on the actor its reference *)
(* was made from, and each caller get the result of its own call.          *)
THEOREM CallRoutedHolds == Spec => [](Outward => CallRouted)
<1>1. Inv => (Outward => CallRouted)
  <2> SUFFICES ASSUME Inv, Outward, NEW k \in Keys
               PROVE  /\ calls[k].ran \in {<<>>, <<Target(k)>>}
                      /\ calls[k].res = "ok" => /\ calls[k].from = k
                                                /\ calls[k].via # 0 => /\ calls[k].ran = <<Target(k)>>
                                                                       /\ calls[k].body = <<>>
    BY DEF CallRouted
  <2>0. /\ TypeInv /\ StageInv /\ RefInv /\ IdInv /\ JobInv /\ TakenInv /\ TargetInv
    BY DEF Inv
  <2>1. calls[k].end \in Ends /\ calls[k].id \in Ids
    BY <2>0, CallerEnd
  <2>2. calls[k].via = 0 => k = 1
    BY <2>0 DEF RefInv, RefOK
  <2>3. k = 1 => calls[k].via = 0 /\ calls[k].end = "C"
    BY <2>0 DEF StageInv, Keys
  <2>4. Target(k) = Actor(k)
    <3>1. CASE k = 1
      BY <2>3, <3>1 DEF Target, Actor
    <3>2. CASE k # 1
      <4>1. calls[k].via \in 1 .. Len(proxies) /\ calls[k].via # 0 /\ proxies[calls[k].via].end = calls[k].end
        BY <2>0, <2>2, <3>2 DEF RefInv, RefOK, TargetInv
      <4>2. proxies \in Seq(ProxyRec)
        BY <2>0 DEF TypeInv, OwnType
      <4>3. calls[k].via \in DOMAIN proxies
        BY <4>1, <4>2
      <4> QED
        BY <2>0, <4>1, <4>3 DEF TargetInv, Target, Actor
    <3> QED
      BY <3>1, <3>2
  <2>5. OwnResult
    BY OwnResultInv
  <2> QED
    BY <2>4, <2>5 DEF OwnResult
<1> QED
  BY <1>1, InvHolds, PTL

(* When a call has returned to the client, what its method printed, and    *)
(* what the client's own actor printed when the method called it and       *)
(* waited, has been delivered.                                             *)
THEOREM OutputFirstHolds == Spec => []OutputBeforeResult
<1>1. Inv => OutputBeforeResult
  <2> SUFFICES ASSUME Inv, NEW k \in Keys, calls[k].end = "C", calls[k].via # 0,
                      calls[k].res = "ok", phase["S"] = "open", NEW j \in printed,
                      j = k \/ (calls[j].for = k /\ calls[j].waited)
               PROVE  j \in delivered
    BY DEF OutputBeforeResult
  <2>0. /\ TypeInv /\ StageInv /\ RefInv /\ TakenInv /\ PrintInv
    BY DEF Inv
  <2>1. j \in Keys /\ PrintOK(j)
    BY <2>0 DEF PrintInv, PrintOK
  <2>2. k # 1 /\ k # 0
    BY <2>0, CallOf DEF StageInv, Keys
  <2>3. promise["C"][calls[k].id].st = "ok"
    BY <2>0 DEF TakenInv
  <2>4. CASE j = k
    <3>1. Own(j) = k
      BY <2>4 DEF Own
    <3>2. Shown(j)
      BY <2>1, <2>2, <2>4, <3>1 DEF PrintOK
    <3> QED
      BY <2>3, <3>1, <3>2 DEF Shown
  <2>5. CASE j # k /\ calls[j].for = k /\ calls[j].waited
    <3>1. calls[j].end = "C" \/ calls[j].end = "S"
      BY <2>0, <2>1, CallerEnd, EndParts
    <3>2. calls[j].end = "S" /\ calls[j].route = k
      BY <2>0, <2>1, <2>2, <2>5, <3>1 DEF RefInv, RefOK
    <3>3. Own(j) = k
      BY <3>2 DEF Own
    <3>4. Shown(j)
      BY <2>1, <2>2, <2>5, <3>2, <3>3 DEF PrintOK
    <3> QED
      BY <2>3, <3>3, <3>4 DEF Shown
  <2> QED
    BY <2>4, <2>5
<1> QED
  BY <1>1, InvHolds, PTL

=============================================================================
