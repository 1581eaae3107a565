-------------------------- MODULE ComputeCallsSteps --------------------------
(***************************************************************************)
(* The invariant of ComputeCalls, and what each of its steps does: for     *)
(* every set of programs and every bound on the ids.                       *)
(*                                                                         *)
(* A step is described once, by the lemma called after its action          *)
(* (ServeShape, ReturnCallShape, ...), in terms of the calls, proxies,     *)
(* actors, slots and frames it changes.  The parts of the invariant about  *)
(* types, stages, references, ids and slots are shown here to be kept;     *)
(* those about frames, jobs, results and prints in ComputeCallsProofs.     *)
(***************************************************************************)
EXTENDS ComputeCalls, TLAPS

-----------------------------------------------------------------------------
(* Types *)

PCs == {"queued", "ready", "entered", "wait", "done"}
Jobs == {"none", "new", "queued", "ran", "dead", "sent"}

CallRec ==
  [end : Ends, via : Nat, id : Ids, pc : PCs, res : {"none", "ok", "nil"}, from : Nat,
   arg : {"none", "L", "A"}, body : Seq(Ops), gives : BOOLEAN, wire : Nat, ref : Nat,
   gift : Nat, to : {"none", "A", "L"}, job : Jobs, ran : Seq({"A", "L"}), route : Nat,
   for : Nat, last : Nat, waited : BOOLEAN]

ProxyRec == [end : Ends, aid : Nat \ {0}, target : {"none", "L", "A", "X"},
             st : {"up", "exited", "gone"}]

ActorRec == [st : {"none", "up", "quit", "exited"}, q : Seq(Nat), cur : Nat]

Promise == [st : {"none", "ok", "err"}, from : Nat]

Greetings == [t : {"hello", "helloOk", "helloErr"}]
Requests == [t : {"spawn", "call"}, id : Ids, aid : Nat, ref : Nat, k : Nat]
Results == [t : {"result"}, id : Ids, k : Nat, ref : Nat, st : {"ok", "err"}]
Outputs == [t : {"out"}, id : Ids, k : Nat]
Frames == Greetings \cup Requests \cup Results \cup Outputs

LinkType ==
  /\ proc \in [Ends -> {"up", "crashed", "terminated"}]
  /\ phase \in [Ends -> {"open", "marked", "shut", "closed"}]
  /\ net \in [Ends -> Seq(Frames)]
  /\ nextId \in [Ends -> 1 .. MaxId + 1]
  /\ pending \in [Ends -> SUBSET Ids]
  /\ promise \in [Ends -> [Ids -> Promise]]

OwnType ==
  /\ world \in Worlds
  /\ main \in {"start", "slot", "future", "hello", "spawning", "running", "failed"}
  /\ session \in {"hello", "loop", "cleanup", "done"}
  /\ registry \in BOOLEAN
  /\ locals \in [Ends -> Seq({"L", "X"})]
  /\ proxies \in Seq(ProxyRec)
  /\ calls \in Seq(CallRec)
  /\ actors \in [{"A", "L", "X"} -> ActorRec]
  /\ kept \in Nat
  /\ left \in Nat

TypeInv == LinkType /\ OwnType

-----------------------------------------------------------------------------
(* Stages and references *)

(* The script before, in and after `T() at host`. *)
StageInv ==
  /\ main \in {"start", "slot", "future", "hello"} => calls = <<>> /\ nextId["C"] = 1
  /\ main \in {"start", "slot"} => promise["C"][0].st = "none" /\ 0 \notin pending["C"]
  /\ main # "running" => Len(calls) <= 1 /\ proxies = <<>>
  /\ main = "running" => Len(proxies) >= 1
  /\ calls # <<>> /\ calls[1].pc # "done" => main = "spawning"
  /\ calls # <<>> => /\ calls[1].via = 0 /\ calls[1].end = "C" /\ calls[1].to = "A"
                     /\ calls[1].id # 0 /\ calls[1].pc # "queued"
  /\ kept <= Len(proxies)
  /\ \A i \in DOMAIN locals["C"] : locals["C"][i] = "L"

(* What a call refers to. *)
RefOK(k) ==
  /\ k # 1 => calls[k].via \in 1 .. Len(proxies)
  /\ calls[k].end = "C" => calls[k].route = 0 /\ calls[k].for = 0
  /\ calls[k].end = "S" => /\ calls[k].route \in Keys /\ calls[k].for = calls[k].route
                           /\ calls[calls[k].route].end = "C"
                           /\ calls[calls[k].route].ran # <<>>
  /\ calls[k].last # 0 => /\ calls[k].last \in Keys /\ calls[calls[k].last].end = "S"
                          /\ calls[calls[k].last].route = k
  /\ calls[k].ref <= Len(proxies) /\ calls[k].gift <= Len(proxies)
  /\ k = 1 \/ calls[k].end = "S" => ~calls[k].gives
  /\ calls[k].gift # 0 => calls[k].gives

RefInv == \A k \in Keys : RefOK(k)

(* The ids of calls, the table and the promises. *)
IdOK(k) ==
  /\ calls[k].id < nextId[calls[k].end]
  /\ calls[k].pc = "queued" => calls[k].id = 0
  /\ calls[k].pc \in {"ready", "entered", "wait"} => calls[k].id # 0
  /\ calls[k].pc = "ready" => /\ calls[k].id \notin pending[calls[k].end]
                              /\ promise[calls[k].end][calls[k].id].st = "none"
  /\ \A j \in Keys : calls[j].end = calls[k].end /\ calls[j].id = calls[k].id /\ calls[k].id # 0
                       => j = k

IdInv == \A k \in Keys : IdOK(k)

SlotOK(e, i) ==
  /\ i \in pending[e] => /\ i < nextId[e] /\ promise[e][i].st = "none"
                         /\ i # 0 => \E k \in Keys : calls[k].end = e /\ calls[k].id = i
  /\ promise[e][i].st # "none" => i < nextId[e]

SlotInv == \A e \in Ends, i \in Ids : SlotOK(e, i)

(* A call that has been entered is in the table or has been answered. *)
Answerable(k) ==
  calls[k].pc \in {"entered", "wait"} =>
    \/ calls[k].id \in pending[calls[k].end]
    \/ promise[calls[k].end][calls[k].id].st # "none"

AnswerInv == \A k \in Keys : Answerable(k)

-----------------------------------------------------------------------------
(* A call is in one place *)

IsRequest(f) == f.t \in {"spawn", "call"}

(* Its method has run to its end and its answer has been sent. *)
Served(k) == k = 1 \/ (calls[k].job = "sent" /\ calls[k].ran # <<>> /\ calls[k].body = <<>>)

RequestOK(e, f) ==
  /\ f.k \in Keys /\ calls[f.k].end = Peer(e) /\ f.id = calls[f.k].id /\ f.id # 0
  /\ f.t = "spawn" <=> f.k = 1
  /\ f.k # 1 => f.aid # 0
  /\ calls[f.k].job = "none" /\ calls[f.k].ran = <<>> /\ calls[f.k].pc \in {"wait", "done"}
  /\ promise[Peer(e)][f.id].st = "none" => calls[f.k].pc = "wait"

ResultOK(e, f) ==
  /\ f.k \in Keys /\ calls[f.k].end = e /\ f.id = calls[f.k].id /\ f.id # 0
  /\ calls[f.k].pc \in {"wait", "done"}
  /\ f.ref # 0 => calls[f.k].gives
  /\ f.k # 1 => calls[f.k].job \in {"none", "sent"}
  /\ f.st = "ok" => Served(f.k)

Own(k) == IF calls[k].end = "C" THEN k ELSE calls[k].route

OutOK(e, f) ==
  /\ f.k \in Keys /\ f.id # 0
  /\ e = "S" => calls[f.k].end = "S" /\ f.id = calls[f.k].id
  /\ e = "C" => f.id = calls[Own(f.k)].id

FrameOK(e, f) ==
  /\ IsRequest(f) => RequestOK(e, f)
  /\ f.t = "result" => ResultOK(e, f)
  /\ f.t = "out" => OutOK(e, f)

FrameInv == \A e \in Ends : \A i \in DOMAIN net[e] : FrameOK(e, net[e][i])

(* A request is under way once. *)
OnceInv ==
  \A e \in Ends : \A i, j \in DOMAIN net[e] :
    IsRequest(net[e][i]) /\ IsRequest(net[e][j]) /\ net[e][i].k = net[e][j].k => i = j

(* It is answered after it has been read. *)
ApartInv ==
  \A e, d \in Ends : \A i \in DOMAIN net[e], j \in DOMAIN net[d] :
    IsRequest(net[e][i]) /\ net[d][j].t = "result" => net[e][i].k # net[d][j].k

(* A request under way, or not yet sent: A has not been started. *)
Unspawned ==
  \/ calls = <<>>
  \/ calls[1].pc \in {"ready", "entered"}
  \/ \E i \in DOMAIN net["S"] : net["S"][i].t = "spawn"

SpawnInv ==
  Unspawned => /\ Len(calls) <= 1
               /\ actors["A"].q = <<>> /\ actors["A"].cur = 0
               /\ calls # <<>> => /\ promise["C"][calls[1].id].st # "ok"
                                  /\ calls[1].job = "none" /\ calls[1].ran = <<>>

(* What has become of a call at the end it is made to. *)
Actor(k) == IF calls[k].end = "C" THEN "A" ELSE "L"

JobOK(k) ==
  /\ calls[k].ran \in {<<>>, <<Actor(k)>>}
  /\ k # 1 /\ calls[k].job # "none" => /\ calls[k].to = Actor(k)
                                       /\ calls[k].id # 0
                                       /\ calls[k].pc \in {"wait", "done"}
  /\ k # 1 /\ calls[k].job \in {"none", "new", "dead"} => calls[k].ran = <<>>
  /\ calls[k].job = "ran" => calls[k].ran # <<>> /\ calls[k].body = <<>>
  /\ k = 1 => calls[k].job \in {"none", "sent"}
  /\ k # 1 /\ calls[k].pc \in {"queued", "ready", "entered"} => calls[k].job = "none"
  /\ calls[k].job # "none" /\ promise[calls[k].end][calls[k].id].st = "none" /\ k # 1 =>
       calls[k].pc = "wait"

JobInv == \A k \in Keys : JobOK(k)

InHand(k, a) ==
  /\ k \in Keys /\ Actor(k) = a
  /\ calls[k].job = IF k = 1 THEN "none" ELSE "queued"

QueueOK(a) ==
  /\ \A i \in DOMAIN actors[a].q : InHand(actors[a].q[i], a) /\ calls[actors[a].q[i]].ran = <<>>
  /\ \A i, j \in DOMAIN actors[a].q : actors[a].q[i] = actors[a].q[j] => i = j
  /\ actors[a].cur # 0 => InHand(actors[a].cur, a) /\ calls[actors[a].cur].ran = <<a>>

QueueInv == \A a \in {"A", "L"} : QueueOK(a)

(* An answer taken is that of the call. *)
AnswerOf(e, i, k) == k \in Keys /\ calls[k].end = e /\ calls[k].id = i /\ Served(k)

TakenOK(e, i) == promise[e][i].st = "ok" /\ i # 0 => AnswerOf(e, i, promise[e][i].from)

TakenInv ==
  /\ \A e \in Ends, i \in Ids : TakenOK(e, i)
  /\ \A k \in Keys : calls[k].res = "ok" => /\ calls[k].from = k /\ calls[k].id # 0
                                            /\ calls[k].pc = "done"
                                            /\ promise[calls[k].end][calls[k].id].st = "ok"

-----------------------------------------------------------------------------
(* Targets, for programs whose references do not come home *)

Outward == \A i \in DOMAIN world.script :
             world.script[i].arg # "A" /\ ~world.script[i].gives

TargetInv ==
  Outward =>
    /\ locals["S"] = <<>>
    /\ \A p \in DOMAIN proxies : /\ proxies[p].target = IF proxies[p].end = "C" THEN "A" ELSE "L"
                                 /\ proxies[p].end = "C" => proxies[p].aid = 1
    /\ \A k \in Keys : /\ calls[k].arg # "A" /\ ~calls[k].gives /\ calls[k].gift = 0
                       /\ calls[k].arg # "L" => calls[k].wire = 0
                       /\ k # 1 => proxies[calls[k].via].end = calls[k].end
                       /\ calls[k].ref # 0 => proxies[calls[k].ref].end = "S"
    /\ kept # 0 => proxies[kept].end = "S"
    /\ \A e \in Ends : \A i \in DOMAIN net[e] :
         /\ net[e][i].t = "result" => net[e][i].ref = 0
         /\ net[e][i].t = "call" => net[e][i].ref = calls[net[e][i].k].wire

-----------------------------------------------------------------------------
(* What has been printed arrives first *)

Ahead(s, j, i, o) ==
  \E p \in DOMAIN s :
    /\ s[p].t = "out" /\ s[p].k = j /\ s[p].id = i
    /\ \A q \in 1 .. p : ~(s[q].t = "result" /\ s[q].k = o)

Deaf == ~Up("C") \/ phase["C"] # "open"

(* It has been delivered, or its call will not return with a result before. *)
Shown(j) ==
  \/ j \in delivered
  \/ /\ promise["C"][calls[Own(j)].id].st # "ok"
     /\ \/ Deaf
        \/ promise["C"][calls[Own(j)].id].st = "err"
        \/ Ahead(net["C"], j, calls[Own(j)].id, Own(j))

(* It is on its way to the server, and its call has not returned. *)
Relayed(j) ==
  /\ calls[j].pc = "wait" /\ promise["S"][calls[j].id].st = "none"
  /\ Ahead(net["S"], j, calls[j].id, j)

PrintOK(j) ==
  /\ j \in Keys /\ calls[j].ran # <<>>
  /\ phase["S"] = "open" /\ Own(j) # 1 =>
       /\ calls[j].end = "C" => Shown(j)
       /\ calls[j].end = "S" /\ (calls[j].waited \/ actors["A"].cur = Own(j)) =>
            Shown(j) \/ (~calls[j].waited /\ Relayed(j))

PrintInv == \A j \in printed : PrintOK(j)

(* A back-channel call that has been answered has been served. *)
BackOK(k) ==
  calls[k].end = "S" =>
    /\ \A i \in DOMAIN net["S"] : net["S"][i].t = "result" /\ net["S"][i].k = k => calls[k].job = "sent"
    /\ calls[k].id # 0 /\ promise["S"][calls[k].id].st # "none" /\ phase["S"] = "open" =>
         calls[k].job = "sent"
    /\ calls[k].waited => calls[k].pc = "done"

BackInv == \A k \in Keys : BackOK(k)

(* A process that is gone has no connection. *)
DownInv == \A e \in Ends : phase[e] = "open" => Up(e)

Inv ==
  /\ TypeInv /\ StageInv /\ RefInv /\ IdInv /\ SlotInv /\ AnswerInv
  /\ FrameInv /\ OnceInv /\ ApartInv /\ SpawnInv /\ JobInv /\ QueueInv /\ TakenInv
  /\ TargetInv /\ BackInv /\ DownInv /\ PrintInv

-----------------------------------------------------------------------------
(* Calls and their fields *)

Fields ==
  {"end", "via", "id", "pc", "res", "from", "arg", "body", "gives", "wire", "ref", "gift", "to",
   "job", "ran", "route", "for", "last", "waited"}

(* Of call k only the fields F have changed, and nothing of another call. *)
Changed(s, t, k, F) ==
  /\ k \in DOMAIN s
  /\ t \in Seq(CallRec) /\ Len(t) = Len(s) /\ DOMAIN t = DOMAIN s
  /\ \A j \in DOMAIN s : j # k => t[j] = s[j]
  /\ \A f \in Fields \ F : t[k][f] = s[k][f]

(* The types of a call. *)
LEMMA CallType ==
  ASSUME NEW c \in CallRec
  PROVE  /\ c.end \in Ends /\ c.via \in Nat /\ c.id \in Ids /\ c.pc \in PCs
         /\ c.res \in {"none", "ok", "nil"} /\ c.from \in Nat /\ c.arg \in {"none", "L", "A"}
         /\ c.body \in Seq(Ops) /\ c.gives \in BOOLEAN /\ c.wire \in Nat /\ c.ref \in Nat
         /\ c.gift \in Nat /\ c.to \in {"none", "A", "L"} /\ c.job \in Jobs
         /\ c.ran \in Seq({"A", "L"}) /\ c.route \in Nat /\ c.for \in Nat /\ c.last \in Nat
         /\ c.waited \in BOOLEAN
BY DEF CallRec

(* A call of the list is a call. *)
LEMMA CallOf ==
  ASSUME TypeInv, NEW k \in Keys
  PROVE  calls[k] \in CallRec /\ k \in Nat \ {0} /\ k <= Len(calls) /\ Len(calls) \in Nat
BY DEF TypeInv, OwnType, Keys

(* The list of calls. *)
LEMMA ListOf ==
  ASSUME TypeInv
  PROVE  calls \in Seq(CallRec) /\ Len(calls) \in Nat /\ Keys = 1 .. Len(calls)
BY DEF TypeInv, OwnType, Keys

(* One call is replaced. *)
LEMMA PutCall ==
  ASSUME NEW s \in Seq(CallRec), NEW k \in DOMAIN s, NEW d \in CallRec, NEW F,
         \A f \in Fields \ F : d[f] = s[k][f], NEW t, t = [s EXCEPT ![k] = d]
  PROVE  Changed(s, t, k, F) /\ t[k] = d
<1>1. t \in Seq(CallRec) /\ Len(t) = Len(s) /\ DOMAIN t = DOMAIN s /\ t[k] = d
  OBVIOUS
<1>2. \A j \in DOMAIN s : j # k => t[j] = s[j]
  OBVIOUS
<1> QED
  BY <1>1, <1>2, Zenon DEF Changed

(* The call moves on. *)
WithPc(s, k, p) == [s EXCEPT ![k].pc = p]

(* A call record with another pc. *)
LEMMA SetPc ==
  ASSUME NEW s \in Seq(CallRec), NEW k \in DOMAIN s, NEW p \in PCs,
         NEW t, t = WithPc(s, k, p)
  PROVE  Changed(s, t, k, {"pc"}) /\ t[k].pc = p
<1> DEFINE c == s[k]
           d == [c EXCEPT !.pc = p]
<1>1. t = [s EXCEPT ![k] = d]
  BY Zenon DEF WithPc
<1>2. c \in CallRec
  OBVIOUS
<1>3. d \in CallRec
  BY <1>2 DEF CallRec, PCs, Jobs
<1>4. d.pc = p
  BY <1>2 DEF CallRec
<1>5. \A f \in Fields \ {"pc"} : d[f] = c[f]
  BY <1>2 DEF CallRec, Fields
<1> HIDE DEF d
<1>6. Changed(s, t, k, {"pc"}) /\ t[k] = d
  BY <1>1, <1>3, <1>5, PutCall
<1> QED
  BY <1>4, <1>6, Zenon

(* The call is given its id. *)
WithTaken(s, k, i, w) == [s EXCEPT ![k].pc = "ready", ![k].id = i, ![k].wire = w]

(* ... that has been given its id. *)
LEMMA SetTaken ==
  ASSUME NEW s \in Seq(CallRec), NEW k \in DOMAIN s, NEW i \in Ids, NEW w \in Nat,
         NEW t, t = WithTaken(s, k, i, w)
  PROVE  Changed(s, t, k, {"pc", "id", "wire"}) /\ t[k].pc = "ready" /\ t[k].id = i /\ t[k].wire = w
<1> DEFINE c == s[k]
           d == [c EXCEPT !.pc = "ready", !.id = i, !.wire = w]
<1>1. t = [s EXCEPT ![k] = d]
  BY Zenon DEF WithTaken
<1>2. c \in CallRec
  OBVIOUS
<1>3. d \in CallRec
  BY <1>2 DEF CallRec, PCs, Jobs
<1>4. d.pc = "ready" /\ d.id = i /\ d.wire = w
  BY <1>2 DEF CallRec
<1>5. \A f \in Fields \ {"pc", "id", "wire"} : d[f] = c[f]
  BY <1>2 DEF CallRec, Fields
<1> HIDE DEF d
<1>6. Changed(s, t, k, {"pc", "id", "wire"}) /\ t[k] = d
  BY <1>1, <1>3, <1>5, PutCall
<1> QED
  BY <1>4, <1>6, Zenon

(* The call has returned with a result. *)
WithReturned(s, k, n) == [s EXCEPT ![k].pc = "done", ![k].res = "ok", ![k].from = n]

(* ... that has returned with a result. *)
LEMMA SetReturned ==
  ASSUME NEW s \in Seq(CallRec), NEW k \in DOMAIN s, NEW n \in Nat,
         NEW t, t = WithReturned(s, k, n)
  PROVE  Changed(s, t, k, {"pc", "res", "from"}) /\ t[k].pc = "done" /\ t[k].res = "ok" /\ t[k].from = n
<1> DEFINE c == s[k]
           d == [c EXCEPT !.pc = "done", !.res = "ok", !.from = n]
<1>1. t = [s EXCEPT ![k] = d]
  BY Zenon DEF WithReturned
<1>2. c \in CallRec
  OBVIOUS
<1>3. d \in CallRec
  BY <1>2 DEF CallRec, PCs, Jobs
<1>4. d.pc = "done" /\ d.res = "ok" /\ d.from = n
  BY <1>2 DEF CallRec
<1>5. \A f \in Fields \ {"pc", "res", "from"} : d[f] = c[f]
  BY <1>2 DEF CallRec, Fields
<1> HIDE DEF d
<1>6. Changed(s, t, k, {"pc", "res", "from"}) /\ t[k] = d
  BY <1>1, <1>3, <1>5, PutCall
<1> QED
  BY <1>4, <1>6, Zenon

(* The call moves on where it is served. *)
WithJob(s, k, x) == [s EXCEPT ![k].job = x]

(* ... whose job has gone on. *)
LEMMA SetJob ==
  ASSUME NEW s \in Seq(CallRec), NEW k \in DOMAIN s, NEW x \in Jobs,
         NEW t, t = WithJob(s, k, x)
  PROVE  Changed(s, t, k, {"job"}) /\ t[k].job = x
<1> DEFINE c == s[k]
           d == [c EXCEPT !.job = x]
<1>1. t = [s EXCEPT ![k] = d]
  BY Zenon DEF WithJob
<1>2. c \in CallRec
  OBVIOUS
<1>3. d \in CallRec
  BY <1>2 DEF CallRec, PCs, Jobs
<1>4. d.job = x
  BY <1>2 DEF CallRec
<1>5. \A f \in Fields \ {"job"} : d[f] = c[f]
  BY <1>2 DEF CallRec, Fields
<1> HIDE DEF d
<1>6. Changed(s, t, k, {"job"}) /\ t[k] = d
  BY <1>1, <1>3, <1>5, PutCall
<1> QED
  BY <1>4, <1>6, Zenon

(* The call is read by the server. *)
WithServed(s, k, r) == [s EXCEPT ![k].job = "new", ![k].to = "A", ![k].ref = r]

(* ... that A has been given. *)
LEMMA SetServed ==
  ASSUME NEW s \in Seq(CallRec), NEW k \in DOMAIN s, NEW r \in Nat,
         NEW t, t = WithServed(s, k, r)
  PROVE  Changed(s, t, k, {"job", "to", "ref"}) /\ t[k].job = "new" /\ t[k].to = "A" /\ t[k].ref = r
<1> DEFINE c == s[k]
           d == [c EXCEPT !.job = "new", !.to = "A", !.ref = r]
<1>1. t = [s EXCEPT ![k] = d]
  BY Zenon DEF WithServed
<1>2. c \in CallRec
  OBVIOUS
<1>3. d \in CallRec
  BY <1>2 DEF CallRec, PCs, Jobs
<1>4. d.job = "new" /\ d.to = "A" /\ d.ref = r
  BY <1>2 DEF CallRec
<1>5. \A f \in Fields \ {"job", "to", "ref"} : d[f] = c[f]
  BY <1>2 DEF CallRec, Fields
<1> HIDE DEF d
<1>6. Changed(s, t, k, {"job", "to", "ref"}) /\ t[k] = d
  BY <1>1, <1>3, <1>5, PutCall
<1> QED
  BY <1>4, <1>6, Zenon

(* The call is read by the client. *)
WithReferred(s, k, a) == [s EXCEPT ![k].job = "new", ![k].to = a]

(* ... that the client's actor has been given. *)
LEMMA SetReferred ==
  ASSUME NEW s \in Seq(CallRec), NEW k \in DOMAIN s, NEW a \in {"A", "L"},
         NEW t, t = WithReferred(s, k, a)
  PROVE  Changed(s, t, k, {"job", "to"}) /\ t[k].job = "new" /\ t[k].to = a
<1> DEFINE c == s[k]
           d == [c EXCEPT !.job = "new", !.to = a]
<1>1. t = [s EXCEPT ![k] = d]
  BY Zenon DEF WithReferred
<1>2. c \in CallRec
  OBVIOUS
<1>3. d \in CallRec
  BY <1>2 DEF CallRec, PCs, Jobs
<1>4. d.job = "new" /\ d.to = a
  BY <1>2 DEF CallRec
<1>5. \A f \in Fields \ {"job", "to"} : d[f] = c[f]
  BY <1>2 DEF CallRec, Fields
<1> HIDE DEF d
<1>6. Changed(s, t, k, {"job", "to"}) /\ t[k] = d
  BY <1>1, <1>3, <1>5, PutCall
<1> QED
  BY <1>4, <1>6, Zenon

(* A reference in the result of the call. *)
WithGift(s, k, g) == [s EXCEPT ![k].gift = g]

(* ... whose result holds a reference. *)
LEMMA SetGift ==
  ASSUME NEW s \in Seq(CallRec), NEW k \in DOMAIN s, NEW g \in Nat,
         NEW t, t = WithGift(s, k, g)
  PROVE  Changed(s, t, k, {"gift"}) /\ t[k].gift = g
<1> DEFINE c == s[k]
           d == [c EXCEPT !.gift = g]
<1>1. t = [s EXCEPT ![k] = d]
  BY Zenon DEF WithGift
<1>2. c \in CallRec
  OBVIOUS
<1>3. d \in CallRec
  BY <1>2 DEF CallRec, PCs, Jobs
<1>4. d.gift = g
  BY <1>2 DEF CallRec
<1>5. \A f \in Fields \ {"gift"} : d[f] = c[f]
  BY <1>2 DEF CallRec, Fields
<1> HIDE DEF d
<1>6. Changed(s, t, k, {"gift"}) /\ t[k] = d
  BY <1>1, <1>3, <1>5, PutCall
<1> QED
  BY <1>4, <1>6, Zenon

(* The call has been begun. *)
WithRan(s, k, r) == [s EXCEPT ![k].ran = r]

(* ... whose method has begun. *)
LEMMA SetRan ==
  ASSUME NEW s \in Seq(CallRec), NEW k \in DOMAIN s, NEW r \in Seq({"A", "L"}),
         NEW t, t = WithRan(s, k, r)
  PROVE  Changed(s, t, k, {"ran"}) /\ t[k].ran = r
<1> DEFINE c == s[k]
           d == [c EXCEPT !.ran = r]
<1>1. t = [s EXCEPT ![k] = d]
  BY Zenon DEF WithRan
<1>2. c \in CallRec
  OBVIOUS
<1>3. d \in CallRec
  BY <1>2 DEF CallRec, PCs, Jobs
<1>4. d.ran = r
  BY <1>2 DEF CallRec
<1>5. \A f \in Fields \ {"ran"} : d[f] = c[f]
  BY <1>2 DEF CallRec, Fields
<1> HIDE DEF d
<1>6. Changed(s, t, k, {"ran"}) /\ t[k] = d
  BY <1>1, <1>3, <1>5, PutCall
<1> QED
  BY <1>4, <1>6, Zenon

(* A step of its method. *)
WithBody(s, k, b) == [s EXCEPT ![k].body = b]

(* ... whose method has gone on. *)
LEMMA SetBody ==
  ASSUME NEW s \in Seq(CallRec), NEW k \in DOMAIN s, NEW b \in Seq(Ops),
         NEW t, t = WithBody(s, k, b)
  PROVE  Changed(s, t, k, {"body"}) /\ t[k].body = b
<1> DEFINE c == s[k]
           d == [c EXCEPT !.body = b]
<1>1. t = [s EXCEPT ![k] = d]
  BY Zenon DEF WithBody
<1>2. c \in CallRec
  OBVIOUS
<1>3. d \in CallRec
  BY <1>2 DEF CallRec, PCs, Jobs
<1>4. d.body = b
  BY <1>2 DEF CallRec
<1>5. \A f \in Fields \ {"body"} : d[f] = c[f]
  BY <1>2 DEF CallRec, Fields
<1> HIDE DEF d
<1>6. Changed(s, t, k, {"body"}) /\ t[k] = d
  BY <1>1, <1>3, <1>5, PutCall
<1> QED
  BY <1>4, <1>6, Zenon

(* Its method has made a call. *)
WithLast(s, k, n) == [s EXCEPT ![k].last = n]

(* ... whose method has called. *)
LEMMA SetLast ==
  ASSUME NEW s \in Seq(CallRec), NEW k \in DOMAIN s, NEW n \in Nat,
         NEW t, t = WithLast(s, k, n)
  PROVE  Changed(s, t, k, {"last"}) /\ t[k].last = n
<1> DEFINE c == s[k]
           d == [c EXCEPT !.last = n]
<1>1. t = [s EXCEPT ![k] = d]
  BY Zenon DEF WithLast
<1>2. c \in CallRec
  OBVIOUS
<1>3. d \in CallRec
  BY <1>2 DEF CallRec, PCs, Jobs
<1>4. d.last = n
  BY <1>2 DEF CallRec
<1>5. \A f \in Fields \ {"last"} : d[f] = c[f]
  BY <1>2 DEF CallRec, Fields
<1> HIDE DEF d
<1>6. Changed(s, t, k, {"last"}) /\ t[k] = d
  BY <1>1, <1>3, <1>5, PutCall
<1> QED
  BY <1>4, <1>6, Zenon

(* It has been awaited. *)
WithWaited(s, k) == [s EXCEPT ![k].waited = TRUE]

(* ... that has been waited for. *)
LEMMA SetWaited ==
  ASSUME NEW s \in Seq(CallRec), NEW k \in DOMAIN s,
         NEW t, t = WithWaited(s, k)
  PROVE  Changed(s, t, k, {"waited"}) /\ t[k].waited = TRUE
<1> DEFINE c == s[k]
           d == [c EXCEPT !.waited = TRUE]
<1>1. t = [s EXCEPT ![k] = d]
  BY Zenon DEF WithWaited
<1>2. c \in CallRec
  OBVIOUS
<1>3. d \in CallRec
  BY <1>2 DEF CallRec, PCs, Jobs
<1>4. d.waited = TRUE
  BY <1>2 DEF CallRec
<1>5. \A f \in Fields \ {"waited"} : d[f] = c[f]
  BY <1>2 DEF CallRec, Fields
<1> HIDE DEF d
<1>6. Changed(s, t, k, {"waited"}) /\ t[k] = d
  BY <1>1, <1>3, <1>5, PutCall
<1> QED
  BY <1>4, <1>6, Zenon

(* A call is added at the end. *)
LEMMA AddCall ==
  ASSUME NEW s \in Seq(CallRec), NEW c \in CallRec
  PROVE  /\ Append(s, c) \in Seq(CallRec) /\ Len(Append(s, c)) = Len(s) + 1
         /\ DOMAIN Append(s, c) = 1 .. Len(s) + 1 /\ Len(s) \in Nat
         /\ \A j \in DOMAIN s : Append(s, c)[j] = s[j]
         /\ Append(s, c)[Len(s) + 1] = c
OBVIOUS

(* A new call. *)
LEMMA NewType ==
  ASSUME NEW m \in Methods, NEW e \in Ends, NEW v \in Nat, NEW n \in Nat
  PROVE  /\ NewCall(e, v, m, n) \in CallRec
         /\ NewCall(e, v, m, n).end = e /\ NewCall(e, v, m, n).via = v
         /\ NewCall(e, v, m, n).id = 0 /\ NewCall(e, v, m, n).pc = "queued"
         /\ NewCall(e, v, m, n).res = "none" /\ NewCall(e, v, m, n).arg = m.arg
         /\ NewCall(e, v, m, n).gives = m.gives /\ NewCall(e, v, m, n).wire = 0
         /\ NewCall(e, v, m, n).ref = 0 /\ NewCall(e, v, m, n).gift = 0
         /\ NewCall(e, v, m, n).job = "none" /\ NewCall(e, v, m, n).ran = <<>>
         /\ NewCall(e, v, m, n).route = n /\ NewCall(e, v, m, n).for = n
         /\ NewCall(e, v, m, n).last = 0 /\ NewCall(e, v, m, n).waited = FALSE
<1>1. <<>> \in Seq({"A", "L"})
  OBVIOUS
<1>2. m.arg \in {"none", "L", "A"} /\ m.body \in Seq(Ops) /\ m.gives \in BOOLEAN
  BY DEF Methods
<1>3. 0 \in Ids
  BY LinkAssumption DEF Ids
<1>4. NewCall(e, v, m, n) \in CallRec
  BY <1>1, <1>2, <1>3 DEF NewCall, CallRec, PCs, Jobs
<1> QED
  BY <1>4 DEF NewCall

(* The programs. *)
LEMMA ProgramType ==
  ASSUME TypeInv
  PROVE  /\ world.script \in Seq(Methods) /\ world.init \in Seq(Ops)
         /\ world.answer \in Seq({"print"})
BY CallsAssumption DEF TypeInv, OwnType

(* The methods made here. *)
LEMMA PlainType ==
  ASSUME NEW b \in Seq(Ops)
  PROVE  /\ Plain \in Methods /\ [Plain EXCEPT !.body = b] \in Methods
         /\ Plain.arg = "none" /\ Plain.gives = FALSE
         /\ [Plain EXCEPT !.body = b].arg = "none" /\ [Plain EXCEPT !.body = b].gives = FALSE
<1>1. <<>> \in Seq(Ops)
  OBVIOUS
<1> QED
  BY <1>1 DEF Plain, Methods

(* What the client's actor does when called is part of what a method may   *)
(* do.                                                                     *)
LEMMA AnswerType ==
  ASSUME NEW b \in Seq({"print"})
  PROVE  b \in Seq(Ops)
BY DEF Ops

(* Call k has thrown; the calls queued behind it go with it. *)
Gone(k, j) == j = k \/ (calls[k].via # 0 /\ calls[j].via = calls[k].via /\ calls[j].pc = "queued")

(* The calls after one has thrown: it and those queued behind it end with  *)
(* nil.                                                                    *)
LEMMA FailedCalls ==
  ASSUME TypeInv, NEW k \in Keys, Failed(k)
  PROVE  /\ calls' \in Seq(CallRec) /\ Len(calls') = Len(calls)
         /\ \A j \in Keys : ~Gone(k, j) => calls'[j] = calls[j]
         /\ \A j \in Keys : Gone(k, j) =>
              /\ calls'[j].pc = "done" /\ calls'[j].res = "nil"
              /\ \A f \in Fields \ {"pc", "res"} : calls'[j][f] = calls[j][f]
<1> DEFINE d(j) == [calls[j] EXCEPT !.pc = "done", !.res = "nil"]
<1>1. calls' = [j \in Keys |-> IF Gone(k, j) THEN d(j) ELSE calls[j]]
  BY ZenonT(120) DEF Failed, Gone
<1>2. ASSUME NEW j \in Keys PROVE /\ calls[j] \in CallRec /\ d(j) \in CallRec
                                  /\ d(j).pc = "done" /\ d(j).res = "nil"
                                  /\ \A f \in Fields \ {"pc", "res"} : d(j)[f] = calls[j][f]
  <2>1. calls[j] \in CallRec
    BY CallOf
  <2>2. d(j) \in CallRec
    BY <2>1 DEF CallRec, PCs
  <2>3. d(j).pc = "done" /\ d(j).res = "nil"
    BY <2>1 DEF CallRec
  <2>4. \A f \in Fields \ {"pc", "res"} : d(j)[f] = calls[j][f]
    BY <2>1 DEF CallRec, Fields
  <2> QED
    BY <2>1, <2>2, <2>3, <2>4
<1> HIDE DEF d
<1>3. Keys = 1 .. Len(calls) /\ Len(calls) \in Nat
  BY ListOf
<1>4. \A j \in Keys : calls'[j] = IF Gone(k, j) THEN d(j) ELSE calls[j]
  BY <1>1
<1>5. calls' \in [1 .. Len(calls) -> CallRec]
  BY <1>1, <1>2, <1>3
<1>6. calls' \in Seq(CallRec) /\ Len(calls') = Len(calls)
  BY <1>3, <1>5
<1> QED
  BY <1>2, <1>4, <1>6

-----------------------------------------------------------------------------
(* Ends, frames and slots *)

(* The two ends. *)
LEMMA EndParts ==
  /\ "C" \in Ends /\ "S" \in Ends /\ Peer("C") = "S" /\ Peer("S") = "C"
  /\ \A e \in Ends : (e = "C" \/ e = "S") /\ Peer(e) \in Ends /\ Peer(e) # e /\ Peer(Peer(e)) = e
BY DEF Ends, Peer

(* A frame is of the kind it names. *)
LEMMA FrameKind ==
  ASSUME NEW f \in Frames
  PROVE  /\ f.t \in {"hello", "helloOk", "helloErr", "spawn", "call", "result", "out"}
         /\ f.t \in {"spawn", "call"} => f \in Requests
         /\ f.t = "result" => f \in Results
         /\ f.t = "out" => f \in Outputs
BY DEF Frames, Greetings, Requests, Results, Outputs

(* The members of a frame. *)
LEMMA FrameFields ==
  ASSUME NEW f \in Frames
  PROVE  /\ IsRequest(f) => f.id \in Ids /\ f.aid \in Nat /\ f.ref \in Nat /\ f.k \in Nat
         /\ f.t = "result" => /\ f.id \in Ids /\ f.ref \in Nat /\ f.k \in Nat
                              /\ f.st \in {"ok", "err"}
         /\ f.t = "out" => f.id \in Ids /\ f.k \in Nat
BY FrameKind DEF IsRequest, Requests, Results, Outputs

(* The frames under way. *)
LEMMA NetType ==
  ASSUME TypeInv, NEW e \in Ends
  PROVE  /\ net[e] \in Seq(Frames) /\ Len(net[e]) \in Nat /\ DOMAIN net[e] = 1 .. Len(net[e])
         /\ \A i \in DOMAIN net[e] : net[e][i] \in Frames
BY DEF TypeInv, LinkType

(* The first frame has been read. *)
LEMMA ReadFrame ==
  ASSUME TypeInv, NEW e \in Ends, net[e] # <<>>
  PROVE  /\ Rest(e) \in [Ends -> Seq(Frames)] /\ Rest(e)[e] = Tail(net[e])
         /\ Rest(e)[Peer(e)] = net[Peer(e)]
         /\ Head(net[e]) = net[e][1] /\ 1 \in DOMAIN net[e] /\ net[e][1] \in Frames
<1>1. net \in [Ends -> Seq(Frames)]
  BY DEF TypeInv, LinkType
<1>2. Tail(net[e]) \in Seq(Frames)
  BY <1>1
<1>3. Rest(e) \in [Ends -> Seq(Frames)] /\ Rest(e)[e] = Tail(net[e]) /\ Rest(e)[Peer(e)] = net[Peer(e)]
  BY <1>1, <1>2, EndParts DEF Rest
<1>4. Head(net[e]) = net[e][1] /\ 1 \in DOMAIN net[e] /\ net[e][1] \in Frames
  BY <1>1
<1> QED
  BY <1>3, <1>4

(* A frame is sent, or it is lost. *)
LEMMA SendFrame ==
  ASSUME NEW n \in [Ends -> Seq(Frames)], NEW e \in Ends, NEW f \in Frames, NEW ok \in BOOLEAN,
         Sends(n, e, f, ok)
  PROVE  /\ net' \in [Ends -> Seq(Frames)] /\ net'[e] = n[e]
         /\ \/ net'[Peer(e)] = n[Peer(e)] /\ (~ok \/ Broken(e))
            \/ net'[Peer(e)] = Append(n[Peer(e)], f) /\ ok /\ ~Broken(e)
         /\ ok => FdOpen(e)
         /\ ~ok => ~FdOpen(e) \/ Broken(e)
<1>1. CASE ok /\ ~Broken(e)
  <2>1. net' = [n EXCEPT ![Peer(e)] = Append(@, f)]
    BY <1>1 DEF Sends
  <2>2. Append(n[Peer(e)], f) \in Seq(Frames)
    BY EndParts
  <2>3. net' \in [Ends -> Seq(Frames)] /\ net'[e] = n[e] /\ net'[Peer(e)] = Append(n[Peer(e)], f)
    BY <2>1, <2>2, EndParts
  <2> QED
    BY <1>1, <2>3 DEF Sends
<1>2. CASE ~ok \/ Broken(e)
  BY <1>2 DEF Sends
<1> QED
  BY <1>1, <1>2

(* The frames after one has been read, or sent. *)
LEMMA TailFrames ==
  ASSUME NEW s \in Seq(Frames), s # <<>>
  PROVE  /\ Tail(s) \in Seq(Frames) /\ Len(s) \in Nat /\ DOMAIN s = 1 .. Len(s)
         /\ DOMAIN Tail(s) = 1 .. Len(s) - 1
         /\ \A i \in DOMAIN Tail(s) : i + 1 \in DOMAIN s /\ Tail(s)[i] = s[i + 1]
OBVIOUS

(* A frame added to those under way. *)
LEMMA AppendFrames ==
  ASSUME NEW s \in Seq(Frames), NEW f \in Frames
  PROVE  /\ Append(s, f) \in Seq(Frames) /\ Len(s) \in Nat /\ DOMAIN s = 1 .. Len(s)
         /\ DOMAIN Append(s, f) = 1 .. Len(s) + 1
         /\ \A i \in DOMAIN s : Append(s, f)[i] = s[i]
         /\ Append(s, f)[Len(s) + 1] = f
OBVIOUS

(* What the frames of t are, that has been made from s. *)
Drawn(t, s, f) == \A i \in DOMAIN t : (\E j \in DOMAIN s : t[i] = s[j]) \/ t[i] = f
From(t, s) == \A i \in DOMAIN t : \E j \in DOMAIN s : t[i] = s[j]

(* What is left has been there. *)
LEMMA TailFrom ==
  ASSUME NEW s \in Seq(Frames), s # <<>>
  PROVE  From(Tail(s), s)
BY TailFrames DEF From

(* What is there has been, but for the new frame. *)
LEMMA AppendDrawn ==
  ASSUME NEW s \in Seq(Frames), NEW f \in Frames
  PROVE  Drawn(Append(s, f), s, f)
BY AppendFrames DEF Drawn

(* What stays has been there. *)
LEMMA SameFrom ==
  ASSUME NEW s
  PROVE  From(s, s)
BY DEF From

(* What has been there may have been added to. *)
LEMMA FromDrawn ==
  ASSUME NEW t, NEW s, NEW f, From(t, s)
  PROVE  Drawn(t, s, f)
BY DEF Drawn, From

(* The promises and the table: some have been settled, and nothing else. *)
SlotsType == promise' \in [Ends -> [Ids -> Promise]] /\ pending' \in [Ends -> SUBSET Ids]

Untouched(e, i) == promise'[e][i] = promise[e][i] /\ (i \in pending'[e] <=> i \in pending[e])

Settled(e, i) == i \in pending[e] /\ i \notin pending'[e] /\ promise'[e][i].st \in {"ok", "err"}

(* The types of a table. *)
LEMMA SlotType ==
  ASSUME TypeInv, NEW e \in Ends
  PROVE  /\ pending[e] \subseteq Ids /\ nextId[e] \in 1 .. MaxId + 1
         /\ \A i \in Ids : promise[e][i] \in Promise
         /\ \A i \in Ids : promise[e][i].st \in {"none", "ok", "err"} /\ promise[e][i].from \in Nat
BY DEF TypeInv, LinkType, Promise

(* resolveCall and rejectCall settle one slot that is in the table, or     *)
(* none.                                                                   *)
LEMMA FulfilSlot ==
  ASSUME TypeInv, NEW e \in Ends, NEW i \in Ids, NEW st \in {"ok", "err"}, NEW n \in Nat,
         Fulfil(e, i, st, n)
  PROVE  /\ SlotsType
         /\ \A d \in Ends : \A j \in Ids : ~(d = e /\ j = i /\ i \in pending[e]) => Untouched(d, j)
         /\ i \in pending[e] => Settled(e, i) /\ promise'[e][i] = [st |-> st, from |-> n]
<1> DEFINE p == [st |-> st, from |-> n]
<1>1. /\ promise \in [Ends -> [Ids -> Promise]] /\ pending \in [Ends -> SUBSET Ids]
  BY DEF TypeInv, LinkType
<1>2. p \in Promise /\ p.st = st
  BY DEF Promise
<1> HIDE DEF p
<1>3. CASE i \in pending[e]
  <2>1. promise' = [promise EXCEPT ![e][i] = p] /\ pending' = [pending EXCEPT ![e] = @ \ {i}]
    BY <1>3 DEF Fulfil, p
  <2>2. promise' \in [Ends -> [Ids -> Promise]] /\ promise'[e][i] = p
    BY <1>1, <1>2, <2>1
  <2>3. \A d \in Ends : \A j \in Ids : ~(d = e /\ j = i) => promise'[d][j] = promise[d][j]
    BY <1>1, <2>1
  <2>4. pending' \in [Ends -> SUBSET Ids] /\ i \notin pending'[e]
    BY <1>1, <2>1
  <2>5. \A d \in Ends : \A j \in Ids : ~(d = e /\ j = i) => (j \in pending'[d] <=> j \in pending[d])
    BY <1>1, <2>1
  <2> QED
    BY <1>2, <1>3, <2>2, <2>3, <2>4, <2>5 DEF SlotsType, Untouched, Settled, p
<1>4. CASE i \notin pending[e]
  BY <1>1, <1>4 DEF Fulfil, SlotsType, Untouched
<1> QED
  BY <1>3, <1>4

(* closeSocket settles every slot of the table with an error. *)
LEMMA RejectSlots ==
  ASSUME TypeInv, NEW e \in Ends, RejectPending(e)
  PROVE  /\ SlotsType
         /\ \A d \in Ends : \A j \in Ids : ~(d = e /\ j \in pending[e]) => Untouched(d, j)
         /\ \A j \in pending[e] : Settled(e, j) /\ promise'[e][j].st = "err"
<1> DEFINE p == [st |-> "err", from |-> 0]
<1>1. /\ promise \in [Ends -> [Ids -> Promise]] /\ pending \in [Ends -> SUBSET Ids]
  BY DEF TypeInv, LinkType
<1>2. p \in Promise /\ p.st = "err"
  BY DEF Promise
<1>3. /\ promise' = [promise EXCEPT ![e] = [i \in Ids |-> IF i \in pending[e] THEN p ELSE promise[e][i]]]
      /\ pending' = [pending EXCEPT ![e] = {}]
  BY DEF RejectPending
<1> HIDE DEF p
<1>4. promise' \in [Ends -> [Ids -> Promise]] /\ pending' \in [Ends -> SUBSET Ids]
  BY <1>1, <1>2, <1>3
<1>5. \A d \in Ends : \A j \in Ids : ~(d = e /\ j \in pending[e]) => promise'[d][j] = promise[d][j]
  BY <1>1, <1>3
<1>6. \A d \in Ends : \A j \in Ids : ~(d = e /\ j \in pending[e]) => (j \in pending'[d] <=> j \in pending[d])
  BY <1>1, <1>3
<1>7. \A j \in pending[e] : promise'[e][j] = p /\ j \notin pending'[e]
  BY <1>1, <1>3
<1> QED
  BY <1>2, <1>4, <1>5, <1>6, <1>7 DEF SlotsType, Untouched, Settled

(* A slot is entered and no promise changes. *)
LEMMA EnterSlots ==
  ASSUME TypeInv, NEW e \in Ends, NEW i \in Ids, Enter(e, i), UNCHANGED promise
  PROVE  /\ SlotsType
         /\ \A d \in Ends : \A j \in Ids : ~(d = e /\ j = i) => Untouched(d, j)
         /\ i \in pending'[e]
BY DEF TypeInv, LinkType, Enter, SlotsType, Untouched

(* No slot is touched. *)
LEMMA SlotsSame ==
  ASSUME TypeInv, UNCHANGED <<promise, pending>>
  PROVE  SlotsType /\ \A d \in Ends : \A j \in Ids : Untouched(d, j)
BY DEF TypeInv, LinkType, SlotsType, Untouched

-----------------------------------------------------------------------------
(* What the actions do, without the way they say it *)

(* Of the calls there are, only call k changes, and of it only F. *)
Alters(k, F) ==
  /\ k \in Keys /\ calls' \in Seq(CallRec) /\ Len(calls') \in Nat /\ Len(calls') >= Len(calls)
  /\ \A j \in Keys : j # k => calls'[j] = calls[j]
  /\ \A f \in Fields \ F : calls'[k][f] = calls[k][f]

(* Of the proxies only their states change; one is added. *)
ProxiesKept ==
  /\ proxies' \in Seq(ProxyRec) /\ Len(proxies') = Len(proxies) /\ Len(proxies) \in Nat
  /\ \A p \in 1 .. Len(proxies) : /\ proxies'[p].end = proxies[p].end
                                  /\ proxies'[p].aid = proxies[p].aid
                                  /\ proxies'[p].target = proxies[p].target

ProxyAdded(e, r, t) ==
  /\ proxies' \in Seq(ProxyRec) /\ Len(proxies') = Len(proxies) + 1 /\ Len(proxies) \in Nat
  /\ \A p \in 1 .. Len(proxies) : proxies'[p] = proxies[p]
  /\ proxies'[Len(proxies) + 1].end = e /\ proxies'[Len(proxies) + 1].aid = r
  /\ proxies'[Len(proxies) + 1].target = t

(* A proxy stops. *)
LEMMA ProxyOff ==
  ASSUME TypeInv, NEW p \in 1 .. Len(proxies), NEW s \in {"exited", "gone"},
         proxies' = [proxies EXCEPT ![p].st = s]
  PROVE  ProxiesKept
<1> DEFINE c == proxies[p]
           d == [c EXCEPT !.st = s]
<1>1. proxies \in Seq(ProxyRec) /\ DOMAIN proxies = 1 .. Len(proxies) /\ Len(proxies) \in Nat
  BY DEF TypeInv, OwnType
<1>2. c \in ProxyRec
  BY <1>1
<1>3. proxies' = [proxies EXCEPT ![p] = d]
  BY Zenon
<1>4. d \in ProxyRec /\ d.end = c.end /\ d.aid = c.aid /\ d.target = c.target
  BY <1>2 DEF ProxyRec
<1> HIDE DEF d
<1>5. proxies' \in Seq(ProxyRec) /\ Len(proxies') = Len(proxies)
  BY <1>1, <1>3, <1>4
<1>6. \A q \in 1 .. Len(proxies) : proxies'[q] = IF q = p THEN d ELSE proxies[q]
  BY <1>1, <1>3
<1> QED
  BY <1>1, <1>4, <1>5, <1>6 DEF ProxiesKept

(* A proxy is made. *)
LEMMA ProxyOn ==
  ASSUME TypeInv, NEW e \in Ends, NEW r \in Nat \ {0}, NEW t \in {"none", "L", "A", "X"},
         proxies' = Append(proxies, NewProxy(e, r, t))
  PROVE  ProxyAdded(e, r, t)
<1>1. proxies \in Seq(ProxyRec) /\ Len(proxies) \in Nat
  BY DEF TypeInv, OwnType
<1>2. /\ NewProxy(e, r, t) \in ProxyRec /\ NewProxy(e, r, t).end = e
      /\ NewProxy(e, r, t).aid = r /\ NewProxy(e, r, t).target = t
  BY DEF NewProxy, ProxyRec
<1> QED
  BY <1>1, <1>2 DEF ProxyAdded

(* Call k has thrown. *)
Threw(k) ==
  /\ k \in Keys /\ calls' \in Seq(CallRec) /\ Len(calls') = Len(calls)
  /\ \A j \in Keys : ~Gone(k, j) => calls'[j] = calls[j]
  /\ \A j \in Keys : Gone(k, j) => /\ calls'[j].pc = "done" /\ calls'[j].res = "nil"
                                   /\ \A f \in Fields \ {"pc", "res"} : calls'[j][f] = calls[j][f]
  /\ ProxiesKept
  /\ calls[k].via = 0 => main' = "failed" /\ proxies' = proxies
  /\ calls[k].via # 0 => main' = main

(* End e sends f, or fails to; it reads; it does both. *)
Sending(e, f) ==
  /\ f \in Frames /\ net' \in [Ends -> Seq(Frames)] /\ net'[e] = net[e]
  /\ \/ net'[Peer(e)] = net[Peer(e)] /\ (~FdOpen(e) \/ Broken(e))
     \/ net'[Peer(e)] = Append(net[Peer(e)], f)

Taking(e) ==
  /\ net[e] # <<>> /\ net[e][1] \in Frames /\ 1 \in DOMAIN net[e]
  /\ net' \in [Ends -> Seq(Frames)] /\ net'[e] = Tail(net[e])

Reading1(e) == Taking(e) /\ net'[Peer(e)] = net[Peer(e)]

Replying(e, f) ==
  /\ Taking(e) /\ f \in Frames
  /\ \/ net'[Peer(e)] = net[Peer(e)] /\ (~FdOpen(e) \/ Broken(e))
     \/ net'[Peer(e)] = Append(net[Peer(e)], f)

(* A call is altered in place, or one is added too. *)
LEMMA AltersPlace ==
  ASSUME TypeInv, NEW k, NEW F, Changed(calls, calls', k, F)
  PROVE  Alters(k, F) /\ Len(calls') = Len(calls) /\ Keys' = Keys
BY ListOf DEF Changed, Alters, Keys

(* One call changes and another is queued. *)
LEMMA AltersMore ==
  ASSUME TypeInv, NEW k, NEW F, NEW t, Changed(calls, t, k, F), NEW c \in CallRec,
         calls' = Append(t, c)
  PROVE  /\ Alters(k, F) /\ Len(calls') = Len(calls) + 1 /\ calls'[Len(calls) + 1] = c
         /\ calls'[k] = t[k]
<1>1. calls \in Seq(CallRec) /\ Len(calls) \in Nat /\ Keys = 1 .. Len(calls) /\ Keys = DOMAIN calls
  BY ListOf DEF Keys
<1>2. k \in Keys /\ t \in Seq(CallRec) /\ Len(t) = Len(calls) /\ DOMAIN t = Keys
  BY <1>1 DEF Changed
<1>3. /\ calls' \in Seq(CallRec) /\ Len(calls') = Len(t) + 1
      /\ \A j \in DOMAIN t : calls'[j] = t[j]
      /\ calls'[Len(t) + 1] = c
  BY <1>2, AddCall, Zenon
<1>4. (\A j \in Keys : j # k => t[j] = calls[j]) /\ (\A f \in Fields \ F : t[k][f] = calls[k][f])
  BY <1>1 DEF Changed
<1> QED
  BY <1>1, <1>2, <1>3, <1>4 DEF Alters

(* A call has thrown. *)
LEMMA ThrewOf ==
  ASSUME TypeInv, StageInv, RefInv, NEW k \in Keys, Failed(k)
  PROVE  Threw(k) /\ Keys' = Keys
<1>1. DOMAIN calls' = 1 .. Len(calls')
  BY FailedCalls, SMTT(60)
<1>2. Keys' = Keys
  BY <1>1, FailedCalls, ListOf, ZenonT(120) DEF Keys
<1>3. ProxiesKept
  <2>1. CASE calls[k].via = 0
    <3>1. proxies' = proxies
      BY <2>1, ZenonT(120) DEF Failed
    <3> QED
      BY <3>1 DEF ProxiesKept, TypeInv, OwnType
  <2>2. CASE calls[k].via # 0
    <3>1. calls[k].via \in 1 .. Len(proxies)
      BY <2>2, CallOf DEF RefInv, RefOK, StageInv
    <3>2. proxies' = [proxies EXCEPT ![calls[k].via].st = "exited"]
      BY <2>2, Zenon DEF Failed
    <3> QED
      BY <3>1, <3>2, ProxyOff, Zenon
  <2> QED
    BY <2>1, <2>2
<1>4. /\ calls[k].via = 0 => main' = "failed" /\ proxies' = proxies
      /\ calls[k].via # 0 => main' = main
  BY ZenonT(120) DEF Failed
<1> QED
  BY <1>2, <1>3, <1>4, FailedCalls DEF Threw

(* The frames that are sent. *)
LEMMA MadeFrames ==
  /\ \A k \in Nat, i \in Ids, a, r \in Nat, t \in {"spawn", "call"} :
       [t |-> t, id |-> i, aid |-> a, ref |-> r, k |-> k] \in Frames
  /\ \A k \in Nat, i \in Ids, r \in Nat, s \in {"ok", "err"} :
       [t |-> "result", id |-> i, k |-> k, ref |-> r, st |-> s] \in Frames
  /\ \A k \in Nat, i \in Ids : [t |-> "out", id |-> i, k |-> k] \in Frames
  /\ \A t \in {"hello", "helloOk", "helloErr"} : [t |-> t] \in Frames
BY DEF Frames, Greetings, Requests, Results, Outputs

(* A frame is sent, or lost with the connection. *)
LEMMA SendingOf ==
  ASSUME TypeInv, NEW e \in Ends, NEW f \in Frames, NEW ok \in BOOLEAN, Sends(net, e, f, ok)
  PROVE  Sending(e, f)
<1>1. net \in [Ends -> Seq(Frames)]
  BY DEF TypeInv, LinkType
<1> QED
  BY <1>1, SendFrame DEF Sending

(* A frame is read and answered. *)
LEMMA ReplyingOf ==
  ASSUME TypeInv, NEW e \in Ends, NEW f \in Frames, NEW ok \in BOOLEAN, net[e] # <<>>,
         Sends(Rest(e), e, f, ok)
  PROVE  Replying(e, f)
<1>1. /\ Rest(e) \in [Ends -> Seq(Frames)] /\ Rest(e)[e] = Tail(net[e])
      /\ Rest(e)[Peer(e)] = net[Peer(e)] /\ net[e][1] \in Frames /\ 1 \in DOMAIN net[e]
  BY ReadFrame
<1> QED
  BY <1>1, SendFrame DEF Replying, Taking

(* A frame is read. *)
LEMMA ReadingOf ==
  ASSUME TypeInv, NEW e \in Ends, net[e] # <<>>, net' = Rest(e)
  PROVE  Reading1(e)
BY ReadFrame DEF Reading1, Taking

(* The first frame, of the kind that was looked for. *)
LEMMA ReadsFrame ==
  ASSUME TypeInv, NEW e \in Ends, NEW t, Reads(e, t)
  PROVE  /\ net[e] # <<>> /\ 1 \in DOMAIN net[e] /\ net[e][1] \in Frames
         /\ Head(net[e]) = net[e][1] /\ net[e][1].t = t
BY ReadFrame DEF Reads

(* The script. *)
LEMMA ConnectShape ==
  ASSUME TypeInv, Connect
  PROVE  /\ main = "start" /\ main' \in {"slot", "failed"}
         /\ Sending("C", [t |-> "hello"])
         /\ UNCHANGED <<proc, phase, nextId, pending, promise, world, session, registry, locals,
                        proxies, calls, actors, kept, printed, delivered, left>>
BY SendingOf, MadeFrames, EndParts DEF Connect

(* What a step of EnterSlot does. *)
LEMMA EnterSlotShape ==
  ASSUME TypeInv, EnterSlot
  PROVE  /\ main = "slot" /\ main' = "future" /\ SlotsType /\ 0 \in Ids
         /\ \A d \in Ends : \A j \in Ids : ~(d = "C" /\ j = 0) => Untouched(d, j)
         /\ UNCHANGED <<proc, phase, net, nextId, promise, world, session, registry, locals,
                        proxies, calls, actors, kept, printed, delivered, left>>
<1>1. 0 \in Ids
  BY LinkAssumption DEF Ids
<1>2. Enter("C", 0) /\ UNCHANGED promise
  BY DEF EnterSlot
<1>3. SlotsType /\ \A d \in Ends : \A j \in Ids : ~(d = "C" /\ j = 0) => Untouched(d, j)
  BY <1>1, <1>2, EnterSlots, EndParts
<1> QED
  BY <1>1, <1>3 DEF EnterSlot

(* A process ends; a connection is marked. *)
LEMMA DiesShape ==
  ASSUME TypeInv, NEW e \in Ends, NEW how \in {"crashed", "terminated"}, Dies(e, how)
  PROVE  /\ proc' \in [Ends -> {"up", "crashed", "terminated"}]
         /\ phase' \in [Ends -> {"open", "marked", "shut", "closed"}]
         /\ proc'[e] = how /\ phase'[e] = "closed"
         /\ \A d \in Ends : d # e => proc'[d] = proc[d] /\ phase'[d] = phase[d]
BY DEF TypeInv, LinkType, Dies

(* A connection is marked closed. *)
LEMMA MarkShape ==
  ASSUME TypeInv, NEW e \in Ends, Mark(e)
  PROVE  /\ phase' \in [Ends -> {"open", "marked", "shut", "closed"}]
         /\ phase'[e] # "open" /\ (phase[e] # "open" => phase'[e] = phase[e])
         /\ \A d \in Ends : d # e => phase'[d] = phase[d]
BY DEF TypeInv, LinkType, Mark

(* What a step of TakeFuture does. *)
LEMMA TakeFutureShape ==
  ASSUME TypeInv, TakeFuture
  PROVE  /\ main = "future"
         /\ \/ main' = "hello" /\ UNCHANGED <<proc, phase>>
            \/ Dies("C", "crashed") /\ main' = main
         /\ UNCHANGED <<net, nextId, pending, promise, world, session, registry, locals,
                        proxies, calls, actors, kept, printed, delivered, left>>
BY DEF TakeFuture

(* An id is handed out. *)
LEMMA TakeIdShape ==
  ASSUME TypeInv, NEW e \in Ends, TakeId(e), nextId[e] <= MaxId
  PROVE  /\ nextId' \in [Ends -> 1 .. MaxId + 1] /\ nextId'[e] = nextId[e] + 1
         /\ \A d \in Ends : d # e => nextId'[d] = nextId[d]
         /\ nextId[e] \in Ids /\ nextId[e] # 0 /\ nextId[e] \in Nat
<1>1. nextId \in [Ends -> 1 .. MaxId + 1]
  BY DEF TypeInv, LinkType
<1>2. nextId[e] \in 1 .. MaxId + 1 /\ MaxId \in Nat
  BY <1>1, LinkAssumption
<1> QED
  BY <1>1, <1>2 DEF TakeId, Ids

(* The spawn, as it is made. *)
First == calls'[1]

(* What a step of Greeted does. *)
LEMMA GreetedShape ==
  ASSUME TypeInv, StageInv, Greeted
  PROVE  /\ main = "hello" /\ calls = <<>> /\ nextId["C"] = 1 /\ proxies = <<>>
         /\ promise["C"][0].st # "none"
         /\ \/ /\ main' = "spawning" /\ calls' \in Seq(CallRec) /\ Len(calls') = 1
               /\ First.end = "C" /\ First.via = 0 /\ First.id = 1 /\ First.pc = "ready"
               /\ First.res = "none" /\ First.arg = "none" /\ First.gives = FALSE
               /\ First.wire = 0 /\ First.ref = 0 /\ First.gift = 0 /\ First.to = "A"
               /\ First.job = "none" /\ First.ran = <<>> /\ First.route = 0
               /\ First.for = 0 /\ First.last = 0 /\ First.waited = FALSE
               /\ nextId' \in [Ends -> 1 .. MaxId + 1] /\ nextId'["C"] = 2
               /\ nextId'["S"] = nextId["S"] /\ 1 \in Ids
            \/ main' = "failed" /\ UNCHANGED <<calls, nextId>>
         /\ UNCHANGED <<proc, phase, net, pending, promise, world, session, registry, locals,
                        proxies, actors, kept, printed, delivered, left>>
<1>1. main = "hello" /\ promise["C"][0].st # "none"
  BY DEF Greeted
<1>2. calls = <<>> /\ nextId["C"] = 1 /\ proxies = <<>>
  BY <1>1 DEF StageInv
<1>3. CASE promise["C"][0].st = "ok"
  <2> DEFINE m == [Plain EXCEPT !.body = world.init]
             n == NewCall("C", 0, m, 0)
             c == [n EXCEPT !.pc = "ready", !.id = nextId["C"], !.to = "A"]
  <2>1. m \in Methods /\ m.arg = "none" /\ m.gives = FALSE
    BY PlainType, ProgramType, Zenon
  <2>2. "C" \in Ends /\ 0 \in Nat
    BY EndParts
  <2>3. TakeId("C") /\ main' = "spawning" /\ calls' = <<c>>
    BY <1>3 DEF Greeted
  <2>4. MaxId \in Nat /\ 1 <= MaxId
    BY LinkAssumption
  <2>5. /\ nextId' \in [Ends -> 1 .. MaxId + 1] /\ nextId'["C"] = nextId["C"] + 1
        /\ nextId'["S"] = nextId["S"] /\ nextId["C"] \in Ids
    BY <2>3, <2>4, <1>2, TakeIdShape, EndParts
  <2> HIDE DEF m, n, c
  <2>6. /\ n \in CallRec /\ n.end = "C" /\ n.via = 0 /\ n.res = "none" /\ n.arg = "none"
        /\ n.gives = FALSE /\ n.wire = 0 /\ n.ref = 0 /\ n.gift = 0 /\ n.job = "none"
        /\ n.ran = <<>> /\ n.route = 0 /\ n.for = 0 /\ n.last = 0 /\ n.waited = FALSE
    <3>1. NewCall("C", 0, m, 0) \in CallRec
      BY <2>1, <2>2, NewType
    <3>2. /\ n.end = "C" /\ n.via = 0 /\ n.res = "none" /\ n.arg = m.arg
          /\ n.gives = m.gives /\ n.wire = 0 /\ n.ref = 0 /\ n.gift = 0 /\ n.job = "none"
          /\ n.ran = <<>> /\ n.route = 0 /\ n.for = 0 /\ n.last = 0 /\ n.waited = FALSE
      BY DEF n, NewCall
    <3> QED
      BY <2>1, <3>1, <3>2, Zenon DEF n
  <2>7. /\ c \in CallRec /\ c.end = n.end /\ c.via = n.via /\ c.res = n.res /\ c.arg = n.arg
        /\ c.gives = n.gives /\ c.wire = n.wire /\ c.ref = n.ref /\ c.gift = n.gift
        /\ c.job = n.job /\ c.ran = n.ran /\ c.route = n.route /\ c.for = n.for
        /\ c.last = n.last /\ c.waited = n.waited /\ c.pc = "ready" /\ c.id = nextId["C"]
        /\ c.to = "A"
    BY <2>5, <2>6 DEF CallRec, PCs, c
  <2>8. calls' \in Seq(CallRec) /\ Len(calls') = 1 /\ calls'[1] = c
    BY <2>3, <2>7
  <2> QED
    BY <1>1, <1>2, <2>3, <2>5, <2>6, <2>7, <2>8 DEF Greeted, First
<1>4. CASE promise["C"][0].st # "ok"
  BY <1>1, <1>2, <1>4 DEF Greeted
<1> QED
  BY <1>3, <1>4

(* What a step of Unwind does. *)
LEMMA UnwindShape ==
  ASSUME TypeInv, Unwind
  PROVE  Mark("C") /\ UNCHANGED <<proc, net, nextId, pending, promise, own>>
BY DEF Unwind

-----------------------------------------------------------------------------
(* The worker of a proxy. *)
LEMMA TakeCallShape ==
  ASSUME TypeInv, StageInv, RefInv, NEW k \in Keys, TakeCall(k)
  PROVE  /\ Alters(k, {"pc", "id", "wire"}) /\ Keys' = Keys /\ Len(calls') = Len(calls)
         /\ calls[k].pc = "queued" /\ calls[k].end \in Ends
         /\ calls'[k].pc = "ready" /\ calls'[k].id = nextId[calls[k].end]
         /\ calls[k].arg = "none" => calls'[k].wire = 0
         /\ nextId' \in [Ends -> 1 .. MaxId + 1]
         /\ nextId'[calls[k].end] = nextId[calls[k].end] + 1
         /\ \A d \in Ends : d # calls[k].end => nextId'[d] = nextId[d]
         /\ nextId[calls[k].end] \in Ids /\ nextId[calls[k].end] # 0
         /\ locals' \in [Ends -> Seq({"L", "X"})] /\ locals'["S"] = locals["S"]
         /\ \A i \in DOMAIN locals'["C"] : locals'["C"][i] = "L"
         /\ UNCHANGED <<proc, phase, net, pending, promise, world, main, session, registry,
                        proxies, actors, kept, printed, delivered, left>>
<1> DEFINE e == calls[k].end
<1>1. calls[k] \in CallRec /\ calls \in Seq(CallRec) /\ k \in DOMAIN calls /\ k \in Nat \ {0}
  BY CallOf, ListOf DEF Keys
<1>2. e \in Ends /\ calls[k].via \in Nat /\ calls[k].arg \in {"none", "L", "A"}
  BY <1>1, CallType
<1>3. calls[k].pc = "queued" /\ nextId[e] <= MaxId /\ TakeId(e)
  BY DEF TakeCall
<1>4. /\ nextId' \in [Ends -> 1 .. MaxId + 1] /\ nextId'[e] = nextId[e] + 1
      /\ \A d \in Ends : d # e => nextId'[d] = nextId[d]
      /\ nextId[e] \in Ids /\ nextId[e] # 0
  BY <1>2, <1>3, TakeIdShape
<1>5. locals \in [Ends -> Seq({"L", "X"})] /\ proxies \in Seq(ProxyRec)
  BY DEF TypeInv, OwnType
<1>6. k # 1
  BY <1>1, <1>3 DEF StageInv
<1>7. calls[k].via \in 1 .. Len(proxies)
  BY <1>6 DEF RefInv, RefOK
<1>8. proxies[1] \in ProxyRec
  BY <1>5, <1>7
<1>9. Len(locals["C"]) \in Nat /\ locals["C"] \in Seq({"L", "X"})
  BY <1>5, EndParts
<1>10. RefOf(k) \in Nat /\ (calls[k].arg = "none" => RefOf(k) = 0)
  BY <1>2, <1>8, <1>9 DEF RefOf, ProxyRec
<1>11. calls' = WithTaken(calls, k, nextId[e], RefOf(k))
  BY Zenon DEF TakeCall, WithTaken
<1>12. Changed(calls, calls', k, {"pc", "id", "wire"}) /\ calls'[k].pc = "ready"
       /\ calls'[k].id = nextId[e] /\ calls'[k].wire = RefOf(k)
  BY <1>1, <1>4, <1>10, <1>11, SetTaken
<1>13. locals' = IF calls[k].arg = "L" THEN [locals EXCEPT !["C"] = Append(@, "L")] ELSE locals
  BY DEF TakeCall
<1>14. locals' \in [Ends -> Seq({"L", "X"})] /\ locals'["S"] = locals["S"]
  <2>1. Append(locals["C"], "L") \in Seq({"L", "X"})
    BY <1>9
  <2> QED
    BY <1>5, <1>13, <2>1, EndParts
<1>15. \A i \in DOMAIN locals'["C"] : locals'["C"][i] = "L"
  <2>1. \A i \in DOMAIN locals["C"] : locals["C"][i] = "L"
    BY DEF StageInv
  <2>2. locals'["C"] = locals["C"] \/ locals'["C"] = Append(locals["C"], "L")
    BY <1>5, <1>13, EndParts
  <2> QED
    BY <1>9, <2>1, <2>2, SMTT(60)
<1>16. Alters(k, {"pc", "id", "wire"}) /\ Len(calls') = Len(calls) /\ Keys' = Keys
  BY <1>12, AltersPlace
<1> QED
  BY <1>2, <1>3, <1>4, <1>10, <1>12, <1>14, <1>15, <1>16 DEF TakeCall

(* What a step of EnterCall does. *)
LEMMA EnterCallShape ==
  ASSUME TypeInv, NEW k \in Keys, EnterCall(k)
  PROVE  /\ Alters(k, {"pc"}) /\ Keys' = Keys /\ Len(calls') = Len(calls)
         /\ calls[k].pc = "ready" /\ calls'[k].pc = "entered" /\ SlotsType
         /\ calls[k].end \in Ends /\ calls[k].id \in Ids
         /\ \A d \in Ends : \A j \in Ids : ~(d = calls[k].end /\ j = calls[k].id) => Untouched(d, j)
         /\ calls[k].id \in pending'[calls[k].end]
         /\ UNCHANGED <<proc, phase, net, nextId, promise, world, main, session, registry, locals,
                        proxies, actors, kept, printed, delivered, left>>
<1>1. calls[k] \in CallRec /\ calls \in Seq(CallRec) /\ k \in DOMAIN calls
  BY CallOf, ListOf DEF Keys
<1>2. calls[k].end \in Ends /\ calls[k].id \in Ids
  BY <1>1, CallType
<1>3. Enter(calls[k].end, calls[k].id) /\ UNCHANGED promise
  BY DEF EnterCall
<1>4. /\ SlotsType /\ calls[k].id \in pending'[calls[k].end]
      /\ \A d \in Ends : \A j \in Ids : ~(d = calls[k].end /\ j = calls[k].id) => Untouched(d, j)
  BY <1>2, <1>3, EnterSlots
<1>5. calls' = WithPc(calls, k, "entered")
  BY Zenon DEF EnterCall, WithPc
<1>6. Changed(calls, calls', k, {"pc"}) /\ calls'[k].pc = "entered"
  BY <1>1, <1>5, SetPc DEF PCs
<1>7. Alters(k, {"pc"}) /\ Keys' = Keys /\ Len(calls') = Len(calls)
  BY <1>6, AltersPlace
<1> QED
  BY <1>2, <1>4, <1>6, <1>7 DEF EnterCall

(* What a step of SendCall does. *)
LEMMA SendCallShape ==
  ASSUME TypeInv, RefInv, StageInv, NEW k \in Keys, SendCall(k)
  PROVE  /\ calls[k].pc = "entered" /\ calls[k].end \in Ends
         /\ Sending(calls[k].end, Frame(k)) /\ Keys' = Keys /\ Len(calls') = Len(calls)
         /\ \/ /\ Alters(k, {"pc"}) /\ calls'[k].pc = "wait"
               /\ UNCHANGED <<proxies, main>>
            \/ Threw(k) /\ net' = net
         /\ UNCHANGED <<proc, phase, nextId, pending, promise, world, session, registry, locals,
                        actors, kept, printed, delivered, left>>
<1>1. calls[k] \in CallRec /\ calls \in Seq(CallRec) /\ k \in DOMAIN calls /\ k \in Nat \ {0}
  BY CallOf, ListOf DEF Keys
<1>2. /\ calls[k].end \in Ends /\ calls[k].id \in Ids /\ calls[k].via \in Nat
      /\ calls[k].wire \in Nat
  BY <1>1, CallType
<1>3. proxies \in Seq(ProxyRec) /\ (calls[k].via # 0 => calls[k].via \in DOMAIN proxies)
  <2>1. proxies \in Seq(ProxyRec)
    BY DEF TypeInv, OwnType
  <2>2. k # 1 => calls[k].via \in 1 .. Len(proxies)
    BY DEF RefInv, RefOK
  <2>3. calls[1].via = 0
    BY <1>1 DEF StageInv
  <2> QED
    BY <2>1, <2>2, <2>3
<1>4. calls[k].via # 0 => proxies[calls[k].via].aid \in Nat
  <2>1. calls[k].via # 0 => proxies[calls[k].via] \in ProxyRec
    BY <1>3
  <2> QED
    BY <2>1 DEF ProxyRec
<1>5. Frame(k) \in Frames
  BY <1>1, <1>2, <1>4, MadeFrames DEF Frame
<1>6. PICK ok \in BOOLEAN : /\ Sends(net, calls[k].end, Frame(k), ok)
                            /\ ok => calls' = WithPc(calls, k, "wait") /\ UNCHANGED <<proxies, main>>
                            /\ ~ok => Failed(k)
  BY Zenon DEF SendCall, WithPc
<1>7. Sending(calls[k].end, Frame(k))
  BY <1>2, <1>5, <1>6, SendingOf
<1>8. CASE ok
  <2>1. Changed(calls, calls', k, {"pc"}) /\ calls'[k].pc = "wait"
    BY <1>1, <1>6, <1>8, SetPc DEF PCs
  <2>2. Alters(k, {"pc"}) /\ Keys' = Keys /\ Len(calls') = Len(calls)
    BY <2>1, AltersPlace
  <2> QED
    BY <1>2, <1>6, <1>7, <1>8, <2>1, <2>2 DEF SendCall
<1>9. CASE ~ok
  <2>1. Threw(k) /\ Keys' = Keys
    BY <1>6, <1>9, ThrewOf
  <2>2. net' = net
    BY <1>6, <1>9 DEF Sends
  <2>3. Len(calls') = Len(calls)
    BY <2>1 DEF Threw
  <2> QED
    BY <1>2, <1>7, <2>1, <2>2, <2>3 DEF SendCall
<1> QED
  BY <1>8, <1>9

(* A call that has just been made, by e on proxy v, for call n. *)
Fresh(j, e, v, n) ==
  /\ calls'[j].end = e /\ calls'[j].via = v /\ calls'[j].id = 0 /\ calls'[j].pc \in {"queued", "done"}
  /\ calls'[j].res # "ok" /\ calls'[j].wire = 0 /\ calls'[j].ref = 0 /\ calls'[j].gift = 0
  /\ calls'[j].job = "none" /\ calls'[j].ran = <<>> /\ calls'[j].route = n /\ calls'[j].for = n
  /\ calls'[j].last = 0 /\ calls'[j].waited = FALSE

FreshPlain(j, e, v, n) ==
  Fresh(j, e, v, n) /\ calls'[j].arg = "none" /\ calls'[j].gives = FALSE

(* A call that is queued. *)
LEMMA NewFresh ==
  ASSUME NEW m \in Methods, NEW e \in Ends, NEW v \in Nat, NEW n \in Nat, NEW j,
         calls'[j] = NewCall(e, v, m, n)
  PROVE  /\ NewCall(e, v, m, n) \in CallRec /\ Fresh(j, e, v, n)
         /\ calls'[j].arg = m.arg /\ calls'[j].gives = m.gives
<1>1. NewCall(e, v, m, n) \in CallRec
  BY NewType
<1>2. Fresh(j, e, v, n) /\ calls'[j].arg = m.arg /\ calls'[j].gives = m.gives
  BY DEF NewCall, Fresh
<1> QED
  BY <1>1, <1>2

Dead(c) == [c EXCEPT !.pc = "done", !.res = "nil"]

(* A call queued on a proxy whose worker has stopped. *)
LEMMA DeadFresh ==
  ASSUME NEW m \in Methods, NEW e \in Ends, NEW v \in Nat, NEW n \in Nat, NEW j,
         calls'[j] = Dead(NewCall(e, v, m, n))
  PROVE  /\ Dead(NewCall(e, v, m, n)) \in CallRec
         /\ Fresh(j, e, v, n) /\ calls'[j].arg = m.arg /\ calls'[j].gives = m.gives
<1> DEFINE c == NewCall(e, v, m, n)
           d == [c EXCEPT !.pc = "done", !.res = "nil"]
<1>1. c \in CallRec
  BY NewType
<1>2. d \in CallRec
  <2> HIDE DEF c
  <2> QED
    BY <1>1 DEF CallRec, PCs
<1>3. d.pc = "done" /\ d.res = "nil"
  BY DEF NewCall
<1>4. /\ d.end = e /\ d.via = v /\ d.id = 0 /\ d.wire = 0 /\ d.ref = 0 /\ d.gift = 0
      /\ d.job = "none" /\ d.ran = <<>> /\ d.route = n /\ d.for = n /\ d.last = 0
      /\ d.waited = FALSE /\ d.arg = m.arg /\ d.gives = m.gives
  BY DEF NewCall
<1>5. calls'[j] = d /\ Dead(NewCall(e, v, m, n)) = d
  BY Zenon DEF Dead
<1> HIDE DEF d
<1> QED
  BY <1>2, <1>3, <1>4, <1>5 DEF Fresh

(* Call k has come back with its result: the spawn, or another. *)
Came(k) ==
  /\ Alters(k, {"pc", "res", "from"})
  /\ calls'[k].pc = "done" /\ calls'[k].res = "ok"
  /\ calls'[k].from = promise[calls[k].end][calls[k].id].from
  /\ promise[calls[k].end][calls[k].id].st = "ok"

Launched(k) ==
  /\ calls[k].via = 0 /\ main' = "running" /\ proxies' \in Seq(ProxyRec) /\ Len(proxies') = 1
  /\ proxies'[1].end = "C" /\ proxies'[1].aid = 1 /\ proxies'[1].target = "A"
  /\ \A j \in Keys' \ Keys :
       /\ Fresh(j, "C", 1, 0)
       /\ \E i \in DOMAIN world.script : /\ calls'[j].arg = world.script[i].arg
                                         /\ calls'[j].gives = world.script[i].gives

(* Calls added behind others. *)
LEMMA JoinCalls ==
  ASSUME NEW s \in Seq(CallRec), NEW u \in Seq(CallRec)
  PROVE  /\ s \o u \in Seq(CallRec) /\ Len(s) \in Nat /\ Len(u) \in Nat
         /\ Len(s \o u) = Len(s) + Len(u) /\ DOMAIN (s \o u) = 1 .. Len(s) + Len(u)
         /\ \A j \in 1 .. Len(s) : (s \o u)[j] = s[j]
         /\ \A j \in Len(s) + 1 .. Len(s) + Len(u) : (s \o u)[j] = u[j - Len(s)]
OBVIOUS

ScriptQueued(t) ==
  calls' = t \o [i \in DOMAIN world.script |-> NewCall("C", 1, world.script[i], 0)]

(* The calls the script queues. *)
LEMMA LaunchedCalls ==
  ASSUME TypeInv, NEW k \in Keys, NEW t, Changed(calls, t, k, {"pc", "res", "from"}),
         ScriptQueued(t)
  PROVE  /\ Alters(k, {"pc", "res", "from"}) /\ calls'[k] = t[k]
         /\ \A j \in Keys' \ Keys :
              /\ Fresh(j, "C", 1, 0)
              /\ \E i \in DOMAIN world.script : /\ calls'[j].arg = world.script[i].arg
                                                /\ calls'[j].gives = world.script[i].gives
<1> DEFINE w == world.script
           u == [i \in DOMAIN w |-> NewCall("C", 1, w[i], 0)]
<1>1. w \in Seq(Methods) /\ Len(w) \in Nat /\ DOMAIN w = 1 .. Len(w)
  BY ProgramType
<1>2. \A i \in DOMAIN w : w[i] \in Methods /\ NewCall("C", 1, w[i], 0) \in CallRec
  <2>1. ASSUME NEW i \in DOMAIN w PROVE w[i] \in Methods /\ NewCall("C", 1, w[i], 0) \in CallRec
    <3>1. w[i] \in Methods
      BY <1>1
    <3> HIDE DEF w
    <3> QED
      BY <3>1, NewType, EndParts
  <2> QED
    BY <2>1
<1>3. u \in Seq(CallRec) /\ Len(u) = Len(w) /\ \A i \in DOMAIN w : u[i] = NewCall("C", 1, w[i], 0)
  <2>1. u \in [1 .. Len(w) -> CallRec]
    BY <1>1, <1>2
  <2> QED
    BY <1>1, <2>1
<1>4. /\ t \in Seq(CallRec) /\ Len(t) = Len(calls) /\ Len(calls) \in Nat /\ Keys = 1 .. Len(calls)
      /\ DOMAIN t = Keys
      /\ (\A j \in Keys : j # k => t[j] = calls[j])
      /\ \A f \in Fields \ {"pc", "res", "from"} : t[k][f] = calls[k][f]
  BY ListOf DEF Changed, Keys
<1>5. calls' = t \o u
  BY Zenon DEF ScriptQueued
<1> HIDE DEF u, w
<1>6. /\ calls' \in Seq(CallRec) /\ Len(calls') = Len(t) + Len(u) /\ Len(u) \in Nat
      /\ Keys' = 1 .. Len(t) + Len(u)
      /\ \A j \in 1 .. Len(t) : calls'[j] = t[j]
      /\ \A j \in Len(t) + 1 .. Len(t) + Len(u) : calls'[j] = u[j - Len(t)]
  <2>1. /\ t \o u \in Seq(CallRec) /\ Len(u) \in Nat
        /\ Len(t \o u) = Len(t) + Len(u) /\ DOMAIN (t \o u) = 1 .. Len(t) + Len(u)
        /\ \A j \in 1 .. Len(t) : (t \o u)[j] = t[j]
        /\ \A j \in Len(t) + 1 .. Len(t) + Len(u) : (t \o u)[j] = u[j - Len(t)]
    BY <1>3, <1>4, JoinCalls
  <2> DEFINE v == t \o u
  <2>2. calls' = v
    BY <1>5
  <2>3. /\ v \in Seq(CallRec) /\ Len(v) = Len(t) + Len(u) /\ DOMAIN v = 1 .. Len(t) + Len(u)
        /\ \A j \in 1 .. Len(t) : v[j] = t[j]
        /\ \A j \in Len(t) + 1 .. Len(t) + Len(u) : v[j] = u[j - Len(t)]
    BY <2>1
  <2> HIDE DEF v
  <2> QED
    BY <2>1, <2>2, <2>3, Zenon DEF Keys
<1>7. Alters(k, {"pc", "res", "from"}) /\ calls'[k] = t[k]
  BY <1>4, <1>6 DEF Alters
<1>8. ASSUME NEW j \in Keys' \ Keys
      PROVE  /\ Fresh(j, "C", 1, 0)
             /\ \E i \in DOMAIN w : calls'[j].arg = w[i].arg /\ calls'[j].gives = w[i].gives
  <2>1. j \in Len(t) + 1 .. Len(t) + Len(u)
    BY <1>4, <1>6
  <2>2. j - Len(t) \in DOMAIN w
    BY <1>1, <1>3, <1>4, <2>1
  <2>3. calls'[j] = NewCall("C", 1, w[j - Len(t)], 0)
    BY <1>3, <1>6, <2>1, <2>2
  <2>4. w[j - Len(t)] \in Methods
    BY <1>2, <2>2
  <2>5. /\ Fresh(j, "C", 1, 0) /\ calls'[j].arg = w[j - Len(t)].arg
        /\ calls'[j].gives = w[j - Len(t)].gives
    <3> DEFINE m == w[j - Len(t)]
    <3>1. calls'[j] = NewCall("C", 1, m, 0) /\ m \in Methods
      BY <2>3, <2>4
    <3> HIDE DEF m
    <3>2. Fresh(j, "C", 1, 0) /\ calls'[j].arg = m.arg /\ calls'[j].gives = m.gives
      <4>1. "C" \in Ends /\ 1 \in Nat /\ 0 \in Nat
        BY EndParts
      <4> QED
        BY <3>1, <4>1, NewFresh
    <3> QED
      BY <3>2, Zenon DEF m
  <2> QED
    BY <2>2, <2>5
<1> QED
  BY <1>7, <1>8 DEF w

(* What a step of ReturnCall does. *)
LEMMA ReturnCallShape ==
  ASSUME TypeInv, StageInv, RefInv, NEW k \in Keys, ReturnCall(k)
  PROVE  /\ calls[k].pc = "wait" /\ calls[k].end \in Ends /\ calls[k].id \in Ids
         /\ promise[calls[k].end][calls[k].id].st # "none"
         /\ \/ Threw(k) /\ Keys' = Keys
            \/ Came(k) /\ Launched(k)
            \/ /\ Came(k) /\ calls[k].via # 0 /\ UNCHANGED <<main, proxies>>
               /\ \/ Keys' = Keys /\ Len(calls') = Len(calls)
                  \/ /\ calls[k].gift # 0 /\ Len(calls') = Len(calls) + 1
                     /\ FreshPlain(Len(calls) + 1, calls[k].end, calls[k].gift, 0)
         /\ UNCHANGED <<linkVars, world, session, registry, locals, actors, kept, printed,
                        delivered, left>>
<1> DEFINE from == promise[calls[k].end][calls[k].id].from
           t == WithReturned(calls, k, from)
<1>1. calls[k] \in CallRec /\ calls \in Seq(CallRec) /\ k \in DOMAIN calls
  BY CallOf, ListOf DEF Keys
<1>2. calls[k].end \in Ends /\ calls[k].id \in Ids /\ calls[k].gift \in Nat
  BY <1>1, CallType
<1>3. calls[k].pc = "wait" /\ promise[calls[k].end][calls[k].id].st # "none"
  BY DEF ReturnCall
<1>4. UNCHANGED <<linkVars, world, session, registry, locals, actors, kept, printed,
                  delivered, left>>
  BY DEF ReturnCall
<1>5. CASE promise[calls[k].end][calls[k].id].st # "ok"
  <2>1. Failed(k)
    BY <1>5 DEF ReturnCall
  <2> QED
    BY <1>2, <1>3, <1>4, <2>1, ThrewOf
<1>6. CASE promise[calls[k].end][calls[k].id].st = "ok"
  <2>1. Returned(k)
    BY <1>6 DEF ReturnCall
  <2>2. from \in Nat
    BY <1>2, SlotType
  <2> HIDE DEF from, t
  <2>3. /\ Changed(calls, t, k, {"pc", "res", "from"}) /\ t[k].pc = "done" /\ t[k].res = "ok"
        /\ t[k].from = from
    BY <1>1, <2>2, SetReturned DEF t
  <2>4. CASE calls[k].via = 0
    <3>1. /\ main' = "running" /\ proxies' = <<NewProxy("C", 1, "A")>>
          /\ ScriptQueued(t)
      BY <2>1, <2>4, Zenon DEF Returned, t, from, WithReturned, ScriptQueued
    <3>2. /\ Alters(k, {"pc", "res", "from"}) /\ calls'[k] = t[k]
          /\ \A j \in Keys' \ Keys :
               /\ Fresh(j, "C", 1, 0)
               /\ \E i \in DOMAIN world.script : /\ calls'[j].arg = world.script[i].arg
                                                 /\ calls'[j].gives = world.script[i].gives
      BY <2>3, <3>1, LaunchedCalls, Zenon
    <3>3. /\ proxies' \in Seq(ProxyRec) /\ Len(proxies') = 1 /\ proxies'[1].end = "C"
          /\ proxies'[1].aid = 1 /\ proxies'[1].target = "A"
      <4>1. /\ NewProxy("C", 1, "A") \in ProxyRec /\ NewProxy("C", 1, "A").end = "C"
            /\ NewProxy("C", 1, "A").aid = 1 /\ NewProxy("C", 1, "A").target = "A"
        BY EndParts DEF NewProxy, ProxyRec
      <4> QED
        BY <3>1, <4>1
    <3>4. Launched(k)
      BY <2>4, <3>1, <3>2, <3>3, Zenon DEF Launched
    <3>5. Came(k)
      BY <1>6, <2>3, <3>2 DEF Came, from
    <3> QED
      BY <1>2, <1>3, <1>4, <3>4, <3>5
  <2>5. CASE calls[k].via # 0 /\ calls[k].gift = 0
    <3>1. calls' = t /\ UNCHANGED <<main, proxies>>
      BY <2>1, <2>5, Zenon DEF Returned, t, from, WithReturned
    <3>2. Alters(k, {"pc", "res", "from"}) /\ Keys' = Keys /\ Len(calls') = Len(calls)
      BY <2>3, <3>1, AltersPlace
    <3>3. Came(k)
      BY <1>6, <2>3, <3>1, <3>2 DEF Came, from
    <3> QED
      BY <1>2, <1>3, <1>4, <2>5, <3>1, <3>2, <3>3
  <2>6. CASE calls[k].via # 0 /\ calls[k].gift # 0
    <3> DEFINE c == NewCall(calls[k].end, calls[k].gift, Plain, 0)
    <3>1. calls' = Append(t, c) /\ UNCHANGED <<main, proxies>>
      BY <2>1, <2>6, Zenon DEF Returned, t, from, WithReturned
    <3>2. Plain \in Methods /\ Plain.arg = "none" /\ Plain.gives = FALSE /\ 0 \in Nat
      BY DEF Plain, Methods
    <3>3. c \in CallRec
      BY <1>2, <3>2, NewType
    <3> HIDE DEF c
    <3>4. /\ Alters(k, {"pc", "res", "from"}) /\ Len(calls') = Len(calls) + 1
          /\ calls'[Len(calls) + 1] = c /\ calls'[k] = t[k]
      BY <2>3, <3>1, <3>3, AltersMore, ZenonT(120)
    <3>5. FreshPlain(Len(calls) + 1, calls[k].end, calls[k].gift, 0)
      BY <1>2, <3>2, <3>4, NewFresh DEF c, FreshPlain
    <3>6. Came(k)
      BY <1>6, <2>3, <3>4 DEF Came, from
    <3> QED
      BY <1>2, <1>3, <1>4, <2>6, <3>1, <3>4, <3>5, <3>6
  <2> QED
    BY <2>4, <2>5, <2>6
<1> QED
  BY <1>5, <1>6

-----------------------------------------------------------------------------
(* The thread of an incoming call. *)

(* Of the actors only their states change. *)
ActorsKept ==
  /\ actors' \in [{"A", "L", "X"} -> ActorRec]
  /\ \A a \in {"A", "L", "X"} : actors'[a].q = actors[a].q /\ actors'[a].cur = actors[a].cur

(* Of actor a, b is made. *)
ActorSet(a, q, cur) ==
  /\ actors' \in [{"A", "L", "X"} -> ActorRec]
  /\ actors'[a].q = q /\ actors'[a].cur = cur
  /\ \A b \in {"A", "L", "X"} : b # a => actors'[b] = actors[b]

(* The types of an actor. *)
LEMMA ActorType ==
  ASSUME TypeInv, NEW a \in {"A", "L", "X"}
  PROVE  actors \in [{"A", "L", "X"} -> ActorRec] /\ actors[a] \in ActorRec
         /\ actors[a].q \in Seq(Nat) /\ actors[a].cur \in Nat
         /\ actors[a].st \in {"none", "up", "quit", "exited"}
<1>1. actors \in [{"A", "L", "X"} -> ActorRec]
  BY DEF TypeInv, OwnType
<1> QED
  BY <1>1 DEF ActorRec

(* An actor stops or is told to. *)
LEMMA ActorSt ==
  ASSUME TypeInv, NEW a \in {"A", "L", "X"}, NEW s \in {"none", "up", "quit", "exited"},
         actors' = [actors EXCEPT ![a].st = s]
  PROVE  ActorsKept
<1> DEFINE c == actors[a]
           d == [c EXCEPT !.st = s]
<1>1. actors \in [{"A", "L", "X"} -> ActorRec] /\ c \in ActorRec
  BY ActorType
<1>2. actors' = [actors EXCEPT ![a] = d]
  BY Zenon
<1>3. d \in ActorRec /\ d.q = c.q /\ d.cur = c.cur
  BY <1>1 DEF ActorRec
<1> HIDE DEF d
<1>4. actors' \in [{"A", "L", "X"} -> ActorRec]
  BY <1>1, <1>2, <1>3
<1>5. \A b \in {"A", "L", "X"} : actors'[b] = IF b = a THEN d ELSE actors[b]
  BY <1>1, <1>2
<1> QED
  BY <1>3, <1>4, <1>5 DEF ActorsKept

(* No actor changes. *)
LEMMA ActorsSame ==
  ASSUME TypeInv, actors' = actors
  PROVE  ActorsKept
BY DEF ActorsKept, TypeInv, OwnType

(* One actor changes. *)
LEMMA ActorPut ==
  ASSUME TypeInv, NEW a \in {"A", "L", "X"}, NEW d \in ActorRec,
         actors' = [actors EXCEPT ![a] = d]
  PROVE  ActorSet(a, d.q, d.cur)
<1>1. actors \in [{"A", "L", "X"} -> ActorRec]
  BY ActorType
<1>2. actors' \in [{"A", "L", "X"} -> ActorRec]
  BY <1>1
<1>3. \A b \in {"A", "L", "X"} : actors'[b] = IF b = a THEN d ELSE actors[b]
  BY <1>1
<1> QED
  BY <1>2, <1>3 DEF ActorSet

(* Whom a call is made to. *)
LEMMA CallerEnd ==
  ASSUME TypeInv, NEW k \in Keys
  PROVE  /\ calls[k].end \in Ends /\ Peered(k) \in Ends /\ calls[k].id \in Ids
         /\ Peer(Peered(k)) = calls[k].end /\ k \in Nat /\ calls[k].to \in {"none", "A", "L"}
         /\ calls[k] \in CallRec /\ calls \in Seq(CallRec) /\ k \in DOMAIN calls
<1>1. calls[k] \in CallRec /\ calls \in Seq(CallRec) /\ k \in DOMAIN calls /\ k \in Nat
  BY CallOf, ListOf DEF Keys
<1> QED
  BY <1>1, CallType, EndParts DEF Peered

(* What a step of JobQueue does. *)
LEMMA JobQueueShape ==
  ASSUME TypeInv, JobInv, StageInv, NEW k \in Keys, JobQueue(k)
  PROVE  /\ Alters(k, {"job"}) /\ Keys' = Keys /\ Len(calls') = Len(calls)
         /\ calls[k].job = "new" /\ k # 1 /\ calls[k].to = Actor(k)
         /\ \/ calls'[k].job = "dead" /\ actors' = actors
            \/ /\ calls'[k].job = "queued"
               /\ ActorSet(Actor(k), Append(actors[Actor(k)].q, k), actors[Actor(k)].cur)
         /\ UNCHANGED <<linkVars, world, main, session, registry, locals, proxies, kept,
                        printed, delivered, left>>
<1>1. calls[k] \in CallRec /\ calls \in Seq(CallRec) /\ k \in DOMAIN calls /\ k \in Nat
  BY CallerEnd
<1>2. calls[k].job = "new"
  BY DEF JobQueue
<1>3. k # 1 /\ calls[k].to = Actor(k) /\ Actor(k) \in {"A", "L"}
  BY <1>2 DEF JobInv, JobOK, Actor
<1>4. CASE actors[calls[k].to].st = "exited"
  <2>1. calls' = WithJob(calls, k, "dead") /\ actors' = actors
    BY <1>4, Zenon DEF JobQueue, WithJob
  <2>2. Changed(calls, calls', k, {"job"}) /\ calls'[k].job = "dead"
    BY <1>1, <2>1, SetJob DEF Jobs
  <2> QED
    BY <1>2, <1>3, <2>1, <2>2, AltersPlace DEF JobQueue
<1>5. CASE actors[calls[k].to].st # "exited"
  <2> DEFINE a == Actor(k)
             c == actors[a]
             q == Append(c.q, k)
             d == [c EXCEPT !.q = q]
  <2>1. calls' = WithJob(calls, k, "queued")
    BY <1>5, Zenon DEF JobQueue, WithJob
  <2>2. Changed(calls, calls', k, {"job"}) /\ calls'[k].job = "queued"
    BY <1>1, <2>1, SetJob DEF Jobs
  <2>3. actors' = [actors EXCEPT ![a].q = Append(@, k)]
    BY <1>3, <1>5, Zenon DEF JobQueue
  <2>4. actors' = [actors EXCEPT ![a] = d]
    BY <2>3, Zenon
  <2>5. c \in ActorRec /\ c.q \in Seq(Nat)
    BY <1>3, ActorType
  <2>6. d \in ActorRec /\ d.q = q /\ d.cur = c.cur
    <3>1. q \in Seq(Nat)
      BY <1>1, <2>5
    <3> HIDE DEF q, c
    <3> QED
      BY <2>5, <3>1 DEF ActorRec
  <2> HIDE DEF d
  <2>7. ActorSet(a, d.q, d.cur)
    <3> HIDE DEF a
    <3>1. a \in {"A", "L", "X"}
      BY <1>3 DEF a
    <3> QED
      BY <2>4, <2>6, <3>1, ActorPut, Zenon
  <2> QED
    BY <1>2, <1>3, <2>2, <2>6, <2>7, AltersPlace DEF JobQueue
<1> QED
  BY <1>4, <1>5

(* The reference that an answer carries. *)
Given(k) == IF calls[k].job = "ran" /\ calls[k].gives THEN Len(locals[Peered(k)]) + 1 ELSE 0

(* What a step of JobReply does. *)
LEMMA JobReplyShape ==
  ASSUME TypeInv, StageInv, RefInv, NEW k \in Keys, JobReply(k)
  PROVE  /\ Alters(k, {"job"}) /\ Keys' = Keys /\ Len(calls') = Len(calls)
         /\ calls[k].job \in {"ran", "dead"} /\ calls'[k].job = "sent"
         /\ Peered(k) \in Ends /\ calls[k].end \in Ends /\ Peer(Peered(k)) = calls[k].end
         /\ Sending(Peered(k), Answer(k, calls[k].job = "ran", Given(k)))
         /\ UNCHANGED <<proc, phase>> \/ Dies(Peered(k), "terminated")
         /\ locals' \in [Ends -> Seq({"L", "X"})] /\ locals'["C"] = locals["C"]
         /\ ~calls[k].gives => locals' = locals
         /\ UNCHANGED <<nextId, pending, promise, world, main, session, registry, proxies,
                        actors, kept, printed, delivered, left>>
<1> DEFINE e == Peered(k)
           good == calls[k].job = "ran"
           f == Answer(k, good, Given(k))
<1>1. /\ calls[k] \in CallRec /\ calls \in Seq(CallRec) /\ k \in DOMAIN calls /\ k \in Nat
      /\ e \in Ends /\ calls[k].id \in Ids /\ calls[k].end \in Ends /\ Peer(e) = calls[k].end
  BY CallerEnd
<1>2. calls[k].job \in {"ran", "dead"}
  BY DEF JobReply
<1>3. locals \in [Ends -> Seq({"L", "X"})]
  BY DEF TypeInv, OwnType
<1>4. Len(locals[e]) \in Nat /\ Given(k) \in Nat
  BY <1>1, <1>3 DEF Given
<1>5. f \in Frames
  BY <1>1, <1>4, MadeFrames DEF Answer
<1>6. PICK ok \in BOOLEAN : Sends(net, e, f, ok) /\ (UNCHANGED <<proc, phase>> \/ Dies(e, "terminated"))
  BY DEF JobReply, Given
<1> HIDE DEF f
<1>7. Sending(e, f)
  BY <1>1, <1>5, <1>6, SendingOf
<1>8. calls' = WithJob(calls, k, "sent")
  BY Zenon DEF JobReply, WithJob
<1>9. Changed(calls, calls', k, {"job"}) /\ calls'[k].job = "sent"
  BY <1>1, <1>8, SetJob DEF Jobs
<1>10. locals' = IF good /\ calls[k].gives THEN [locals EXCEPT ![e] = Append(@, "X")] ELSE locals
  BY DEF JobReply
<1>11. calls[k].gives => e = "S"
  BY <1>1, EndParts DEF RefInv, RefOK, Peered
<1>12. /\ locals' \in [Ends -> Seq({"L", "X"})] /\ locals'["C"] = locals["C"]
       /\ ~calls[k].gives => locals' = locals
  <2>1. Append(locals[e], "X") \in Seq({"L", "X"})
    BY <1>1, <1>3
  <2> QED
    BY <1>1, <1>3, <1>10, <1>11, <2>1, EndParts
<1> QED
  BY <1>1, <1>2, <1>6, <1>7, <1>9, <1>12, AltersPlace DEF JobReply, f

-----------------------------------------------------------------------------
(* The session and the client's reader. *)

(* An actor is told to quit. *)
LEMMA QuitShape ==
  ASSUME TypeInv, actors' = Quit("A") \/ actors' = actors
  PROVE  ActorsKept
<1>1. CASE actors' = actors
  BY <1>1, ActorsSame
<1>2. CASE actors' = [actors EXCEPT !["A"].st = "quit"]
  BY <1>2, ActorSt, Zenon
<1>3. actors' = actors \/ actors' = [actors EXCEPT !["A"].st = "quit"]
  BY Zenon DEF Quit
<1> QED
  BY <1>1, <1>2, <1>3

(* What a step of Welcome does. *)
LEMMA WelcomeShape ==
  ASSUME TypeInv, Welcome
  PROVE  /\ net["S"][1].t = "hello"
         /\ \E f \in Frames : Replying("S", f) /\ f.t \in {"helloOk", "helloErr"}
         /\ session' \in {"loop", "done"} /\ registry' \in BOOLEAN /\ ActorsKept
         /\ UNCHANGED <<proc, phase, nextId, pending, promise, world, main, locals, proxies,
                        calls, kept, printed, delivered, left>>
<1>1. PICK ok \in BOOLEAN, valid \in BOOLEAN :
        /\ Sends(Rest("S"), "S", [t |-> IF valid THEN "helloOk" ELSE "helloErr"], ok)
        /\ IF ok THEN /\ session' = IF valid THEN "loop" ELSE "done"
                      /\ UNCHANGED <<registry, actors>>
                 ELSE Abandon
  BY DEF Welcome
<1> DEFINE f == [t |-> IF valid THEN "helloOk" ELSE "helloErr"]
<1>2. f \in Frames /\ f.t \in {"helloOk", "helloErr"}
  BY MadeFrames
<1>3. Sends(Rest("S"), "S", f, ok)
  BY <1>1
<1> HIDE DEF f
<1>4. net["S"] # <<>> /\ net["S"][1].t = "hello" /\ "S" \in Ends
  BY ReadsFrame, EndParts DEF Welcome
<1>5. Replying("S", f)
  BY <1>2, <1>3, <1>4, ReplyingOf
<1>6. session' \in {"loop", "done"}
  BY <1>1 DEF Abandon
<1>7. registry' \in BOOLEAN
  BY <1>1 DEF Abandon, TypeInv, OwnType
<1>8. actors' = Quit("A") \/ actors' = actors
  BY <1>1 DEF Abandon
<1> QED
  BY <1>2, <1>4, <1>5, <1>6, <1>7, <1>8, QuitShape DEF Welcome

(* The spawn is the call of the frame. *)
LEMMA SpawnShape ==
  ASSUME TypeInv, FrameInv, Spawn
  PROVE  /\ net["S"][1].t = "spawn" /\ net["S"][1].k = 1 /\ 1 \in Keys
         /\ \E valid \in BOOLEAN : /\ Replying("S", Answer(1, valid, 0))
                                   /\ ~valid => actors' = actors
                                   /\ valid => ActorSet("A", <<1>>, actors["A"].cur)
         /\ session' \in {session, "done"} /\ registry' \in BOOLEAN
         /\ UNCHANGED <<proc, phase, nextId, pending, promise, world, main, locals, proxies,
                        calls, kept, printed, delivered, left>>
<1>1. PICK ok \in BOOLEAN, valid \in BOOLEAN :
        /\ Sends(Rest("S"), "S", Answer(1, valid, 0), ok)
        /\ actors' = IF valid THEN Spawned(IF ok THEN "up" ELSE "quit") ELSE actors
        /\ registry' = (valid /\ ok)
        /\ session' = IF ok THEN session ELSE "done"
  BY DEF Spawn
<1>2. /\ net["S"] # <<>> /\ net["S"][1].t = "spawn" /\ 1 \in DOMAIN net["S"] /\ "S" \in Ends
      /\ net["S"][1] \in Frames
  BY ReadsFrame, EndParts DEF Spawn
<1>3. net["S"][1].k = 1 /\ 1 \in Keys
  <2>1. FrameOK("S", net["S"][1])
    BY <1>2 DEF FrameInv
  <2> QED
    BY <1>2, <2>1 DEF FrameOK, RequestOK, IsRequest
<1>4. calls[1].id \in Ids
  BY <1>3, CallerEnd
<1>5. Answer(1, valid, 0) \in Frames
  BY <1>4, MadeFrames DEF Answer
<1>6. Replying("S", Answer(1, valid, 0))
  BY <1>1, <1>2, <1>5, ReplyingOf
<1>7. registry' \in BOOLEAN /\ session' \in {session, "done"}
  BY <1>1
<1>8. valid => ActorSet("A", <<1>>, actors["A"].cur)
  <2> SUFFICES ASSUME valid PROVE ActorSet("A", <<1>>, actors["A"].cur)
    OBVIOUS
  <2> DEFINE c == actors["A"]
             s == IF ok THEN "up" ELSE "quit"
             q == <<1>>
             d == [c EXCEPT !.st = s, !.q = q]
  <2>1. actors' = Spawned(s)
    BY <1>1, Zenon
  <2>2. actors' = [actors EXCEPT !["A"] = d]
    BY <2>1, Zenon DEF Spawned
  <2>3. c \in ActorRec /\ q \in Seq(Nat) /\ s \in {"up", "quit"}
    BY ActorType
  <2> HIDE DEF c, s, q
  <2>4. d \in ActorRec /\ d.q = q /\ d.cur = c.cur
    BY <2>3 DEF ActorRec
  <2> HIDE DEF d
  <2>5. ActorSet("A", d.q, d.cur)
    BY <2>2, <2>4, ActorPut, Zenon
  <2> QED
    BY <2>4, <2>5, Zenon DEF c, q
<1>9. ~valid => actors' = actors
  BY <1>1
<1> QED
  BY <1>2, <1>3, <1>6, <1>7, <1>8, <1>9 DEF Spawn

(* The first frame is a request, a result or an output. *)
LEMMA FirstFrame ==
  ASSUME TypeInv, FrameInv, NEW e \in Ends, NEW t \in {"spawn", "call", "result", "out"}, Reads(e, t)
  PROVE  /\ net[e] # <<>> /\ 1 \in DOMAIN net[e] /\ net[e][1] \in Frames /\ net[e][1].t = t
         /\ Head(net[e]) = net[e][1] /\ FrameOK(e, net[e][1])
         /\ net[e][1].k \in Keys /\ net[e][1].id \in Ids
<1>1. /\ net[e] # <<>> /\ 1 \in DOMAIN net[e] /\ net[e][1] \in Frames /\ net[e][1].t = t
      /\ Head(net[e]) = net[e][1]
  BY ReadsFrame
<1>2. FrameOK(e, net[e][1])
  BY <1>1 DEF FrameInv
<1>3. net[e][1].k \in Keys
  BY <1>1, <1>2 DEF FrameOK, IsRequest, RequestOK, ResultOK, OutOK
<1>4. net[e][1].id \in Ids
  BY <1>1, FrameFields DEF IsRequest
<1> QED
  BY <1>1, <1>2, <1>3, <1>4

(* What a step of Serve does. *)
LEMMA ServeShape ==
  ASSUME TypeInv, FrameInv, Serve
  PROVE  LET f == net["S"][1]
         IN /\ f.t = "call" /\ f.k \in Keys /\ FrameOK("S", f)
            /\ \/ /\ Reading1("S") /\ Alters(f.k, {"job", "to", "ref"})
                  /\ Keys' = Keys /\ Len(calls') = Len(calls)
                  /\ calls'[f.k].job = "new" /\ calls'[f.k].to = "A"
                  /\ \/ calls'[f.k].ref = 0 /\ proxies' = proxies
                     \/ /\ calls'[f.k].ref = Len(proxies) + 1 /\ f.ref > Len(locals["S"])
                        /\ ProxyAdded("S", f.ref, calls[f.k].arg)
                  /\ UNCHANGED <<session, registry, actors>>
               \/ /\ Replying("S", Answer(f.k, FALSE, 0)) /\ ActorsKept
                  /\ session' \in {session, "done"} /\ registry' \in BOOLEAN
                  /\ UNCHANGED <<calls, proxies>>
            /\ UNCHANGED <<proc, phase, nextId, pending, promise, world, main, locals,
                           kept, printed, delivered, left>>
<1> DEFINE f == net["S"][1]
           known == f.aid = 1 /\ registry
           proxy == known /\ IsProxy("S", f.ref)
           r == IF proxy THEN Len(proxies) + 1 ELSE 0
<1>1. /\ net["S"] # <<>> /\ f \in Frames /\ f.t = "call" /\ Head(net["S"]) = f /\ FrameOK("S", f)
      /\ f.k \in Keys /\ f.id \in Ids /\ "S" \in Ends
  BY FirstFrame, EndParts DEF Serve
<1>2. f.ref \in Nat
  BY <1>1, FrameFields DEF IsRequest
<1>3. /\ calls[f.k] \in CallRec /\ calls \in Seq(CallRec) /\ f.k \in DOMAIN calls
      /\ calls[f.k].id \in Ids /\ f.k \in Nat
  BY <1>1, CallerEnd
<1>4. calls[f.k].arg \in {"none", "L", "A", "X"}
  BY <1>3, CallType
<1>5. CASE known
  <2>1. net' = Rest("S") /\ UNCHANGED <<session, registry, actors>>
    BY <1>1, <1>5 DEF Serve
  <2>2. Reading1("S")
    BY <1>1, <2>1, ReadingOf
  <2>3. calls' = WithServed(calls, f.k, r)
    BY <1>1, <1>5, Zenon DEF Serve, WithServed
  <2>4. proxies \in Seq(ProxyRec) /\ Len(proxies) \in Nat
    BY DEF TypeInv, OwnType
  <2>5. r \in Nat
    BY <2>4
  <2>6. proxies' = IF proxy THEN Append(proxies, NewProxy("S", f.ref, calls[f.k].arg)) ELSE proxies
    BY <1>1, <1>5, Zenon DEF Serve
  <2>7. proxy => ProxyAdded("S", f.ref, calls[f.k].arg) /\ f.ref > Len(locals["S"])
    <3> SUFFICES ASSUME proxy PROVE ProxyAdded("S", f.ref, calls[f.k].arg) /\ f.ref > Len(locals["S"])
      OBVIOUS
    <3>1. Len(locals["S"]) \in Nat
      BY EndParts DEF TypeInv, OwnType
    <3>2. f.ref > Len(locals["S"]) /\ f.ref \in Nat \ {0}
      BY <1>2, <3>1 DEF IsProxy
    <3>3. proxies' = Append(proxies, NewProxy("S", f.ref, calls[f.k].arg))
      BY <2>6
    <3> QED
      BY <1>1, <1>4, <3>2, <3>3, ProxyOn
  <2> HIDE DEF f, r, proxy
  <2>8. /\ Changed(calls, calls', f.k, {"job", "to", "ref"}) /\ calls'[f.k].job = "new"
        /\ calls'[f.k].to = "A" /\ calls'[f.k].ref = r
    BY <1>3, <2>3, <2>5, SetServed
  <2>9. Alters(f.k, {"job", "to", "ref"}) /\ Keys' = Keys /\ Len(calls') = Len(calls)
    BY <2>8, AltersPlace
  <2>10. \/ calls'[f.k].ref = 0 /\ proxies' = proxies
         \/ /\ calls'[f.k].ref = Len(proxies) + 1 /\ f.ref > Len(locals["S"])
            /\ ProxyAdded("S", f.ref, calls[f.k].arg)
    BY <2>6, <2>7, <2>8 DEF r
  <2>11. UNCHANGED <<proc, phase, nextId, pending, promise, world, main, locals,
                     kept, printed, delivered, left>>
    BY DEF Serve
  <2> QED
    BY <1>1, <2>1, <2>2, <2>8, <2>9, <2>10, <2>11, Zenon DEF f
<1>6. CASE ~known
  <2>1. PICK ok \in BOOLEAN :
          /\ Sends(Rest("S"), "S", Answer(f.k, FALSE, 0), ok)
          /\ IF ok THEN UNCHANGED <<session, registry, actors>> ELSE Abandon
    BY <1>1, <1>6 DEF Serve
  <2>2. UNCHANGED <<calls, proxies>>
    BY <1>1, <1>6 DEF Serve
  <2>3. Answer(f.k, FALSE, 0) \in Frames
    BY <1>3, MadeFrames DEF Answer
  <2>4. Replying("S", Answer(f.k, FALSE, 0))
    BY <1>1, <2>1, <2>3, ReplyingOf
  <2>5. actors' = Quit("A") \/ actors' = actors
    BY <2>1 DEF Abandon
  <2>6. session' \in {session, "done"} /\ registry' \in BOOLEAN
    BY <2>1 DEF Abandon, TypeInv, OwnType
  <2>7. ActorsKept
    BY <2>5, QuitShape
  <2> QED
    BY <1>1, <2>2, <2>4, <2>6, <2>7 DEF Serve
<1> QED
  BY <1>5, <1>6

(* What a step of Disconnected does. *)
LEMMA DisconnectedShape ==
  ASSUME TypeInv, Disconnected
  PROVE  /\ session' = "cleanup" /\ registry' = FALSE /\ ActorsKept
         /\ UNCHANGED <<linkVars, world, main, locals, proxies, calls, kept, printed,
                        delivered, left>>
BY QuitShape DEF Disconnected

(* What a step of HelloAnswer does. *)
LEMMA HelloAnswerShape ==
  ASSUME TypeInv, HelloAnswer
  PROVE  /\ net["C"][1].t \in {"helloOk", "helloErr"} /\ Reading1("C") /\ SlotsType /\ 0 \in Ids
         /\ \A d \in Ends : \A j \in Ids : ~(d = "C" /\ j = 0 /\ 0 \in pending["C"]) => Untouched(d, j)
         /\ 0 \in pending["C"] => Settled("C", 0)
         /\ UNCHANGED phase \/ Mark("C")
         /\ UNCHANGED <<proc, nextId, own>>
<1>1. 0 \in Ids /\ "C" \in Ends /\ 0 \in Nat
  BY LinkAssumption, EndParts DEF Ids
<1>2. PICK st \in {"ok", "err"} : Fulfil("C", 0, st, 0)
  BY DEF HelloAnswer
<1>3. /\ SlotsType
      /\ \A d \in Ends : \A j \in Ids : ~(d = "C" /\ j = 0 /\ 0 \in pending["C"]) => Untouched(d, j)
      /\ 0 \in pending["C"] => Settled("C", 0)
  <2> DEFINE i == 0
             n == 0
  <2>1. i \in Ids /\ n \in Nat /\ Fulfil("C", i, st, n) /\ (st = "ok" \/ st = "err")
    BY <1>1, <1>2
  <2> HIDE DEF i, n
  <2>2. /\ SlotsType
        /\ \A d \in Ends : \A j \in Ids : ~(d = "C" /\ j = i /\ i \in pending["C"]) => Untouched(d, j)
        /\ i \in pending["C"] => Settled("C", i)
    <3>1. CASE st = "ok"
      BY <1>1, <2>1, <3>1, FulfilSlot
    <3>2. CASE st = "err"
      BY <1>1, <2>1, <3>2, FulfilSlot
    <3> QED
      BY <2>1, <3>1, <3>2
  <2> QED
    BY <2>2, Zenon DEF i
<1>4. net["C"] # <<>> /\ net["C"][1].t \in {"helloOk", "helloErr"}
  BY <1>1, ReadsFrame DEF HelloAnswer
<1>5. Reading1("C")
  BY <1>1, <1>4, ReadingOf DEF HelloAnswer
<1> QED
  BY <1>1, <1>3, <1>4, <1>5 DEF HelloAnswer

(* What a step of Refer does. *)
LEMMA ReferShape ==
  ASSUME TypeInv, StageInv, FrameInv, Refer
  PROVE  LET f == net["C"][1]
         IN /\ f.t = "call" /\ f.k \in Keys /\ f.id \in Ids /\ FrameOK("C", f) /\ Reading1("C")
            /\ \/ /\ Alters(f.k, {"job", "to"}) /\ Keys' = Keys /\ Len(calls') = Len(calls)
                  /\ calls'[f.k].job = "new" /\ calls'[f.k].to = "L"
                  /\ UNCHANGED <<promise, pending>>
               \/ /\ UNCHANGED calls /\ SlotsType
                  /\ \A d \in Ends : \A j \in Ids :
                       ~(d = "C" /\ j = f.id /\ j \in pending["C"]) => Untouched(d, j)
                  /\ f.id \in pending["C"] => Settled("C", f.id) /\ promise'["C"][f.id].st = "err"
            /\ UNCHANGED <<proc, phase, nextId, world, main, session, registry, locals, proxies,
                           actors, kept, printed, delivered, left>>
<1> DEFINE f == net["C"][1]
           there == f.aid <= Len(locals["C"]) /\ actors[locals["C"][f.aid]].st = "up"
<1>1. /\ net["C"] # <<>> /\ 1 \in DOMAIN net["C"] /\ f \in Frames /\ f.t = "call"
      /\ Head(net["C"]) = f /\ FrameOK("C", f) /\ f.k \in Keys /\ f.id \in Ids /\ "C" \in Ends
  BY FirstFrame, EndParts DEF Refer
<1>2. Reading1("C")
  BY <1>1, ReadingOf DEF Refer
<1>3. calls \in Seq(CallRec) /\ f.k \in DOMAIN calls
  BY <1>1, CallerEnd, ZenonT(120)
<1>4. CASE there
  <2>1. calls' = WithReferred(calls, f.k, locals["C"][f.aid]) /\ UNCHANGED <<promise, pending>>
    BY <1>1, <1>4, Zenon DEF Refer, WithReferred
  <2>2. f.aid \in Nat /\ f.aid # 0
    <3>1. f.aid \in Nat
      BY <1>1, FrameFields DEF IsRequest
    <3> QED
      BY <1>1, <3>1 DEF FrameOK, RequestOK, IsRequest
  <2>3. locals["C"] \in Seq({"L", "X"})
    BY EndParts DEF TypeInv, OwnType
  <2>4. f.aid \in DOMAIN locals["C"]
    BY <1>4, <2>2, <2>3
  <2>5. locals["C"][f.aid] = "L"
    BY <2>4 DEF StageInv
  <2> HIDE DEF f
  <2>6. calls' = WithReferred(calls, f.k, "L")
    BY <2>1, <2>5, Zenon
  <2>7. /\ Changed(calls, calls', f.k, {"job", "to"}) /\ calls'[f.k].job = "new"
        /\ calls'[f.k].to = "L"
    BY <1>3, <2>6, SetReferred
  <2>8. Alters(f.k, {"job", "to"}) /\ Keys' = Keys /\ Len(calls') = Len(calls)
    BY <2>7, AltersPlace
  <2> QED
    BY <1>1, <1>2, <2>1, <2>7, <2>8, ZenonT(120) DEF Refer, f
<1>5. CASE ~there
  <2>1. Fulfil("C", f.id, "err", 0) /\ UNCHANGED calls
    BY <1>1, <1>5, Zenon DEF Refer
  <2> HIDE DEF f
  <2>2. /\ SlotsType
        /\ \A d \in Ends : \A j \in Ids :
             ~(d = "C" /\ j = f.id /\ f.id \in pending["C"]) => Untouched(d, j)
        /\ f.id \in pending["C"] => Settled("C", f.id) /\ promise'["C"][f.id] = [st |-> "err", from |-> 0]
    BY <1>1, <2>1, FulfilSlot
  <2> QED
    BY <1>1, <1>2, <2>1, <2>2 DEF Refer, f
<1> QED
  BY <1>4, <1>5

(* An end that hears is up and its socket open. *)
LEMMA HearsReads ==
  ASSUME NEW e \in Ends, Hears(e)
  PROVE  Up(e) /\ FdOpen(e) /\ (e = "C" => phase["C"] = "open")
BY EndParts DEF Hears, Listening, Reading, FdOpen

(* What a step of Result does. *)
LEMMA ResultShape ==
  ASSUME TypeInv, RefInv, FrameInv, NEW e \in Ends, Result(e)
  PROVE  LET f == net[e][1]
         IN /\ f.t = "result" /\ f.k \in Keys /\ f.id \in Ids /\ FrameOK(e, f) /\ Reading1(e)
            /\ f.st \in {"ok", "err"} /\ Hears(e) /\ SlotsType
            /\ \A d \in Ends : \A j \in Ids :
                 ~(d = e /\ j = f.id /\ j \in pending[e]) => Untouched(d, j)
            /\ f.id \in pending[e] => Settled(e, f.id) /\ promise'[e][f.id] = [st |-> f.st, from |-> f.k]
            /\ \/ UNCHANGED <<proxies, calls>>
               \/ /\ f.ref # 0 /\ calls[f.k].gives /\ ProxyAdded(e, f.ref, "X")
                  /\ Alters(f.k, {"gift"}) /\ Keys' = Keys /\ Len(calls') = Len(calls)
                  /\ calls'[f.k].gift = Len(proxies) + 1
            /\ UNCHANGED <<proc, phase, nextId, world, main, session, registry, locals, actors,
                           kept, printed, delivered, left>>
<1> DEFINE f == net[e][1]
<1>1. /\ net[e] # <<>> /\ 1 \in DOMAIN net[e] /\ f \in Frames /\ f.t = "result"
      /\ Head(net[e]) = f /\ FrameOK(e, f) /\ f.k \in Keys /\ f.id \in Ids
  BY FirstFrame DEF Result
<1>2. Reading1(e) /\ Hears(e)
  BY <1>1, ReadingOf DEF Result
<1>3. f.ref \in Nat /\ f.st \in {"ok", "err"} /\ f.k \in Nat
  BY <1>1, FrameFields
<1>4. calls \in Seq(CallRec) /\ f.k \in DOMAIN calls
  BY <1>1, CallerEnd
<1>5. Fulfil(e, f.id, f.st, f.k)
  BY <1>1 DEF Result
<1>6. UNCHANGED <<proc, phase, nextId, world, main, session, registry, locals, actors,
                  kept, printed, delivered, left>>
  BY DEF Result
<1>7. ~IsProxy(e, f.ref) => UNCHANGED <<proxies, calls>>
  BY <1>1 DEF Result
<1>8. IsProxy(e, f.ref) => /\ proxies' = Append(proxies, NewProxy(e, f.ref, "X"))
                           /\ calls' = WithGift(calls, f.k, Len(proxies) + 1)
  BY <1>1, Zenon DEF Result, WithGift
<1> HIDE DEF f
<1>9. /\ SlotsType
      /\ \A d \in Ends : \A j \in Ids : ~(d = e /\ j = f.id /\ f.id \in pending[e]) => Untouched(d, j)
      /\ f.id \in pending[e] => Settled(e, f.id) /\ promise'[e][f.id] = [st |-> f.st, from |-> f.k]
  BY <1>1, <1>3, <1>5, FulfilSlot
<1>10. CASE IsProxy(e, f.ref)
  <2>1. Len(locals[e]) \in Nat /\ Len(proxies) \in Nat
    BY DEF TypeInv, OwnType
  <2>2. f.ref # 0
    BY <1>3, <1>10, <2>1 DEF IsProxy
  <2>3. calls[f.k].gives
    BY <1>1, <2>2 DEF FrameOK, ResultOK
  <2>4. ProxyAdded(e, f.ref, "X")
    BY <1>3, <1>8, <1>10, <2>2, ProxyOn
  <2>5. Changed(calls, calls', f.k, {"gift"}) /\ calls'[f.k].gift = Len(proxies) + 1
    BY <1>4, <1>8, <1>10, <2>1, SetGift
  <2>6. Alters(f.k, {"gift"}) /\ Keys' = Keys /\ Len(calls') = Len(calls)
    BY <2>5, AltersPlace
  <2>7. \A d \in Ends : \A j \in Ids :
                 ~(d = e /\ j = f.id /\ j \in pending[e]) => Untouched(d, j)
    BY <1>9
  <2> QED
    BY <1>1, <1>2, <1>3, <1>6, <1>9, <2>2, <2>3, <2>4, <2>5, <2>6, <2>7, Zenon DEF f
<1>11. CASE ~IsProxy(e, f.ref)
  <2>1. \A d \in Ends : \A j \in Ids :
                 ~(d = e /\ j = f.id /\ j \in pending[e]) => Untouched(d, j)
    BY <1>9
  <2> QED
    BY <1>1, <1>2, <1>3, <1>6, <1>7, <1>9, <1>11, <2>1, Zenon DEF f
<1> QED
  BY <1>10, <1>11

(* Who printed, and by which id the event travels: deliverOutputEvent. *)
LEMMA OutputShape ==
  ASSUME TypeInv, RefInv, IdInv, SlotInv, FrameInv, NEW e \in Ends, Output(e)
  PROVE  LET f == net[e][1]
         IN /\ f.t = "out" /\ f.k \in Keys /\ f.id \in Ids /\ FrameOK(e, f) /\ Hears(e) /\ Taking(e)
            /\ \/ f.id \notin pending[e] /\ Reading1(e) /\ UNCHANGED delivered
               \/ /\ f.id \in pending[e] /\ e = "C" /\ Reading1(e)
                  /\ delivered' = delivered \union {f.k}
               \/ /\ e = "S" /\ phase["S"] # "open" /\ Reading1(e) /\ UNCHANGED delivered
               \/ /\ f.id \in pending[e] /\ e = "S" /\ UNCHANGED delivered
                  /\ calls[f.k].route \in Keys
                  /\ Replying(e, [f EXCEPT !.id = calls[calls[f.k].route].id])
            /\ UNCHANGED <<proc, phase, nextId, pending, promise, world, main, session, registry,
                           locals, proxies, calls, actors, kept, printed, left>>
<1> DEFINE f == net[e][1]
           c == KeyOf(e, f.id)
           up == calls[c].route
<1>1. /\ net[e] # <<>> /\ 1 \in DOMAIN net[e] /\ f \in Frames /\ f.t = "out"
      /\ Head(net[e]) = f /\ FrameOK(e, f) /\ f.k \in Keys /\ f.id \in Ids
  BY FirstFrame DEF Output
<1>2. Hears(e) /\ UNCHANGED <<proc, phase, nextId, pending, promise, world, main, session,
                     registry, locals, proxies, calls, actors, kept, printed, left>>
  BY DEF Output
<1>3. OutOK(e, f)
  BY <1>1 DEF FrameOK
<1>4. net' = Rest(e) => Reading1(e) /\ Taking(e)
  BY <1>1, ReadingOf DEF Reading1
<1>5. CASE f.id \notin pending[e]
  <2>1. net' = Rest(e) /\ UNCHANGED delivered
    BY <1>1, <1>5 DEF Output
  <2> QED
    BY <1>1, <1>2, <1>4, <1>5, <2>1
<1>6. CASE f.id \in pending[e]
  <2>1. c \in Keys /\ calls[c].end = e /\ calls[c].id = f.id
    <3>1. f.id # 0
      BY <1>3 DEF OutOK
    <3>2. \E k \in Keys : calls[k].end = e /\ calls[k].id = f.id
      BY <1>1, <1>6, <3>1 DEF SlotInv, SlotOK
    <3> QED
      BY <3>2, Zenon DEF KeyOf
  <2>2. CASE e = "C"
    <3>1. up = 0
      BY <2>1, <2>2 DEF RefInv, RefOK
    <3>2. delivered' = delivered \union {f.k} /\ net' = Rest(e)
      BY <1>1, <1>6, <2>2, <3>1 DEF Output
    <3> QED
      BY <1>1, <1>2, <1>4, <1>6, <2>2, <3>2
  <2>3. CASE e = "S"
    <3>1. c = f.k
      <4>1. calls[f.k].end = e /\ calls[f.k].id = f.id /\ f.id # 0
        BY <1>3, <2>3 DEF OutOK
      <4> QED
        BY <1>1, <2>1, <4>1 DEF IdInv, IdOK
    <3>2. up \in Keys /\ up # 0 /\ up = calls[f.k].route
      BY <2>1, <2>3, <3>1, ListOf DEF RefInv, RefOK
    <3>3. UNCHANGED delivered
      BY <1>1, <1>6, <3>2 DEF Output
    <3>4. CASE phase[e] # "open"
      <4>1. net' = Rest(e)
        BY <1>1, <1>6, <3>2, <3>4 DEF Output
      <4> QED
        BY <1>1, <1>2, <1>4, <2>3, <3>3, <3>4, <4>1
    <3>5. CASE phase[e] = "open"
      <4> DEFINE g == [f EXCEPT !.id = calls[calls[f.k].route].id]
      <4>1. PICK ok \in BOOLEAN : Sends(Rest(e), e, g, ok)
        BY <1>1, <1>6, <3>2, <3>5, Zenon DEF Output
      <4>2. g \in Frames
        <5>1. f \in Outputs
          BY <1>1, FrameKind
        <5>2. calls[calls[f.k].route].id \in Ids
          BY <3>2, CallerEnd
        <5> HIDE DEF f
        <5> QED
          BY <5>1, <5>2 DEF Outputs, Frames
      <4> HIDE DEF g
      <4>3. Replying(e, g)
        BY <1>1, <4>1, <4>2, ReplyingOf
      <4>4. Taking(e)
        BY <4>3 DEF Replying
      <4> QED
        BY <1>1, <1>2, <1>6, <2>3, <3>2, <3>3, <4>3, <4>4, Zenon DEF g
    <3> QED
      BY <3>4, <3>5
  <2> QED
    BY <2>2, <2>3, EndParts
<1> QED
  BY <1>5, <1>6

(* What a step of CloseFd does. *)
LEMMA CloseFdShape ==
  ASSUME TypeInv, NEW e \in Ends, CloseFd(e), UNCHANGED own
  PROVE  /\ phase' \in [Ends -> {"open", "marked", "shut", "closed"}] /\ phase'[e] # "open"
         /\ Up(e) /\ phase[e] # "open"
         /\ \A d \in Ends : d # e => phase'[d] = phase[d]
         /\ UNCHANGED <<proc, net, nextId, pending, promise, own>>
BY DEF CloseFd, TypeInv, LinkType

(* What a step of CloseTable does. *)
LEMMA CloseTableShape ==
  ASSUME TypeInv, NEW e \in Ends, CloseTable(e), UNCHANGED own
  PROVE  /\ phase' \in [Ends -> {"open", "marked", "shut", "closed"}] /\ phase'[e] # "open"
         /\ Up(e) /\ phase[e] # "open"
         /\ \A d \in Ends : d # e => phase'[d] = phase[d]
         /\ SlotsType
         /\ \A d \in Ends : \A j \in Ids : ~(d = e /\ j \in pending[e]) => Untouched(d, j)
         /\ \A j \in pending[e] : Settled(e, j) /\ promise'[e][j].st = "err"
         /\ UNCHANGED <<proc, net, nextId, own>>
<1>1. /\ phase' \in [Ends -> {"open", "marked", "shut", "closed"}] /\ phase'[e] # "open"
      /\ Up(e) /\ phase[e] # "open"
      /\ \A d \in Ends : d # e => phase'[d] = phase[d]
  BY DEF CloseTable, TypeInv, LinkType
<1>2. RejectPending(e) /\ UNCHANGED <<proc, net, nextId, own>>
  BY DEF CloseTable
<1> QED
  BY <1>1, <1>2, RejectSlots

-----------------------------------------------------------------------------
(* The workers of actors. *)

(* What a step of Begin does. *)
LEMMA BeginShape ==
  ASSUME TypeInv, QueueInv, NEW a \in {"A", "L"}, Begin(a)
  PROVE  LET k == actors[a].q[1]
         IN /\ actors[a].q # <<>> /\ actors[a].cur = 0 /\ k \in Keys /\ k # 0 /\ InHand(k, a)
            /\ Alters(k, {"ran"}) /\ Keys' = Keys /\ Len(calls') = Len(calls)
            /\ calls[k].ran = <<>> /\ calls'[k].ran = <<a>>
            /\ ActorSet(a, Tail(actors[a].q), k)
            /\ UNCHANGED <<linkVars, world, main, session, registry, locals, proxies, kept,
                           printed, delivered, left>>
<1> DEFINE q == actors[a].q
           k == q[1]
           c == actors[a]
           u == Tail(q)
           d == [c EXCEPT !.cur = k, !.q = u]
<1>1. actors[a].q # <<>> /\ actors[a].cur = 0
  BY DEF Begin
<1>2. c \in ActorRec /\ q \in Seq(Nat)
  BY ActorType
<1>3. 1 \in DOMAIN q /\ Head(q) = k /\ u \in Seq(Nat)
  BY <1>1, <1>2
<1>4. k \in Keys /\ InHand(k, a) /\ calls[k].ran = <<>>
  BY <1>3 DEF QueueInv, QueueOK, InHand
<1>5. calls \in Seq(CallRec) /\ k \in DOMAIN calls /\ k \in Nat /\ k # 0
  BY <1>4, CallerEnd, CallOf
<1>6. calls' = WithRan(calls, k, Append(calls[k].ran, a))
  BY <1>3, Zenon DEF Begin, WithRan
<1>7. actors' = [actors EXCEPT ![a].cur = k, ![a].q = Tail(@)]
  BY <1>3, Zenon DEF Begin
<1>8. actors' = [actors EXCEPT ![a] = d]
  BY <1>7, Zenon
<1>9. Append(calls[k].ran, a) = <<a>> /\ <<a>> \in Seq({"A", "L"})
  BY <1>4
<1> HIDE DEF c, u, k
<1>10. d \in ActorRec /\ d.q = u /\ d.cur = k
  BY <1>2, <1>3, <1>5 DEF ActorRec
<1> HIDE DEF d
<1>11. ActorSet(a, d.q, d.cur)
  BY <1>8, <1>10, ActorPut, Zenon
<1>12. Changed(calls, calls', k, {"ran"}) /\ calls'[k].ran = <<a>>
  <2>1. calls' = WithRan(calls, k, <<a>>)
    BY <1>6, <1>9, Zenon
  <2> DEFINE r == <<a>>
  <2>2. calls' = WithRan(calls, k, r) /\ r \in Seq({"A", "L"})
    BY <1>9, <2>1
  <2> HIDE DEF r
  <2>3. Changed(calls, calls', k, {"ran"}) /\ calls'[k].ran = r
    BY <1>5, <2>2, SetRan
  <2> QED
    BY <2>3 DEF r
<1>13. Alters(k, {"ran"}) /\ Keys' = Keys /\ Len(calls') = Len(calls)
  BY <1>12, AltersPlace
<1>14. UNCHANGED <<linkVars, world, main, session, registry, locals, proxies, kept,
                           printed, delivered, left>>
  BY DEF Begin
<1> QED
  BY <1>1, <1>4, <1>5, <1>10, <1>11, <1>12, <1>13, <1>14, Zenon DEF k, u

(* The call an actor is at. *)
LEMMA AtCall ==
  ASSUME TypeInv, QueueInv, NEW a \in {"A", "L"}, actors[a].cur # 0
  PROVE  /\ actors[a].cur \in Keys /\ InHand(actors[a].cur, a)
         /\ calls[actors[a].cur].ran = <<a>> /\ calls \in Seq(CallRec)
         /\ actors[a].cur \in DOMAIN calls /\ calls[actors[a].cur] \in CallRec
         /\ calls[actors[a].cur].id \in Ids /\ calls[actors[a].cur].end \in Ends
         /\ actors[a].cur \in Nat /\ Home(a) \in Ends /\ Peered(actors[a].cur) = Home(a)
         /\ calls[actors[a].cur].body \in Seq(Ops)
<1>1. /\ actors[a].cur \in Keys /\ InHand(actors[a].cur, a)
      /\ calls[actors[a].cur].ran = <<a>>
  BY DEF QueueInv, QueueOK, InHand
<1>2. /\ calls \in Seq(CallRec) /\ actors[a].cur \in DOMAIN calls
      /\ calls[actors[a].cur] \in CallRec /\ calls[actors[a].cur].id \in Ids
      /\ calls[actors[a].cur].end \in Ends /\ actors[a].cur \in Nat
  BY <1>1, CallerEnd
<1>3. Home(a) \in Ends /\ Peered(actors[a].cur) = Home(a)
  BY <1>1, <1>2, EndParts DEF Home, InHand, Actor, Peered
<1> QED
  BY <1>1, <1>2, <1>3, CallType

(* A method has gone on by one operation. *)
LEMMA DidShape ==
  ASSUME TypeInv, QueueInv, NEW a \in {"A", "L"}, NEW op, Doing(a, op)
  PROVE  LET k == actors[a].cur
         IN /\ k # 0 /\ calls[k].body # <<>> /\ Head(calls[k].body) = op
            /\ Changed(calls, Did(k), k, {"body"}) /\ Did(k)[k].body = Tail(calls[k].body)
<1> DEFINE k == actors[a].cur
           b == Tail(calls[k].body)
<1>1. k # 0 /\ calls[k].body # <<>> /\ Head(calls[k].body) = op
  BY DEF Doing
<1>2. calls \in Seq(CallRec) /\ k \in DOMAIN calls /\ calls[k].body \in Seq(Ops)
  BY <1>1, AtCall
<1>3. b \in Seq(Ops)
  BY <1>1, <1>2
<1>4. Did(k) = WithBody(calls, k, b)
  BY Zenon DEF Did, WithBody
<1> HIDE DEF k, b
<1>5. Changed(calls, Did(k), k, {"body"}) /\ Did(k)[k].body = b
  BY <1>2, <1>3, <1>4, SetBody
<1> QED
  BY <1>1, <1>5, Zenon DEF k, b

(* What a step of DoPrint does. *)
LEMMA DoPrintShape ==
  ASSUME TypeInv, QueueInv, NEW a \in {"A", "L"}, DoPrint(a)
  PROVE  LET k == actors[a].cur
         IN /\ k # 0 /\ k \in Keys /\ InHand(k, a) /\ calls[k].ran = <<a>> /\ Home(a) \in Ends
            /\ Peered(k) = Home(a)
            /\ Alters(k, {"body"}) /\ Keys' = Keys /\ Len(calls') = Len(calls)
            /\ calls[k].body # <<>>
            /\ phase[Home(a)] = "open" => Sending(Home(a), [t |-> "out", id |-> calls[k].id, k |-> k])
            /\ phase[Home(a)] # "open" => net' = net
            /\ printed' = printed \union {k}
            /\ UNCHANGED <<proc, phase, nextId, pending, promise, world, main, session, registry,
                           locals, proxies, actors, kept, delivered, left>>
<1> DEFINE k == actors[a].cur
           e == Home(a)
           f == [t |-> "out", id |-> calls[k].id, k |-> k]
<1>1. /\ k # 0 /\ calls[k].body # <<>> /\ Changed(calls, Did(k), k, {"body"}) /\ calls' = Did(k)
  <2>1. Doing(a, "print") /\ calls' = Did(k)
    BY DEF DoPrint
  <2> QED
    BY <2>1, DidShape
<1>2. Alters(k, {"body"}) /\ Keys' = Keys /\ Len(calls') = Len(calls)
  BY <1>1, AltersPlace
<1>3. /\ k \in Keys /\ InHand(k, a) /\ calls[k].ran = <<a>> /\ e \in Ends /\ Peered(k) = e
      /\ calls[k].id \in Ids /\ k \in Nat
  BY <1>1, AtCall
<1>4. f \in Frames
  BY <1>3, MadeFrames
<1>5. phase[e] = "open" => \E ok \in BOOLEAN : Sends(net, e, f, ok)
  BY DEF DoPrint
<1>6. phase[e] = "open" => Sending(e, f)
  BY <1>3, <1>4, <1>5, SendingOf
<1>7. phase[e] # "open" => net' = net
  BY DEF DoPrint
<1> QED
  BY <1>1, <1>2, <1>3, <1>6, <1>7 DEF DoPrint

(* What a step of DoKeep does. *)
LEMMA DoKeepShape ==
  ASSUME TypeInv, QueueInv, DoKeep("A")
  PROVE  LET k == actors["A"].cur
         IN /\ k # 0 /\ k \in Keys /\ InHand(k, "A") /\ calls[k].ran = <<"A">>
            /\ Alters(k, {"body"}) /\ Keys' = Keys /\ Len(calls') = Len(calls)
            /\ calls[k].body # <<>> /\ kept' = calls[k].ref
            /\ UNCHANGED <<linkVars, world, main, session, registry, locals, proxies, actors,
                           printed, delivered, left>>
<1> DEFINE k == actors["A"].cur
<1>1. /\ k # 0 /\ calls[k].body # <<>> /\ Changed(calls, Did(k), k, {"body"}) /\ calls' = Did(k)
  <2>1. Doing("A", "keep") /\ calls' = Did(k)
    BY DEF DoKeep
  <2> QED
    BY <2>1, DidShape
<1>2. Alters(k, {"body"}) /\ Keys' = Keys /\ Len(calls') = Len(calls)
  BY <1>1, AltersPlace
<1>3. k \in Keys /\ InHand(k, "A") /\ calls[k].ran = <<"A">>
  BY <1>1, AtCall
<1> QED
  BY <1>1, <1>2, <1>3 DEF DoKeep

(* What a step of DoBack does. *)
LEMMA DoBackShape ==
  ASSUME TypeInv, StageInv, RefInv, QueueInv, DoBack("A")
  PROVE  LET k == actors["A"].cur
             p == Callee(k)
         IN /\ k # 0 /\ k \in Keys /\ InHand(k, "A") /\ calls[k].ran = <<"A">> /\ calls[k].end = "C"
            /\ Alters(k, {"body", "last"}) /\ calls[k].body # <<>>
            /\ \/ Keys' = Keys /\ Len(calls') = Len(calls) /\ calls'[k].last = calls[k].last
               \/ /\ Len(calls') = Len(calls) + 1 /\ calls'[k].last = Len(calls) + 1
                  /\ p \in 1 .. Len(proxies) /\ FreshPlain(Len(calls) + 1, "S", p, k)
            /\ UNCHANGED <<linkVars, world, main, session, registry, locals, proxies, actors,
                           kept, printed, delivered, left>>
<1> DEFINE k == actors["A"].cur
           p == Callee(k)
           m == [Plain EXCEPT !.body = world.answer]
           n == NewCall("S", p, m, k)
           x == Dead(n)
           t == Did(k)
           u == WithLast(t, k, Len(calls) + 1)
<1>1. /\ k # 0 /\ calls[k].body # <<>> /\ Changed(calls, t, k, {"body"})
  <2>1. Doing("A", "back")
    BY DEF DoBack
  <2> QED
    BY <2>1, DidShape
<1>2. /\ k \in Keys /\ InHand(k, "A") /\ calls[k].ran = <<"A">> /\ k \in Nat
      /\ calls \in Seq(CallRec) /\ k \in DOMAIN calls /\ calls[k] \in CallRec
      /\ calls[k].end \in Ends
  BY <1>1, AtCall
<1>3. calls[k].end = "C"
  BY <1>2, EndParts DEF InHand, Actor
<1>4. UNCHANGED <<linkVars, world, main, session, registry, locals, proxies, actors,
                  kept, printed, delivered, left>>
  BY DEF DoBack
<1>5. CASE p = 0
  <2>1. calls' = t
    BY <1>5 DEF DoBack
  <2>2. Alters(k, {"body"}) /\ Keys' = Keys /\ Len(calls') = Len(calls)
    BY <1>1, <2>1, AltersPlace
  <2>3. Alters(k, {"body", "last"}) /\ calls'[k].last = calls[k].last
    BY <2>2 DEF Alters, Fields
  <2> QED
    BY <1>1, <1>2, <1>3, <1>4, <2>2, <2>3
<1>6. CASE p # 0
  <2>1. m \in Methods /\ m.arg = "none" /\ m.gives = FALSE
    BY ProgramType, AnswerType, PlainType, Zenon
  <2>2. p \in 1 .. Len(proxies) /\ p \in Nat
    <3>1. calls[k].ref \in Nat /\ calls[k].ref <= Len(proxies)
      BY <1>2, CallType DEF RefInv, RefOK
    <3>2. kept \in Nat /\ kept <= Len(proxies) /\ Len(proxies) \in Nat
      BY DEF StageInv, TypeInv, OwnType
    <3> QED
      BY <1>6, <3>1, <3>2 DEF Callee
  <2>3. calls' = Append(u, n) \/ calls' = Append(u, x)
    <3>1. Home("A") = "S"
      BY DEF Home
    <3> QED
      BY <1>6, <3>1, Zenon DEF DoBack, WithLast, Dead
  <2>4. Len(calls) \in Nat
    BY ListOf
  <2>5. t \in Seq(CallRec) /\ k \in DOMAIN t
    BY <1>1 DEF Changed
  <2> HIDE DEF t, u, m, p, k
  <2>6. Changed(t, u, k, {"last"}) /\ u[k].last = Len(calls) + 1
    BY <2>4, <2>5, SetLast DEF u
  <2>7. Changed(calls, u, k, {"body", "last"})
    BY <1>1, <2>6 DEF Changed, Fields
  <2>8. n \in CallRec /\ "S" \in Ends
    BY <1>2, <2>1, <2>2, NewType, EndParts
  <2>9. x \in CallRec
    <3> HIDE DEF n
    <3> QED
      BY <2>8 DEF CallRec, PCs, Dead
  <2> HIDE DEF n, x
  <2>10. /\ Alters(k, {"body", "last"}) /\ Len(calls') = Len(calls) + 1 /\ calls'[k] = u[k]
         /\ calls'[Len(calls) + 1] = n \/ calls'[Len(calls) + 1] = x
    <3>1. CASE calls' = Append(u, n)
      BY <2>7, <2>8, <3>1, AltersMore
    <3>2. CASE calls' = Append(u, x)
      BY <2>7, <2>9, <3>2, AltersMore
    <3> QED
      BY <2>3, <3>1, <3>2
  <2>11. FreshPlain(Len(calls) + 1, "S", p, k)
    <3> DEFINE j == Len(calls) + 1
    <3> HIDE DEF j
    <3>1. CASE calls'[j] = n
      <4>1. Fresh(j, "S", p, k) /\ calls'[j].arg = m.arg /\ calls'[j].gives = m.gives
        BY <1>2, <2>1, <2>2, <2>8, <3>1, NewFresh DEF n
      <4> QED
        BY <2>1, <4>1, Zenon DEF FreshPlain, j
    <3>2. CASE calls'[j] = x
      <4>1. Fresh(j, "S", p, k) /\ calls'[j].arg = m.arg /\ calls'[j].gives = m.gives
        BY <1>2, <2>1, <2>2, <2>8, <3>2, DeadFresh DEF x, n
      <4> QED
        BY <2>1, <4>1, Zenon DEF FreshPlain, j
    <3> QED
      BY <2>10, <3>1, <3>2 DEF j
  <2>12. calls'[k].last = Len(calls) + 1
    BY <2>6, <2>10
  <2> QED
    BY <1>1, <1>2, <1>3, <1>4, <2>2, <2>10, <2>11, <2>12, Zenon DEF k, p
<1> QED
  BY <1>5, <1>6

(* Two calls are altered: the one that waits and the one it has waited for. *)
LEMMA DoAwaitShape ==
  ASSUME TypeInv, RefInv, QueueInv, DoAwait("A")
  PROVE  LET k == actors["A"].cur
             c == calls[k].last
         IN /\ k # 0 /\ k \in Keys /\ InHand(k, "A") /\ calls[k].ran = <<"A">> /\ calls[k].body # <<>>
            /\ calls' \in Seq(CallRec) /\ Keys' = Keys /\ Len(calls') = Len(calls)
            /\ c # 0 => c \in Keys /\ c # k /\ calls[c].pc = "done" /\ calls'[c].waited = TRUE
            /\ \A j \in Keys : j # k /\ j # c => calls'[j] = calls[j]
            /\ \A f \in Fields \ {"body"} : calls'[k][f] = calls[k][f]
            /\ c # 0 => \A f \in Fields \ {"waited"} : calls'[c][f] = calls[c][f]
            /\ UNCHANGED <<linkVars, world, main, session, registry, locals, proxies, actors,
                           kept, printed, delivered, left>>
<1> DEFINE k == actors["A"].cur
           c == calls[k].last
           t == Did(k)
<1>1. /\ k # 0 /\ calls[k].body # <<>> /\ Changed(calls, t, k, {"body"})
  <2>1. Doing("A", "await")
    BY DEF DoAwait
  <2> QED
    BY <2>1, DidShape
<1>2. /\ k \in Keys /\ InHand(k, "A") /\ calls[k].ran = <<"A">> /\ calls[k].end \in Ends
      /\ calls \in Seq(CallRec) /\ Keys = DOMAIN calls
  BY <1>1, AtCall DEF Keys
<1>3. UNCHANGED <<linkVars, world, main, session, registry, locals, proxies, actors,
                  kept, printed, delivered, left>>
  BY DEF DoAwait
<1>4. c # 0 => calls[c].pc = "done" /\ calls' = WithWaited(t, c)
  BY Zenon DEF DoAwait, WithWaited
<1>5. c = 0 => calls' = t
  BY DEF DoAwait
<1>6. c # 0 => c \in Keys /\ c # k
  <2>1. calls[k].end = "C"
    BY <1>2, EndParts DEF InHand, Actor
  <2> QED
    BY <1>2, <2>1 DEF RefInv, RefOK
<1> HIDE DEF k, c, t
<1>7. CASE c = 0
  <2>1. Changed(calls, calls', k, {"body"})
    BY <1>1, <1>5, <1>7
  <2>2. Keys' = Keys /\ Len(calls') = Len(calls)
    BY <2>1, AltersPlace
  <2>3. /\ calls' \in Seq(CallRec) /\ (\A j \in Keys : j # k /\ j # c => calls'[j] = calls[j])
        /\ \A f \in Fields \ {"body"} : calls'[k][f] = calls[k][f]
    BY <1>2, <2>1 DEF Changed
  <2> QED
    BY <1>1, <1>2, <1>3, <1>7, <2>2, <2>3, Zenon DEF k, c
<1>8. CASE c # 0
  <2>1. t \in Seq(CallRec) /\ c \in DOMAIN t
    BY <1>1, <1>2, <1>6, <1>8 DEF Changed
  <2>2. Changed(t, calls', c, {"waited"}) /\ calls'[c].waited = TRUE
    BY <1>4, <1>8, <2>1, SetWaited
  <2>3. /\ calls' \in Seq(CallRec) /\ DOMAIN calls' = DOMAIN calls /\ Len(calls') = Len(calls)
        /\ \A j \in Keys : j # k /\ j # c => calls'[j] = calls[j]
    BY <1>1, <1>2, <2>2 DEF Changed
  <2>4. \A f \in Fields \ {"body"} : calls'[k][f] = calls[k][f]
    BY <1>1, <1>2, <1>6, <1>8, <2>2 DEF Changed
  <2>5. \A f \in Fields \ {"waited"} : calls'[c][f] = calls[c][f]
    BY <1>1, <1>2, <1>6, <1>8, <2>2 DEF Changed
  <2>6. Keys' = Keys
    BY <2>3 DEF Keys
  <2> QED
    BY <1>1, <1>2, <1>3, <1>4, <1>6, <1>8, <2>2, <2>3, <2>4, <2>5, <2>6, Zenon DEF k, c
<1> QED
  BY <1>7, <1>8

(* What a step of Finish does. *)
LEMMA FinishShape ==
  ASSUME TypeInv, QueueInv, NEW a \in {"A", "L"}, Finish(a)
  PROVE  LET k == actors[a].cur
         IN /\ k # 0 /\ k \in Keys /\ InHand(k, a) /\ calls[k].ran = <<a>> /\ calls[k].body = <<>>
            /\ Alters(k, {"job"}) /\ Keys' = Keys /\ Len(calls') = Len(calls)
            /\ calls'[k].job = IF calls[k].via = 0 THEN "sent" ELSE "ran"
            /\ ActorSet(a, actors[a].q, 0)
            /\ UNCHANGED <<linkVars, world, main, session, registry, locals, proxies, kept,
                           printed, delivered, left>>
<1> DEFINE k == actors[a].cur
           c == actors[a]
           z == 0
           d == [c EXCEPT !.cur = z]
           x == IF calls[k].via = 0 THEN "sent" ELSE "ran"
<1>1. k # 0 /\ calls[k].body = <<>>
  BY DEF Finish
<1>2. /\ k \in Keys /\ InHand(k, a) /\ calls[k].ran = <<a>> /\ calls \in Seq(CallRec)
      /\ k \in DOMAIN calls
  BY <1>1, AtCall
<1>3. UNCHANGED <<linkVars, world, main, session, registry, locals, proxies, kept,
                           printed, delivered, left>>
  BY DEF Finish
<1>4. calls' = WithJob(calls, k, x)
  BY Zenon DEF Finish, WithJob
<1>5. x \in Jobs
  BY DEF Jobs
<1>6. actors' = [actors EXCEPT ![a].cur = z]
  BY DEF Finish
<1>7. actors' = [actors EXCEPT ![a] = d]
  BY <1>6, Zenon
<1>8. c \in ActorRec /\ z \in Nat
  BY ActorType
<1> HIDE DEF x, k, c, z
<1>9. d \in ActorRec /\ d.q = c.q /\ d.cur = z
  BY <1>8 DEF ActorRec
<1> HIDE DEF d
<1>10. ActorSet(a, d.q, d.cur)
  BY <1>7, <1>9, ActorPut, Zenon
<1>11. ActorSet(a, actors[a].q, 0)
  BY <1>9, <1>10, Zenon DEF c, z
<1>12. Changed(calls, calls', k, {"job"}) /\ calls'[k].job = x
  BY <1>2, <1>4, <1>5, SetJob
<1>13. Alters(k, {"job"}) /\ Keys' = Keys /\ Len(calls') = Len(calls)
  BY <1>12, AltersPlace
<1> QED
  BY <1>1, <1>2, <1>3, <1>11, <1>12, <1>13, Zenon DEF k, x

(* What a step of Exit does. *)
LEMMA ExitShape ==
  ASSUME TypeInv, Exit("A")
  PROVE  /\ ActorsKept
         /\ UNCHANGED <<linkVars, world, main, session, registry, locals, proxies, calls, kept,
                        printed, delivered, left>>
<1>1. actors' = [actors EXCEPT !["A"].st = "exited"]
  BY Zenon DEF Exit
<1> QED
  BY <1>1, ActorSt, Zenon DEF Exit

(* What a step of Forget does. *)
LEMMA ForgetShape ==
  ASSUME TypeInv, Forget
  PROVE  /\ ActorsKept
         /\ UNCHANGED <<linkVars, world, main, session, registry, locals, proxies, calls, kept,
                        printed, delivered, left>>
<1>1. actors' = [actors EXCEPT !["L"].st = "exited"]
  BY Zenon DEF Forget
<1> QED
  BY <1>1, ActorSt, Zenon DEF Forget

(* What a step of Drop does. *)
LEMMA DropShape ==
  ASSUME TypeInv, NEW p \in DOMAIN proxies, Drop(p)
  PROVE  /\ ProxiesKept /\ Mark("S")
         /\ UNCHANGED <<proc, net, nextId, pending, promise, world, main, session, registry,
                        locals, calls, actors, kept, printed, delivered, left>>
<1>1. proxies' = [proxies EXCEPT ![p].st = "gone"] /\ Mark("S")
  BY Zenon DEF Drop
<1>2. p \in 1 .. Len(proxies)
  BY DEF TypeInv, OwnType
<1>3. ProxiesKept
  BY <1>1, <1>2, ProxyOff, Zenon
<1> QED
  BY <1>1, <1>3 DEF Drop

-----------------------------------------------------------------------------
(* The invariant is kept: types *)

(* The types are preserved. *)
LEMMA TypeStep ==
  ASSUME Inv, [Next]_vars
  PROVE  TypeInv'
<1>0. /\ TypeInv /\ StageInv /\ RefInv /\ FrameInv /\ IdInv /\ SlotInv /\ JobInv /\ QueueInv
  BY DEF Inv
<1>1. ASSUME Connect PROVE TypeInv'
  BY <1>1, <1>0, ConnectShape DEF TypeInv, LinkType, OwnType, Sending
<1>2. ASSUME EnterSlot PROVE TypeInv'
  BY <1>2, <1>0, EnterSlotShape DEF TypeInv, LinkType, OwnType, SlotsType
<1>3. ASSUME TakeFuture PROVE TypeInv'
  BY <1>3, <1>0, TakeFutureShape, DiesShape, EndParts, SMTT(60) DEF TypeInv, LinkType, OwnType
<1>4. ASSUME Greeted PROVE TypeInv'
  BY <1>4, <1>0, GreetedShape DEF TypeInv, LinkType, OwnType
<1>5. ASSUME Unwind PROVE TypeInv'
  BY <1>5, <1>0, UnwindShape, MarkShape, EndParts DEF TypeInv, LinkType, OwnType, own
<1>6. ASSUME NEW k \in Keys, TakeCall(k) PROVE TypeInv'
  BY <1>6, <1>0, TakeCallShape DEF TypeInv, LinkType, OwnType, Alters
<1>7. ASSUME NEW k \in Keys, EnterCall(k) PROVE TypeInv'
  BY <1>7, <1>0, EnterCallShape DEF TypeInv, LinkType, OwnType, Alters, SlotsType
<1>8. ASSUME NEW k \in Keys, SendCall(k) PROVE TypeInv'
  <2>1. /\ net' \in [Ends -> Seq(Frames)] /\ calls' \in Seq(CallRec)
        /\ UNCHANGED <<proc, phase, nextId, pending, promise, world, session, registry, locals,
                       actors, kept, printed, delivered, left>>
    BY <1>8, <1>0, SendCallShape DEF Sending, Alters, Threw
  <2>2. /\ proxies' \in Seq(ProxyRec)
        /\ main' \in {"start", "slot", "future", "hello", "spawning", "running", "failed"}
    BY <1>8, <1>0, SendCallShape DEF Threw, ProxiesKept, TypeInv, OwnType
  <2> QED
    BY <1>0, <2>1, <2>2 DEF TypeInv, LinkType, OwnType
<1>9. ASSUME NEW k \in Keys, ReturnCall(k) PROVE TypeInv'
  <2>1. /\ calls' \in Seq(CallRec)
        /\ UNCHANGED <<linkVars, world, session, registry, locals, actors, kept, printed,
                       delivered, left>>
    BY <1>9, <1>0, ReturnCallShape DEF Came, Alters, Threw
  <2>2. /\ proxies' \in Seq(ProxyRec)
        /\ main' \in {"start", "slot", "future", "hello", "spawning", "running", "failed"}
    BY <1>9, <1>0, ReturnCallShape DEF Threw, Launched, ProxiesKept, TypeInv, OwnType
  <2> QED
    BY <1>0, <2>1, <2>2 DEF TypeInv, LinkType, OwnType, linkVars
<1>10. ASSUME NEW k \in Keys, JobQueue(k) PROVE TypeInv'
  BY <1>10, <1>0, JobQueueShape DEF TypeInv, LinkType, OwnType, linkVars, Alters, ActorSet
<1>11. ASSUME NEW k \in Keys, JobReply(k) PROVE TypeInv'
  BY <1>11, <1>0, JobReplyShape, DiesShape DEF TypeInv, LinkType, OwnType, Alters, Sending
<1>12. ASSUME Welcome PROVE TypeInv'
  BY <1>12, <1>0, WelcomeShape DEF TypeInv, LinkType, OwnType, Replying, Taking, ActorsKept
<1>13. ASSUME Spawn PROVE TypeInv'
  BY <1>13, <1>0, SpawnShape DEF TypeInv, LinkType, OwnType, Replying, Taking, ActorSet
<1>14. ASSUME Serve PROVE TypeInv'
  BY <1>14, <1>0, ServeShape, ZenonT(120)
     DEF TypeInv, LinkType, OwnType, Reading1, Replying, Taking, Alters, ActorsKept,
     ProxyAdded
<1>15. ASSUME Disconnected PROVE TypeInv'
  BY <1>15, <1>0, DisconnectedShape DEF TypeInv, LinkType, OwnType, linkVars, ActorsKept
<1>16. ASSUME CleanedUp PROVE TypeInv'
  BY <1>16, <1>0 DEF TypeInv, LinkType, OwnType, CleanedUp, linkVars
<1>17. ASSUME Released PROVE TypeInv'
  BY <1>17, <1>0, MarkShape, EndParts DEF TypeInv, LinkType, OwnType, Released, own
<1>18. ASSUME HelloAnswer PROVE TypeInv'
  BY <1>18, <1>0, HelloAnswerShape, MarkShape, EndParts, ZenonT(120)
     DEF TypeInv, LinkType, OwnType, own, Reading1, Taking, SlotsType
<1>19. ASSUME Refer PROVE TypeInv'
  BY <1>19, <1>0, ReferShape, ZenonT(120) DEF TypeInv, LinkType, OwnType, Reading1, Taking, Alters, SlotsType
<1>20. ASSUME Hangup PROVE TypeInv'
  BY <1>20, <1>0, MarkShape, EndParts DEF TypeInv, LinkType, OwnType, Hangup, own
<1>21. ASSUME NEW e \in Ends, Result(e) PROVE TypeInv'
  <2>1. /\ net' \in [Ends -> Seq(Frames)] /\ SlotsType
        /\ UNCHANGED <<proc, phase, nextId, world, main, session, registry, locals, actors,
                       kept, printed, delivered, left>>
    BY <1>21, <1>0, ResultShape DEF Reading1, Taking
  <2>2. calls' \in Seq(CallRec) /\ proxies' \in Seq(ProxyRec)
    BY <1>21, <1>0, ResultShape DEF Alters, ProxyAdded, TypeInv, OwnType
  <2> QED
    BY <1>0, <2>1, <2>2 DEF TypeInv, LinkType, OwnType, SlotsType
<1>22. ASSUME NEW e \in Ends, Output(e) PROVE TypeInv'
  <2>1. /\ net' \in [Ends -> Seq(Frames)]
        /\ UNCHANGED <<proc, phase, nextId, pending, promise, world, main, session, registry,
                       locals, proxies, calls, actors, kept, printed, left>>
    BY <1>22, <1>0, OutputShape, Zenon DEF Taking
  <2> QED
    BY <1>0, <2>1 DEF TypeInv, LinkType, OwnType
<1>23. ASSUME NEW e \in Ends, CloseFd(e), UNCHANGED own PROVE TypeInv'
  BY <1>23, <1>0, CloseFdShape DEF TypeInv, LinkType, OwnType, own
<1>24. ASSUME NEW e \in Ends, CloseTable(e), UNCHANGED own PROVE TypeInv'
  BY <1>24, <1>0, CloseTableShape DEF TypeInv, LinkType, OwnType, own, SlotsType
<1>25. ASSUME NEW a \in {"A", "L"}, Begin(a) PROVE TypeInv'
  BY <1>25, <1>0, BeginShape DEF TypeInv, LinkType, OwnType, linkVars, Alters, ActorSet
<1>26. ASSUME NEW a \in {"A", "L"}, DoPrint(a) PROVE TypeInv'
  BY <1>26, <1>0, DoPrintShape DEF TypeInv, LinkType, OwnType, Alters, Sending
<1>27. ASSUME DoKeep("A") PROVE TypeInv'
  BY <1>27, <1>0, DoKeepShape, CallOf, CallType DEF TypeInv, LinkType, OwnType, linkVars, Alters
<1>28. ASSUME DoBack("A") PROVE TypeInv'
  BY <1>28, <1>0, DoBackShape DEF TypeInv, LinkType, OwnType, linkVars, Alters
<1>29. ASSUME DoAwait("A") PROVE TypeInv'
  BY <1>29, <1>0, DoAwaitShape DEF TypeInv, LinkType, OwnType, linkVars
<1>30. ASSUME NEW a \in {"A", "L"}, Finish(a) PROVE TypeInv'
  BY <1>30, <1>0, FinishShape DEF TypeInv, LinkType, OwnType, linkVars, Alters, ActorSet
<1>31. ASSUME Exit("A") PROVE TypeInv'
  BY <1>31, <1>0, ExitShape DEF TypeInv, LinkType, OwnType, linkVars, ActorsKept
<1>32. ASSUME NEW p \in DOMAIN proxies, Drop(p) PROVE TypeInv'
  BY <1>32, <1>0, DropShape, MarkShape, EndParts DEF TypeInv, LinkType, OwnType, ProxiesKept
<1>33. ASSUME Forget PROVE TypeInv'
  BY <1>33, <1>0, ForgetShape DEF TypeInv, LinkType, OwnType, linkVars, ActorsKept
<1>34. ASSUME Leave PROVE TypeInv'
  BY <1>34, <1>0, MarkShape, EndParts DEF TypeInv, LinkType, OwnType, Leave
<1>35. ASSUME NEW e \in Ends, Crash(e) PROVE TypeInv'
  BY <1>35, <1>0, DiesShape DEF TypeInv, LinkType, OwnType, Crash
<1>36. ASSUME UNCHANGED vars PROVE TypeInv'
  BY <1>36, <1>0 DEF TypeInv, LinkType, OwnType, vars, linkVars, own
<1> QED
  BY <1>1, <1>2, <1>3, <1>4, <1>5, <1>6, <1>7, <1>8, <1>9, <1>10, <1>11, <1>12, <1>13, <1>14,
     <1>15, <1>16, <1>17, <1>18, <1>19, <1>20, <1>21, <1>22, <1>23, <1>24, <1>25, <1>26,
     <1>27, <1>28, <1>29, <1>30, <1>31, <1>32, <1>33, <1>34, <1>35, <1>36
     DEF Next, Step, Environment

-----------------------------------------------------------------------------
(* The calls: what never changes of them, and what only moves forward *)

Older(k) ==
  /\ calls'[k].end = calls[k].end /\ calls'[k].via = calls[k].via
  /\ calls'[k].arg = calls[k].arg /\ calls'[k].gives = calls[k].gives
  /\ calls'[k].route = calls[k].route /\ calls'[k].for = calls[k].for
  /\ calls'[k].id = calls[k].id \/ (calls[k].pc = "queued" /\ calls'[k].pc = "ready")
  /\ \/ calls'[k].pc = calls[k].pc
     \/ calls[k].pc = "queued" /\ calls'[k].pc \in {"ready", "done"}
     \/ calls[k].pc = "ready" /\ calls'[k].pc = "entered"
     \/ calls[k].pc = "entered" /\ calls'[k].pc \in {"wait", "done"}
     \/ calls[k].pc = "wait" /\ calls'[k].pc = "done"
  /\ calls[k].ran # <<>> => calls'[k].ran = calls[k].ran
  /\ calls[k].body = <<>> => calls'[k].body = <<>>
  /\ calls[k].job # "none" => calls'[k].job # "none"
  /\ calls[k].job = "sent" => calls'[k].job = "sent"
  /\ calls[k].res = "ok" => calls'[k].res = "ok" /\ calls'[k].from = calls[k].from
  /\ calls'[k].last = calls[k].last \/ calls'[k].last \notin Keys
  /\ calls[k].waited => calls'[k].waited

CallsGrow ==
  /\ calls' \in Seq(CallRec) /\ Len(calls') \in Nat /\ Len(calls) \in Nat
  /\ Len(calls') >= Len(calls)
  /\ \A k \in Keys : Older(k)

(* No call changes; one does; one has thrown. *)
LEMMA GrowSame ==
  ASSUME TypeInv, UNCHANGED calls
  PROVE  CallsGrow
BY ListOf DEF CallsGrow, Older

(* One call goes on. *)
LEMMA GrowBy ==
  ASSUME TypeInv, NEW k, NEW F, Alters(k, F), Older(k)
  PROVE  CallsGrow
<1>1. \A j \in Keys : j # k => calls'[j] = calls[j]
  BY DEF Alters
<1>2. \A j \in Keys : j # k => Older(j)
  BY <1>1 DEF Older
<1> QED
  BY <1>2, ListOf DEF CallsGrow, Alters

(* A call has thrown. *)
LEMMA GrowThrown ==
  ASSUME TypeInv, TakenInv, NEW k, Threw(k), calls[k].pc \in {"entered", "wait"}
  PROVE  CallsGrow
<1>1. ASSUME NEW j \in Keys PROVE Older(j)
  <2>1. CASE ~Gone(k, j)
    BY <2>1 DEF Threw, Older
  <2>2. CASE Gone(k, j)
    <3>1. /\ calls'[j].pc = "done" /\ calls'[j].res = "nil"
          /\ \A f \in Fields \ {"pc", "res"} : calls'[j][f] = calls[j][f]
      BY <2>2 DEF Threw
    <3>2. calls[j].pc \in {"queued", "entered", "wait"}
      BY <2>2 DEF Gone
    <3>3. calls[j].res # "ok"
      BY <3>2 DEF TakenInv
    <3> QED
      BY <3>1, <3>2, <3>3 DEF Older, Fields
  <2> QED
    BY <2>1, <2>2
<1> QED
  BY <1>1, ListOf DEF Threw, CallsGrow

(* A call keeps what it is, and moves forward only. *)
LEMMA GrowStep ==
  ASSUME Inv, [Next]_vars
  PROVE  CallsGrow
<1>0. /\ TypeInv /\ StageInv /\ RefInv /\ FrameInv /\ IdInv /\ SlotInv /\ JobInv /\ QueueInv
      /\ TakenInv
  BY DEF Inv
<1>1. ASSUME Connect PROVE CallsGrow
  BY <1>1, <1>0, GrowSame, ConnectShape
<1>2. ASSUME EnterSlot PROVE CallsGrow
  BY <1>2, <1>0, GrowSame, EnterSlotShape
<1>3. ASSUME TakeFuture PROVE CallsGrow
  BY <1>3, <1>0, GrowSame, TakeFutureShape
<1>4. ASSUME Greeted PROVE CallsGrow
  <2>1. CASE UNCHANGED calls
    BY <1>0, <2>1, GrowSame
  <2>2. CASE calls' \in Seq(CallRec) /\ Len(calls') = 1
    <3>1. calls = <<>>
      BY <1>4, <1>0, GreetedShape
    <3>2. Keys = {} /\ Len(calls) = 0
      BY <3>1 DEF Keys
    <3> QED
      BY <2>2, <3>2 DEF CallsGrow
  <2> QED
    BY <1>4, <1>0, <2>1, <2>2, GreetedShape
<1>5. ASSUME Unwind PROVE CallsGrow
  BY <1>5, <1>0, GrowSame, UnwindShape DEF own
<1>6. ASSUME NEW k \in Keys, TakeCall(k) PROVE CallsGrow
  <2>1. Alters(k, {"pc", "id", "wire"}) /\ calls[k].pc = "queued" /\ calls'[k].pc = "ready"
    BY <1>6, <1>0, TakeCallShape
  <2>2. Older(k)
    BY <1>0, <2>1, <1>0 DEF Alters, Older, Fields, TakenInv
  <2> QED
    BY <1>0, <2>1, <2>2, GrowBy
<1>7. ASSUME NEW k \in Keys, EnterCall(k) PROVE CallsGrow
  <2>1. Alters(k, {"pc"}) /\ calls[k].pc = "ready" /\ calls'[k].pc = "entered"
    BY <1>7, <1>0, EnterCallShape
  <2>2. Older(k)
    BY <1>0, <2>1 DEF Alters, Older, Fields
  <2> QED
    BY <1>0, <2>1, <2>2, GrowBy
<1>8. ASSUME NEW k \in Keys, SendCall(k) PROVE CallsGrow
  <2>1. CASE Alters(k, {"pc"}) /\ calls'[k].pc = "wait"
    <3>1. calls[k].pc = "entered"
      BY <1>8, <1>0, SendCallShape
    <3>2. Older(k)
      BY <1>0, <2>1, <3>1 DEF Alters, Older, Fields
    <3> QED
      BY <1>0, <2>1, <3>2, GrowBy
  <2>2. CASE Threw(k)
    <3>1. calls[k].pc = "entered"
      BY <1>8, <1>0, SendCallShape
    <3> QED
      BY <1>0, <2>2, <3>1, GrowThrown
  <2> QED
    BY <1>8, <1>0, <2>1, <2>2, SendCallShape
<1>9. ASSUME NEW k \in Keys, ReturnCall(k) PROVE CallsGrow
  <2>0. calls[k].pc = "wait"
    BY <1>9, <1>0, ReturnCallShape
  <2>1. CASE Came(k)
    <3>1. Alters(k, {"pc", "res", "from"}) /\ calls'[k].pc = "done" /\ calls'[k].res = "ok"
      BY <2>1 DEF Came
    <3>2. Older(k)
      BY <1>0, <2>0, <3>1 DEF Alters, Older, Fields, TakenInv
    <3> QED
      BY <1>0, <3>1, <3>2, GrowBy
  <2>2. CASE Threw(k)
    BY <1>0, <2>0, <2>2, GrowThrown
  <2> QED
    BY <1>9, <1>0, <2>1, <2>2, ReturnCallShape
<1>10. ASSUME NEW k \in Keys, JobQueue(k) PROVE CallsGrow
  <2>1. Alters(k, {"job"}) /\ calls[k].job = "new" /\ calls'[k].job # "none"
    BY <1>10, <1>0, JobQueueShape
  <2>2. Older(k)
    BY <1>0, <2>1 DEF Alters, Older, Fields
  <2> QED
    BY <1>0, <2>1, <2>2, GrowBy
<1>11. ASSUME NEW k \in Keys, JobReply(k) PROVE CallsGrow
  <2>1. Alters(k, {"job"}) /\ calls'[k].job = "sent"
    BY <1>11, <1>0, JobReplyShape
  <2>2. Older(k)
    BY <1>0, <2>1 DEF Alters, Older, Fields
  <2> QED
    BY <1>0, <2>1, <2>2, GrowBy
<1>12. ASSUME Welcome PROVE CallsGrow
  BY <1>12, <1>0, GrowSame, WelcomeShape
<1>13. ASSUME Spawn PROVE CallsGrow
  BY <1>13, <1>0, GrowSame, SpawnShape
<1>14. ASSUME Serve PROVE CallsGrow
  <2> DEFINE c == net["S"][1].k
  <2>1. CASE Alters(c, {"job", "to", "ref"})
    <3>1. calls[c].job = "none"
      BY <1>14, <1>0, ServeShape DEF FrameOK, RequestOK, IsRequest
    <3> HIDE DEF c
    <3>2. Older(c)
      BY <2>1, <3>1 DEF Alters, Older, Fields
    <3> QED
      BY <1>0, <2>1, <3>2, GrowBy
  <2>2. CASE UNCHANGED calls
    BY <1>0, <2>2, GrowSame
  <2> QED
    BY <1>14, <1>0, <2>1, <2>2, ServeShape
<1>15. ASSUME Disconnected PROVE CallsGrow
  BY <1>15, <1>0, GrowSame, DisconnectedShape DEF linkVars
<1>16. ASSUME CleanedUp PROVE CallsGrow
  BY <1>16, <1>0, GrowSame DEF CleanedUp, linkVars
<1>17. ASSUME Released PROVE CallsGrow
  BY <1>17, <1>0, GrowSame DEF Released, own
<1>18. ASSUME HelloAnswer PROVE CallsGrow
  BY <1>18, <1>0, GrowSame, HelloAnswerShape DEF own
<1>19. ASSUME Refer PROVE CallsGrow
  <2> DEFINE c == net["C"][1].k
  <2>1. CASE Alters(c, {"job", "to"})
    <3>1. calls[c].job = "none"
      BY <1>19, <1>0, ReferShape DEF FrameOK, RequestOK, IsRequest
    <3> HIDE DEF c
    <3>2. Older(c)
      BY <2>1, <3>1 DEF Alters, Older, Fields
    <3> QED
      BY <1>0, <2>1, <3>2, GrowBy
  <2>2. CASE UNCHANGED calls
    BY <1>0, <2>2, GrowSame
  <2> QED
    BY <1>19, <1>0, <2>1, <2>2, ReferShape
<1>20. ASSUME Hangup PROVE CallsGrow
  BY <1>20, <1>0, GrowSame DEF Hangup, own
<1>21. ASSUME NEW e \in Ends, Result(e) PROVE CallsGrow
  <2> DEFINE c == net[e][1].k
  <2>1. CASE Alters(c, {"gift"})
    <3> HIDE DEF c
    <3>2. Older(c)
      BY <2>1 DEF Alters, Older, Fields
    <3> QED
      BY <1>0, <2>1, <3>2, GrowBy
  <2>2. CASE UNCHANGED calls
    BY <1>0, <2>2, GrowSame
  <2> QED
    BY <1>21, <1>0, <2>1, <2>2, ResultShape
<1>22. ASSUME NEW e \in Ends, Output(e) PROVE CallsGrow
  BY <1>22, <1>0, GrowSame, OutputShape
<1>23. ASSUME NEW e \in Ends, CloseFd(e), UNCHANGED own PROVE CallsGrow
  BY <1>23, <1>0, GrowSame, CloseFdShape DEF own
<1>24. ASSUME NEW e \in Ends, CloseTable(e), UNCHANGED own PROVE CallsGrow
  BY <1>24, <1>0, GrowSame, CloseTableShape DEF own
<1>25. ASSUME NEW a \in {"A", "L"}, Begin(a) PROVE CallsGrow
  <2> DEFINE c == actors[a].q[1]
  <2>1. Alters(c, {"ran"}) /\ calls[c].ran = <<>>
    BY <1>25, <1>0, BeginShape
  <2> HIDE DEF c
  <2>2. Older(c)
    BY <1>0, <2>1 DEF Alters, Older, Fields
  <2> QED
    BY <1>0, <2>1, <2>2, GrowBy
<1>26. ASSUME NEW a \in {"A", "L"}, DoPrint(a) PROVE CallsGrow
  <2> DEFINE c == actors[a].cur
  <2>1. Alters(c, {"body"}) /\ calls[c].body # <<>>
    BY <1>26, <1>0, DoPrintShape
  <2> HIDE DEF c
  <2>2. Older(c)
    BY <1>0, <2>1 DEF Alters, Older, Fields
  <2> QED
    BY <1>0, <2>1, <2>2, GrowBy
<1>27. ASSUME DoKeep("A") PROVE CallsGrow
  <2> DEFINE c == actors["A"].cur
  <2>1. Alters(c, {"body"}) /\ calls[c].body # <<>>
    BY <1>27, <1>0, DoKeepShape
  <2> HIDE DEF c
  <2>2. Older(c)
    BY <1>0, <2>1 DEF Alters, Older, Fields
  <2> QED
    BY <1>0, <2>1, <2>2, GrowBy
<1>28. ASSUME DoBack("A") PROVE CallsGrow
  <2> DEFINE c == actors["A"].cur
  <2>1. Alters(c, {"body", "last"}) /\ calls[c].body # <<>> /\ c \in Keys
    BY <1>28, <1>0, DoBackShape
  <2>2. calls'[c].last = calls[c].last \/ calls'[c].last = Len(calls) + 1
    BY <1>28, <1>0, DoBackShape
  <2>3. Len(calls) + 1 \notin Keys
    BY <1>0, ListOf
  <2> HIDE DEF c
  <2>4. Older(c)
    BY <2>1, <2>2, <2>3 DEF Alters, Older, Fields
  <2> QED
    BY <1>0, <2>1, <2>4, GrowBy
<1>29. ASSUME DoAwait("A") PROVE CallsGrow
  <2> DEFINE k == actors["A"].cur
             c == calls[k].last
  <2>1. /\ k # 0 /\ k \in Keys /\ calls[k].body # <<>>
        /\ calls' \in Seq(CallRec) /\ Keys' = Keys /\ Len(calls') = Len(calls)
        /\ c # 0 => c \in Keys /\ c # k /\ calls[c].pc = "done" /\ calls'[c].waited = TRUE
        /\ \A j \in Keys : j # k /\ j # c => calls'[j] = calls[j]
        /\ \A f \in Fields \ {"body"} : calls'[k][f] = calls[k][f]
        /\ c # 0 => \A f \in Fields \ {"waited"} : calls'[c][f] = calls[c][f]
    BY <1>29, <1>0, DoAwaitShape
  <2> HIDE DEF k, c
  <2>2. Older(k)
    BY <2>1 DEF Older, Fields
  <2>3. c # 0 => Older(c)
    BY <2>1 DEF Older, Fields
  <2>4. \A j \in Keys : j # k /\ j # c => Older(j)
    BY <2>1 DEF Older
  <2>5. Len(calls) \in Nat /\ Keys = 1 .. Len(calls)
    BY <1>0, ListOf
  <2> QED
    BY <2>1, <2>2, <2>3, <2>4, <2>5, SMTT(60) DEF CallsGrow
<1>30. ASSUME NEW a \in {"A", "L"}, Finish(a) PROVE CallsGrow
  <2> DEFINE c == actors[a].cur
  <2>1. Alters(c, {"job"}) /\ calls'[c].job # "none" /\ calls[c].job # "sent"
    BY <1>30, <1>0, FinishShape DEF InHand
  <2> HIDE DEF c
  <2>2. Older(c)
    BY <1>0, <2>1 DEF Alters, Older, Fields
  <2> QED
    BY <1>0, <2>1, <2>2, GrowBy
<1>31. ASSUME Exit("A") PROVE CallsGrow
  BY <1>31, <1>0, GrowSame, ExitShape DEF linkVars
<1>32. ASSUME NEW p \in DOMAIN proxies, Drop(p) PROVE CallsGrow
  BY <1>32, <1>0, GrowSame, DropShape
<1>33. ASSUME Forget PROVE CallsGrow
  BY <1>33, <1>0, GrowSame, ForgetShape DEF linkVars
<1>34. ASSUME Leave PROVE CallsGrow
  BY <1>34, <1>0, GrowSame DEF Leave
<1>35. ASSUME NEW e \in Ends, Crash(e) PROVE CallsGrow
  BY <1>35, <1>0, GrowSame DEF Crash
<1>36. ASSUME UNCHANGED vars PROVE CallsGrow
  BY <1>36, <1>0, GrowSame DEF vars, linkVars, own
<1> QED
  BY <1>1, <1>2, <1>3, <1>4, <1>5, <1>6, <1>7, <1>8, <1>9, <1>10, <1>11, <1>12, <1>13, <1>14,
     <1>15, <1>16, <1>17, <1>18, <1>19, <1>20, <1>21, <1>22, <1>23, <1>24, <1>25, <1>26,
     <1>27, <1>28, <1>29, <1>30, <1>31, <1>32, <1>33, <1>34, <1>35, <1>36
     DEF Next, Step, Environment

(* A call that was not there before: the spawn, or one made on a proxy by  *)
(* the script or by a method of A.                                         *)
Spawning(k) ==
  /\ k = 1 /\ calls = <<>> /\ main = "hello" /\ main' = "spawning" /\ Len(calls') = 1
  /\ calls'[k].end = "C" /\ calls'[k].via = 0 /\ calls'[k].id = 1 /\ calls'[k].pc = "ready"
  /\ calls'[k].to = "A" /\ calls'[k].gives = FALSE /\ calls'[k].route = 0 /\ calls'[k].for = 0
  /\ calls'[k].arg = "none"

Calling(k) ==
  /\ k # 1 /\ calls # <<>> /\ calls'[k].id = 0 /\ calls'[k].pc \in {"queued", "done"}
  /\ calls'[k].via \in 1 .. Len(proxies')
  /\ \/ calls'[k].end = "C" /\ calls'[k].route = 0 /\ calls'[k].for = 0
     \/ /\ calls'[k].end = "S" /\ calls'[k].gives = FALSE /\ calls'[k].route = actors["A"].cur
        /\ calls'[k].route \in Keys /\ calls'[k].for = calls'[k].route
        /\ calls[calls'[k].route].end = "C" /\ calls[calls'[k].route].ran # <<>>

Newborn(k) ==
  /\ calls'[k].res # "ok" /\ calls'[k].wire = 0 /\ calls'[k].ref = 0 /\ calls'[k].gift = 0
  /\ calls'[k].job = "none" /\ calls'[k].ran = <<>> /\ calls'[k].last = 0
  /\ calls'[k].waited = FALSE
  /\ Spawning(k) \/ Calling(k)

AllBorn == \A k \in Keys' \ Keys : Newborn(k)

(* No call is made. *)
LEMMA BornSame ==
  ASSUME UNCHANGED calls
  PROVE  AllBorn
BY DEF AllBorn, Keys

(* The calls that a step adds. *)
LEMMA BornStep ==
  ASSUME Inv, [Next]_vars
  PROVE  AllBorn
<1>0. /\ TypeInv /\ StageInv /\ RefInv /\ FrameInv /\ IdInv /\ SlotInv /\ JobInv /\ QueueInv
      /\ TakenInv
  BY DEF Inv
<1>1. ASSUME Connect PROVE AllBorn
  BY <1>1, <1>0, BornSame, ConnectShape
<1>2. ASSUME EnterSlot PROVE AllBorn
  BY <1>2, <1>0, BornSame, EnterSlotShape
<1>3. ASSUME TakeFuture PROVE AllBorn
  BY <1>3, <1>0, BornSame, TakeFutureShape
<1>4. ASSUME Greeted PROVE AllBorn
  <2>1. CASE UNCHANGED calls
    BY <2>1, BornSame
  <2>2. CASE ~UNCHANGED calls
    <3>1. /\ calls = <<>> /\ main = "hello" /\ main' = "spawning" /\ Len(calls') = 1
          /\ calls' \in Seq(CallRec)
          /\ First.end = "C" /\ First.via = 0 /\ First.id = 1 /\ First.pc = "ready"
          /\ First.res = "none" /\ First.arg = "none" /\ First.gives = FALSE
          /\ First.wire = 0 /\ First.ref = 0 /\ First.gift = 0 /\ First.to = "A"
          /\ First.job = "none" /\ First.ran = <<>> /\ First.route = 0
          /\ First.for = 0 /\ First.last = 0 /\ First.waited = FALSE
      BY <1>4, <1>0, <2>2, GreetedShape
    <3>2. Keys' = 1 .. 1
      BY <3>1 DEF Keys
    <3>3. Newborn(1)
      BY <3>1 DEF Newborn, Spawning, First
    <3> QED
      BY <3>2, <3>3 DEF AllBorn
  <2> QED
    BY <2>1, <2>2
<1>5. ASSUME Unwind PROVE AllBorn
  BY <1>5, <1>0, BornSame, UnwindShape DEF own
<1>6. ASSUME NEW k \in Keys, TakeCall(k) PROVE AllBorn
  <2>1. Keys' = Keys
    BY <1>6, <1>0, TakeCallShape
  <2> QED
    BY <2>1 DEF AllBorn
<1>7. ASSUME NEW k \in Keys, EnterCall(k) PROVE AllBorn
  <2>1. Keys' = Keys
    BY <1>7, <1>0, EnterCallShape
  <2> QED
    BY <2>1 DEF AllBorn
<1>8. ASSUME NEW k \in Keys, SendCall(k) PROVE AllBorn
  <2>1. Keys' = Keys
    BY <1>8, <1>0, SendCallShape
  <2> QED
    BY <2>1 DEF AllBorn
<1>9. ASSUME NEW k \in Keys, ReturnCall(k) PROVE AllBorn
  <2>0. calls # <<>> /\ Keys = 1 .. Len(calls) /\ Len(calls) \in Nat /\ 1 \in Keys
    BY <1>0, ListOf DEF Keys
  <2>1. CASE Keys' = Keys
    BY <2>1 DEF AllBorn
  <2>2. CASE Launched(k)
    <3> SUFFICES ASSUME NEW j \in Keys' \ Keys PROVE Newborn(j)
      BY DEF AllBorn
    <3>1. Fresh(j, "C", 1, 0) /\ Len(proxies') = 1 /\ j # 1
      BY <2>0, <2>2 DEF Launched
    <3> QED
      BY <2>0, <3>1 DEF Newborn, Calling, Fresh
  <2>3. CASE /\ calls[k].gift # 0 /\ Len(calls') = Len(calls) + 1 /\ Came(k) /\ UNCHANGED proxies
             /\ FreshPlain(Len(calls) + 1, calls[k].end, calls[k].gift, 0)
    <3>1. calls[k].gift \in 1 .. Len(proxies) /\ calls[k].end = "C"
      <4>1. calls[k].gift \in Nat /\ calls[k].end \in Ends
        BY <1>0, CallOf, CallType
      <4>2. calls[k].gift <= Len(proxies) /\ calls[k].gives /\ Len(proxies) \in Nat
        BY <1>0, <2>3 DEF RefInv, RefOK, TypeInv, OwnType
      <4>3. calls[k].end # "S"
        BY <1>0, <4>2 DEF RefInv, RefOK
      <4>4. calls[k].end = "C"
        BY <4>1, <4>3 DEF Ends
      <4> QED
        BY <2>3, <4>1, <4>2, <4>4
    <3>2. Keys' = 1 .. Len(calls) + 1
      BY <2>3 DEF Keys, Came, Alters
    <3>3. Newborn(Len(calls) + 1)
      BY <2>0, <2>3, <3>1 DEF Newborn, Calling, Fresh, FreshPlain
    <3> QED
      BY <2>0, <3>2, <3>3 DEF AllBorn
  <2> QED
    BY <1>9, <1>0, <2>1, <2>2, <2>3, ReturnCallShape
<1>10. ASSUME NEW k \in Keys, JobQueue(k) PROVE AllBorn
  <2>1. Keys' = Keys
    BY <1>10, <1>0, JobQueueShape
  <2> QED
    BY <2>1 DEF AllBorn
<1>11. ASSUME NEW k \in Keys, JobReply(k) PROVE AllBorn
  <2>1. Keys' = Keys
    BY <1>11, <1>0, JobReplyShape
  <2> QED
    BY <2>1 DEF AllBorn
<1>12. ASSUME Welcome PROVE AllBorn
  BY <1>12, <1>0, BornSame, WelcomeShape
<1>13. ASSUME Spawn PROVE AllBorn
  BY <1>13, <1>0, BornSame, SpawnShape
<1>14. ASSUME Serve PROVE AllBorn
  <2>1. Keys' = Keys
    BY <1>14, <1>0, ServeShape DEF Keys
  <2> QED
    BY <2>1 DEF AllBorn
<1>15. ASSUME Disconnected PROVE AllBorn
  BY <1>15, <1>0, BornSame, DisconnectedShape DEF linkVars
<1>16. ASSUME CleanedUp PROVE AllBorn
  BY <1>16, <1>0, BornSame DEF CleanedUp, linkVars
<1>17. ASSUME Released PROVE AllBorn
  BY <1>17, <1>0, BornSame DEF Released, own
<1>18. ASSUME HelloAnswer PROVE AllBorn
  BY <1>18, <1>0, BornSame, HelloAnswerShape DEF own
<1>19. ASSUME Refer PROVE AllBorn
  <2>1. Keys' = Keys
    BY <1>19, <1>0, ReferShape DEF Keys
  <2> QED
    BY <2>1 DEF AllBorn
<1>20. ASSUME Hangup PROVE AllBorn
  BY <1>20, <1>0, BornSame DEF Hangup, own
<1>21. ASSUME NEW e \in Ends, Result(e) PROVE AllBorn
  <2>1. Keys' = Keys
    BY <1>21, <1>0, ResultShape DEF Keys
  <2> QED
    BY <2>1 DEF AllBorn
<1>22. ASSUME NEW e \in Ends, Output(e) PROVE AllBorn
  BY <1>22, <1>0, BornSame, OutputShape
<1>23. ASSUME NEW e \in Ends, CloseFd(e), UNCHANGED own PROVE AllBorn
  BY <1>23, <1>0, BornSame, CloseFdShape DEF own
<1>24. ASSUME NEW e \in Ends, CloseTable(e), UNCHANGED own PROVE AllBorn
  BY <1>24, <1>0, BornSame, CloseTableShape DEF own
<1>25. ASSUME NEW a \in {"A", "L"}, Begin(a) PROVE AllBorn
  <2>1. Keys' = Keys
    BY <1>25, <1>0, BeginShape
  <2> QED
    BY <2>1 DEF AllBorn
<1>26. ASSUME NEW a \in {"A", "L"}, DoPrint(a) PROVE AllBorn
  <2>1. Keys' = Keys
    BY <1>26, <1>0, DoPrintShape
  <2> QED
    BY <2>1 DEF AllBorn
<1>27. ASSUME DoKeep("A") PROVE AllBorn
  <2>1. Keys' = Keys
    BY <1>27, <1>0, DoKeepShape
  <2> QED
    BY <2>1 DEF AllBorn
<1>28. ASSUME DoBack("A") PROVE AllBorn
  <2> DEFINE k == actors["A"].cur
             p == Callee(k)
  <2>0. Keys = 1 .. Len(calls) /\ Len(calls) \in Nat
    BY <1>0, ListOf
  <2>1. CASE Keys' = Keys
    BY <2>1 DEF AllBorn
  <2>2. CASE Keys' # Keys
    <3>1. /\ Len(calls') = Len(calls) + 1 /\ calls' \in Seq(CallRec)
          /\ p \in 1 .. Len(proxies) /\ FreshPlain(Len(calls) + 1, "S", p, k)
          /\ k \in Keys /\ calls[k].end = "C" /\ calls[k].ran = <<"A">> /\ UNCHANGED proxies
      BY <1>28, <1>0, <2>2, DoBackShape DEF Alters
    <3>2. Keys' = 1 .. Len(calls) + 1 /\ <<"A">> # <<>> /\ calls # <<>>
      BY <2>0, <3>1 DEF Keys
    <3> HIDE DEF p
    <3>3. Newborn(Len(calls) + 1)
      BY <2>0, <3>1, <3>2 DEF Newborn, Calling, Fresh, FreshPlain
    <3> QED
      BY <2>0, <3>2, <3>3 DEF AllBorn
  <2> QED
    BY <2>1, <2>2
<1>29. ASSUME DoAwait("A") PROVE AllBorn
  <2>1. Keys' = Keys
    BY <1>29, <1>0, DoAwaitShape
  <2> QED
    BY <2>1 DEF AllBorn
<1>30. ASSUME NEW a \in {"A", "L"}, Finish(a) PROVE AllBorn
  <2>1. Keys' = Keys
    BY <1>30, <1>0, FinishShape
  <2> QED
    BY <2>1 DEF AllBorn
<1>31. ASSUME Exit("A") PROVE AllBorn
  BY <1>31, <1>0, BornSame, ExitShape DEF linkVars
<1>32. ASSUME NEW p \in DOMAIN proxies, Drop(p) PROVE AllBorn
  BY <1>32, <1>0, BornSame, DropShape
<1>33. ASSUME Forget PROVE AllBorn
  BY <1>33, <1>0, BornSame, ForgetShape DEF linkVars
<1>34. ASSUME Leave PROVE AllBorn
  BY <1>34, <1>0, BornSame DEF Leave
<1>35. ASSUME NEW e \in Ends, Crash(e) PROVE AllBorn
  BY <1>35, <1>0, BornSame DEF Crash
<1>36. ASSUME UNCHANGED vars PROVE AllBorn
  BY <1>36, <1>0, BornSame DEF vars, linkVars, own
<1> QED
  BY <1>1, <1>2, <1>3, <1>4, <1>5, <1>6, <1>7, <1>8, <1>9, <1>10, <1>11, <1>12, <1>13, <1>14,
     <1>15, <1>16, <1>17, <1>18, <1>19, <1>20, <1>21, <1>22, <1>23, <1>24, <1>25, <1>26,
     <1>27, <1>28, <1>29, <1>30, <1>31, <1>32, <1>33, <1>34, <1>35, <1>36
     DEF Next, Step, Environment

(* The proxies. *)
ProxiesGrow ==
  /\ Len(proxies') \in Nat /\ Len(proxies) \in Nat /\ Len(proxies') >= Len(proxies)
  /\ proxies' \in Seq(ProxyRec)
  /\ \A p \in 1 .. Len(proxies) : /\ proxies'[p].end = proxies[p].end
                                  /\ proxies'[p].aid = proxies[p].aid
                                  /\ proxies'[p].target = proxies[p].target

(* No proxy is made. *)
LEMMA ProxiesSame ==
  ASSUME TypeInv, UNCHANGED proxies
  PROVE  ProxiesGrow
BY DEF ProxiesGrow, TypeInv, OwnType

(* Proxies stay what they are, and none is taken away. *)
LEMMA ProxiesStep ==
  ASSUME Inv, [Next]_vars
  PROVE  ProxiesGrow
<1>0. /\ TypeInv /\ StageInv /\ RefInv /\ FrameInv /\ IdInv /\ SlotInv /\ JobInv /\ QueueInv
      /\ TakenInv
  BY DEF Inv
<1>1. ASSUME Connect PROVE ProxiesGrow
  BY <1>1, <1>0, ProxiesSame, ConnectShape
<1>2. ASSUME EnterSlot PROVE ProxiesGrow
  BY <1>2, <1>0, ProxiesSame, EnterSlotShape
<1>3. ASSUME TakeFuture PROVE ProxiesGrow
  BY <1>3, <1>0, ProxiesSame, TakeFutureShape
<1>4. ASSUME Greeted PROVE ProxiesGrow
  BY <1>4, <1>0, ProxiesSame, GreetedShape
<1>5. ASSUME Unwind PROVE ProxiesGrow
  BY <1>5, <1>0, ProxiesSame, UnwindShape DEF own
<1>6. ASSUME NEW k \in Keys, TakeCall(k) PROVE ProxiesGrow
  BY <1>6, <1>0, ProxiesSame, TakeCallShape
<1>7. ASSUME NEW k \in Keys, EnterCall(k) PROVE ProxiesGrow
  BY <1>7, <1>0, ProxiesSame, EnterCallShape
<1>8. ASSUME NEW k \in Keys, SendCall(k) PROVE ProxiesGrow
  <2>1. CASE UNCHANGED proxies
    BY <1>0, <2>1, ProxiesSame
  <2>2. CASE Threw(k)
    BY <2>2 DEF Threw, ProxiesKept, ProxiesGrow
  <2> QED
    BY <1>8, <1>0, <2>1, <2>2, SendCallShape
<1>9. ASSUME NEW k \in Keys, ReturnCall(k) PROVE ProxiesGrow
  <2>1. CASE UNCHANGED proxies
    BY <1>0, <2>1, ProxiesSame
  <2>2. CASE Threw(k)
    BY <2>2 DEF Threw, ProxiesKept, ProxiesGrow
  <2>3. CASE Launched(k)
    <3>1. k = 1
      BY <1>0, <2>3, CallOf DEF Launched, RefInv, RefOK
    <3>2. calls[1].pc # "done" /\ calls # <<>>
      BY <1>9, <1>0, <3>1, ReturnCallShape, CallOf DEF Keys
    <3>3. proxies = <<>>
      BY <1>0, <3>2 DEF StageInv
    <3>4. Len(proxies) = 0
      BY <3>3
    <3> QED
      BY <2>3, <3>4 DEF Launched, ProxiesGrow
  <2> QED
    BY <1>9, <1>0, <2>1, <2>2, <2>3, ReturnCallShape
<1>10. ASSUME NEW k \in Keys, JobQueue(k) PROVE ProxiesGrow
  BY <1>10, <1>0, ProxiesSame, JobQueueShape DEF linkVars
<1>11. ASSUME NEW k \in Keys, JobReply(k) PROVE ProxiesGrow
  BY <1>11, <1>0, ProxiesSame, JobReplyShape
<1>12. ASSUME Welcome PROVE ProxiesGrow
  BY <1>12, <1>0, ProxiesSame, WelcomeShape
<1>13. ASSUME Spawn PROVE ProxiesGrow
  BY <1>13, <1>0, ProxiesSame, SpawnShape
<1>14. ASSUME Serve PROVE ProxiesGrow
  <2>1. CASE UNCHANGED proxies
    BY <1>0, <2>1, ProxiesSame
  <2>2. CASE \E d, r, t : ProxyAdded(d, r, t)
    BY <2>2 DEF ProxyAdded, ProxiesGrow
  <2> QED
    BY <1>14, <1>0, <2>1, <2>2, ServeShape
<1>15. ASSUME Disconnected PROVE ProxiesGrow
  BY <1>15, <1>0, ProxiesSame, DisconnectedShape DEF linkVars
<1>16. ASSUME CleanedUp PROVE ProxiesGrow
  BY <1>16, <1>0, ProxiesSame DEF CleanedUp, linkVars
<1>17. ASSUME Released PROVE ProxiesGrow
  BY <1>17, <1>0, ProxiesSame DEF Released, own
<1>18. ASSUME HelloAnswer PROVE ProxiesGrow
  BY <1>18, <1>0, ProxiesSame, HelloAnswerShape DEF own
<1>19. ASSUME Refer PROVE ProxiesGrow
  BY <1>19, <1>0, ProxiesSame, ReferShape
<1>20. ASSUME Hangup PROVE ProxiesGrow
  BY <1>20, <1>0, ProxiesSame DEF Hangup, own
<1>21. ASSUME NEW e \in Ends, Result(e) PROVE ProxiesGrow
  <2>1. CASE UNCHANGED proxies
    BY <1>0, <2>1, ProxiesSame
  <2>2. CASE \E d, r, t : ProxyAdded(d, r, t)
    BY <2>2 DEF ProxyAdded, ProxiesGrow
  <2> QED
    BY <1>21, <1>0, <2>1, <2>2, ResultShape
<1>22. ASSUME NEW e \in Ends, Output(e) PROVE ProxiesGrow
  BY <1>22, <1>0, ProxiesSame, OutputShape
<1>23. ASSUME NEW e \in Ends, CloseFd(e), UNCHANGED own PROVE ProxiesGrow
  BY <1>23, <1>0, ProxiesSame, CloseFdShape DEF own
<1>24. ASSUME NEW e \in Ends, CloseTable(e), UNCHANGED own PROVE ProxiesGrow
  BY <1>24, <1>0, ProxiesSame, CloseTableShape DEF own
<1>25. ASSUME NEW a \in {"A", "L"}, Begin(a) PROVE ProxiesGrow
  BY <1>25, <1>0, ProxiesSame, BeginShape DEF linkVars
<1>26. ASSUME NEW a \in {"A", "L"}, DoPrint(a) PROVE ProxiesGrow
  BY <1>26, <1>0, ProxiesSame, DoPrintShape
<1>27. ASSUME DoKeep("A") PROVE ProxiesGrow
  BY <1>27, <1>0, ProxiesSame, DoKeepShape DEF linkVars
<1>28. ASSUME DoBack("A") PROVE ProxiesGrow
  BY <1>28, <1>0, ProxiesSame, DoBackShape DEF linkVars
<1>29. ASSUME DoAwait("A") PROVE ProxiesGrow
  BY <1>29, <1>0, ProxiesSame, DoAwaitShape DEF linkVars
<1>30. ASSUME NEW a \in {"A", "L"}, Finish(a) PROVE ProxiesGrow
  BY <1>30, <1>0, ProxiesSame, FinishShape DEF linkVars
<1>31. ASSUME Exit("A") PROVE ProxiesGrow
  BY <1>31, <1>0, ProxiesSame, ExitShape DEF linkVars
<1>32. ASSUME NEW p \in DOMAIN proxies, Drop(p) PROVE ProxiesGrow
  BY <1>32, <1>0, DropShape DEF ProxiesKept, ProxiesGrow
<1>33. ASSUME Forget PROVE ProxiesGrow
  BY <1>33, <1>0, ProxiesSame, ForgetShape DEF linkVars
<1>34. ASSUME Leave PROVE ProxiesGrow
  BY <1>34, <1>0, ProxiesSame DEF Leave
<1>35. ASSUME NEW e \in Ends, Crash(e) PROVE ProxiesGrow
  BY <1>35, <1>0, ProxiesSame DEF Crash
<1>36. ASSUME UNCHANGED vars PROVE ProxiesGrow
  BY <1>36, <1>0, ProxiesSame DEF vars, linkVars, own
<1> QED
  BY <1>1, <1>2, <1>3, <1>4, <1>5, <1>6, <1>7, <1>8, <1>9, <1>10, <1>11, <1>12, <1>13, <1>14,
     <1>15, <1>16, <1>17, <1>18, <1>19, <1>20, <1>21, <1>22, <1>23, <1>24, <1>25, <1>26,
     <1>27, <1>28, <1>29, <1>30, <1>31, <1>32, <1>33, <1>34, <1>35, <1>36
     DEF Next, Step, Environment

-----------------------------------------------------------------------------
(* The invariant is kept: stages and references *)

(* The script is where it was. *)
LEMMA StageKept ==
  ASSUME TypeInv, StageInv, CallsGrow, AllBorn, ProxiesGrow, main' = main,
         nextId'["C"] = nextId["C"] \/ calls # <<>>,
         main \in {"start", "slot"} =>
           promise'["C"][0].st = promise["C"][0].st /\ (0 \in pending'["C"] => 0 \in pending["C"]),
         main # "running" => Len(calls') = Len(calls) /\ proxies' = proxies,
         1 \in Keys => calls'[1].to = calls[1].to,
         kept' = kept \/ (kept' \in Nat /\ kept' <= Len(proxies)),
         locals' = locals \/ \A i \in DOMAIN locals'["C"] : locals'["C"][i] = "L"
  PROVE  StageInv'
<1>1. /\ calls \in Seq(CallRec) /\ calls' \in Seq(CallRec) /\ Len(calls) \in Nat
      /\ Keys = 1 .. Len(calls) /\ kept \in Nat
  BY ListOf DEF CallsGrow, TypeInv, OwnType
<1>2. calls # <<>> => Older(1) /\ 1 \in Keys
  BY <1>1 DEF CallsGrow
<1>3. calls = <<>> => calls' = <<>>
  <2>1. calls = <<>> => main # "running" \/ Len(calls') = 0
    <3> SUFFICES ASSUME calls = <<>>, main = "running", Len(calls') # 0 PROVE FALSE
      OBVIOUS
    <3>1. 1 \in Keys' \ Keys
      BY <1>1 DEF Keys, CallsGrow
    <3>2. Newborn(1)
      BY <3>1 DEF AllBorn
    <3> QED
      BY <3>2 DEF Newborn, Spawning, Calling
  <2> QED
    BY <1>1, <2>1
<1>4. main \in {"start", "slot", "future", "hello"} => calls' = <<>> /\ nextId'["C"] = 1
  BY <1>3 DEF StageInv
<1>5. main \in {"start", "slot"} => promise'["C"][0].st = "none" /\ 0 \notin pending'["C"]
  BY DEF StageInv
<1>6. main # "running" => Len(calls') <= 1 /\ proxies' = <<>>
  BY DEF StageInv
<1>7. main = "running" => Len(proxies') >= 1
  BY DEF StageInv, ProxiesGrow
<1>8. calls' # <<>> => /\ calls'[1].via = 0 /\ calls'[1].end = "C" /\ calls'[1].to = "A"
                       /\ calls'[1].id # 0 /\ calls'[1].pc # "queued"
                       /\ calls'[1].pc # "done" => main = "spawning"
  BY <1>2, <1>3 DEF StageInv, Older
<1>9. kept' <= Len(proxies')
  <2>1. kept' <= Len(proxies)
    BY DEF StageInv
  <2>2. kept' \in Nat /\ Len(proxies) \in Nat /\ Len(proxies') \in Nat /\ Len(proxies') >= Len(proxies)
    BY <1>1 DEF ProxiesGrow
  <2> QED
    BY <2>1, <2>2
<1>10. \A i \in DOMAIN locals'["C"] : locals'["C"][i] = "L"
  BY DEF StageInv
<1> QED
  BY <1>4, <1>5, <1>6, <1>7, <1>8, <1>9, <1>10 DEF StageInv

(* A call has thrown. *)
LEMMA StageThrown ==
  ASSUME TypeInv, StageInv, RefInv, CallsGrow, AllBorn, ProxiesGrow, NEW k, Threw(k),
         calls[k].pc \in {"entered", "wait"},
         UNCHANGED <<nextId, pending, promise, locals, kept>>
  PROVE  StageInv'
<1>1. k \in Keys /\ Len(calls') = Len(calls) /\ calls # <<>> /\ k \in Nat \ {0}
  BY CallOf DEF Threw, Keys
<1>2. calls'[1].to = calls[1].to
  <2>1. 1 \in Keys
    BY <1>1, ListOf
  <2> QED
    BY <2>1 DEF Threw, Fields
<1>3. CASE calls[k].via # 0
  <2>1. main' = main
    BY <1>3 DEF Threw
  <2>2. main # "running" => proxies' = proxies
    <3>1. main # "running" => proxies = <<>> /\ Len(proxies) = 0
      BY DEF StageInv
    <3>2. proxies' \in Seq(ProxyRec) /\ Len(proxies') = Len(proxies)
      BY DEF Threw, ProxiesKept
    <3> QED
      BY <3>1, <3>2, SMTT(60)
  <2> QED
    BY <1>1, <1>2, <2>1, <2>2, StageKept
<1>4. CASE calls[k].via = 0
  <2>1. k = 1
    BY <1>1, <1>4 DEF RefInv, RefOK
  <2>2. main = "spawning" /\ proxies = <<>>
    BY <1>1, <2>1 DEF StageInv
  <2>3. main' = "failed" /\ proxies' = proxies
    BY <1>4 DEF Threw
  <2>4. Older(1)
    BY <1>1, <2>1 DEF CallsGrow
  <2>5. calls'[1].pc = "done"
    BY <1>1, <2>1 DEF Threw, Gone
  <2> QED
    BY <1>1, <1>2, <2>2, <2>3, <2>4, <2>5 DEF StageInv, Older
<1> QED
  BY <1>3, <1>4

(* What it depends on is unchanged. *)
LEMMA StageSame ==
  ASSUME StageInv, UNCHANGED <<nextId, pending, promise, main, locals, proxies, calls, kept>>
  PROVE  StageInv'
BY DEF StageInv

(* The script. *)
LEMMA StageStep ==
  ASSUME Inv, [Next]_vars
  PROVE  StageInv'
<1>0. /\ TypeInv /\ StageInv /\ RefInv /\ FrameInv /\ IdInv /\ SlotInv /\ JobInv /\ QueueInv
      /\ TakenInv /\ CallsGrow /\ AllBorn /\ ProxiesGrow
  BY GrowStep, BornStep, ProxiesStep DEF Inv
<1>1. ASSUME Connect PROVE StageInv'
  <2>1. /\ main = "start" /\ main' \in {"slot", "failed"}
        /\ UNCHANGED <<nextId, pending, promise, locals, proxies, calls, kept>>
    BY <1>1, <1>0, ConnectShape
  <2> QED
    BY <1>0, <2>1 DEF StageInv
<1>2. ASSUME EnterSlot PROVE StageInv'
  <2>1. /\ main = "slot" /\ main' = "future"
        /\ UNCHANGED <<nextId, promise, locals, proxies, calls, kept>>
    BY <1>2, <1>0, EnterSlotShape
  <2> QED
    BY <1>0, <2>1 DEF StageInv
<1>3. ASSUME TakeFuture PROVE StageInv'
  <2>1. /\ main = "future" /\ main' \in {"future", "hello"}
        /\ UNCHANGED <<nextId, pending, promise, locals, proxies, calls, kept>>
    BY <1>3, <1>0, TakeFutureShape
  <2> QED
    BY <1>0, <2>1 DEF StageInv
<1>4. ASSUME Greeted PROVE StageInv'
  <2>1. /\ main = "hello" /\ calls = <<>> /\ proxies = <<>>
        /\ UNCHANGED <<pending, promise, locals, proxies, kept>>
    BY <1>4, <1>0, GreetedShape
  <2>2. CASE main' = "failed" /\ UNCHANGED <<calls, nextId>>
    BY <1>0, <2>1, <2>2 DEF StageInv
  <2>3. CASE /\ main' = "spawning" /\ Len(calls') = 1
             /\ First.end = "C" /\ First.via = 0 /\ First.id = 1 /\ First.pc = "ready"
             /\ First.to = "A"
    BY <1>0, <2>1, <2>3 DEF StageInv, First
  <2> QED
    BY <1>4, <1>0, <2>2, <2>3, GreetedShape
<1>5. ASSUME Unwind PROVE StageInv'
  BY <1>5, <1>0, StageSame, UnwindShape DEF own
<1>6. ASSUME NEW k \in Keys, TakeCall(k) PROVE StageInv'
  <2>1. /\ Alters(k, {"pc", "id", "wire"}) /\ Len(calls') = Len(calls)
        /\ UNCHANGED <<main, pending, promise, proxies, kept>>
        /\ \A i \in DOMAIN locals'["C"] : locals'["C"][i] = "L"
    BY <1>6, <1>0, TakeCallShape
  <2>2. 1 \in Keys => calls'[1].to = calls[1].to
    BY <2>1 DEF Alters, Fields
  <2> QED
    <3>1. calls # <<>>
      BY DEF Keys
    <3> QED
      BY <1>0, <2>1, <2>2, <3>1, StageKept
<1>7. ASSUME NEW k \in Keys, EnterCall(k) PROVE StageInv'
  <2>1. /\ Alters(k, {"pc"}) /\ Len(calls') = Len(calls)
        /\ UNCHANGED <<main, nextId, promise, locals, proxies, kept>>
    BY <1>7, <1>0, EnterCallShape
  <2>2. 1 \in Keys => calls'[1].to = calls[1].to
    BY <2>1 DEF Alters, Fields
  <2>3. calls # <<>> /\ main \notin {"start", "slot"}
    BY <1>0 DEF Keys, StageInv
  <2> QED
    BY <1>0, <2>1, <2>2, <2>3, StageKept
<1>8. ASSUME NEW k \in Keys, SendCall(k) PROVE StageInv'
  <2>0. UNCHANGED <<nextId, pending, promise, locals, kept>> /\ Len(calls') = Len(calls)
    BY <1>8, <1>0, SendCallShape
  <2>1. CASE Alters(k, {"pc"}) /\ UNCHANGED <<proxies, main>>
    <3>1. 1 \in Keys => calls'[1].to = calls[1].to
      BY <2>1 DEF Alters, Fields
    <3> QED
      BY <1>0, <2>0, <2>1, <3>1, StageKept
  <2>2. CASE Threw(k)
    <3>1. calls[k].pc = "entered"
      BY <1>8, <1>0, SendCallShape
    <3> QED
      BY <1>0, <2>0, <2>2, <3>1, StageThrown
  <2> QED
    BY <1>8, <1>0, <2>1, <2>2, SendCallShape
<1>9. ASSUME NEW k \in Keys, ReturnCall(k) PROVE StageInv'
  <2>0. UNCHANGED <<nextId, pending, promise, locals, kept>> /\ calls[k].pc = "wait"
    BY <1>9, <1>0, ReturnCallShape DEF linkVars
  <2>1. CASE Came(k) /\ calls[k].via # 0 /\ UNCHANGED <<proxies, main>>
    <3>1. 1 \in Keys => calls'[1].to = calls[1].to
      BY <2>1 DEF Came, Alters, Fields
    <3>2. main # "running" => Len(calls') = Len(calls)
      <4>0. (Threw(k) => Len(calls') = Len(calls)) /\ (Launched(k) => calls[k].via = 0)
        BY DEF Launched, Threw
      <4>1. Len(calls') = Len(calls) \/ calls[k].gift # 0
        BY <1>9, <1>0, <2>1, <4>0, ReturnCallShape
      <4>2. calls[k].gift # 0 => proxies # <<>>
        BY <1>0, CallOf, CallType DEF RefInv, RefOK
      <4> QED
        BY <1>0, <4>1, <4>2 DEF StageInv
    <3> QED
      BY <1>0, <2>0, <2>1, <3>1, <3>2, StageKept
  <2>2. CASE Threw(k)
    BY <1>0, <2>0, <2>2, StageThrown DEF Threw
  <2>3. CASE Came(k) /\ Launched(k)
    <3>1. k = 1
      BY <1>0, <2>3, CallOf DEF Launched, RefInv, RefOK
    <3>2. Alters(1, {"pc", "res", "from"}) /\ calls'[1].pc = "done"
      BY <2>3, <3>1 DEF Came
    <3>3. calls # <<>> /\ calls[1].pc # "done" /\ calls'[1].to = calls[1].to /\ calls'[1].id = calls[1].id
          /\ calls'[1].via = calls[1].via /\ calls'[1].end = calls[1].end
      BY <2>0, <3>1, <3>2 DEF Alters, Fields, Keys
    <3>4. main' = "running" /\ Len(proxies') = 1 /\ proxies = <<>>
      BY <1>0, <2>3, <3>3 DEF Launched, StageInv
    <3>5. kept' <= 1
      BY <1>0, <2>0, <3>4 DEF StageInv, TypeInv, OwnType
    <3> QED
      BY <1>0, <2>0, <3>2, <3>3, <3>4, <3>5 DEF StageInv
  <2> QED
    BY <1>9, <1>0, <2>1, <2>2, <2>3, ReturnCallShape
<1>10. ASSUME NEW k \in Keys, JobQueue(k) PROVE StageInv'
  <2>1. Alters(k, {"job"}) /\ Len(calls') = Len(calls) /\ UNCHANGED <<main, nextId, pending, promise, locals, proxies, kept>>
    BY <1>10, <1>0, JobQueueShape DEF linkVars
  <2>2. 1 \in Keys => calls'[1].to = calls[1].to
    BY <2>1 DEF Alters, Fields
  <2> QED
    BY <1>0, <2>1, <2>2, StageKept
<1>11. ASSUME NEW k \in Keys, JobReply(k) PROVE StageInv'
  <2>1. /\ Alters(k, {"job"}) /\ Len(calls') = Len(calls)
        /\ UNCHANGED <<main, nextId, pending, promise, proxies, kept>>
        /\ \A i \in DOMAIN locals'["C"] : locals'["C"][i] = "L"
    BY <1>11, <1>0, JobReplyShape DEF StageInv
  <2>2. 1 \in Keys => calls'[1].to = calls[1].to
    BY <2>1 DEF Alters, Fields
  <2> QED
    BY <1>0, <2>1, <2>2, StageKept
<1>12. ASSUME Welcome PROVE StageInv'
  BY <1>12, <1>0, StageSame, WelcomeShape
<1>13. ASSUME Spawn PROVE StageInv'
  BY <1>13, <1>0, StageSame, SpawnShape
<1>14. ASSUME Serve PROVE StageInv'
  <2>0. UNCHANGED <<main, nextId, pending, promise, locals, kept>> /\ Len(calls') = Len(calls)
    BY <1>14, <1>0, ServeShape
  <2>1. CASE UNCHANGED <<calls, proxies>>
    BY <1>0, <2>0, <2>1, StageKept DEF StageInv
  <2>2. CASE ~UNCHANGED <<calls, proxies>>
    <3> DEFINE c == net["S"][1].k
    <3>1. Alters(c, {"job", "to", "ref"}) /\ calls'[c].to = "A" /\ c \in Keys
      BY <1>14, <1>0, <2>2, ServeShape
    <3>2. c # 1
      BY <1>14, <1>0, ServeShape DEF FrameOK, RequestOK, IsRequest
    <3> HIDE DEF c
    <3>3. main = "running"
      BY <1>0, <3>1, <3>2, CallOf DEF StageInv
    <3>4. 1 \in Keys => calls'[1].to = calls[1].to
      BY <3>1, <3>2 DEF Alters, Keys
    <3> QED
      BY <1>0, <2>0, <3>3, <3>4, StageKept
  <2> QED
    BY <2>1, <2>2
<1>15. ASSUME Disconnected PROVE StageInv'
  BY <1>15, <1>0, StageSame, DisconnectedShape DEF linkVars
<1>16. ASSUME CleanedUp PROVE StageInv'
  BY <1>16, <1>0, StageSame DEF CleanedUp, linkVars
<1>17. ASSUME Released PROVE StageInv'
  BY <1>17, <1>0, StageSame DEF Released, own
<1>18. ASSUME HelloAnswer PROVE StageInv'
  <2>1. /\ \A d \in Ends : \A j \in Ids : ~(d = "C" /\ j = 0 /\ 0 \in pending["C"]) => Untouched(d, j)
        /\ 0 \in pending["C"] => Settled("C", 0)
        /\ 0 \in Ids /\ UNCHANGED <<nextId, main, locals, proxies, calls, kept>>
    BY <1>18, <1>0, HelloAnswerShape DEF own
  <2>2. main \in {"start", "slot"} => promise'["C"][0].st = promise["C"][0].st /\ 0 \notin pending'["C"]
    BY <1>0, <2>1, EndParts DEF StageInv, Untouched
  <2> QED
    BY <1>0, <2>1, <2>2, StageKept DEF StageInv
<1>19. ASSUME Refer PROVE StageInv'
  <2> DEFINE c == net["C"][1].k
  <2>0. /\ UNCHANGED <<main, nextId, locals, proxies, kept>> /\ Len(calls') = Len(calls)
        /\ c \in Keys /\ RequestOK("C", net["C"][1]) /\ net["C"][1].t = "call"
    BY <1>19, <1>0, ReferShape DEF FrameOK, IsRequest
  <2>1. c # 1 /\ c \in Keys
    BY <2>0 DEF RequestOK
  <2>2. Alters(c, {"job", "to"}) \/ UNCHANGED calls
    BY <1>19, <1>0, ReferShape
  <2> HIDE DEF c
  <2>3. main = "running"
    BY <1>0, <2>1, CallOf DEF StageInv
  <2>4. 1 \in Keys => calls'[1].to = calls[1].to
    BY <2>1, <2>2 DEF Alters, Keys
  <2> QED
    BY <1>0, <2>0, <2>3, <2>4, StageKept DEF StageInv
<1>20. ASSUME Hangup PROVE StageInv'
  BY <1>20, <1>0, StageSame DEF Hangup, own
<1>21. ASSUME NEW e \in Ends, Result(e) PROVE StageInv'
  <2> DEFINE c == net[e][1].k
  <2>0. /\ UNCHANGED <<main, nextId, locals, kept>> /\ Len(calls') = Len(calls)
        /\ c \in Keys /\ ResultOK(e, net[e][1])
    BY <1>21, <1>0, ResultShape DEF FrameOK
  <2>1. calls # <<>> /\ main \notin {"start", "slot"}
    BY <1>0, <2>0 DEF Keys, StageInv
  <2>2. CASE UNCHANGED <<calls, proxies>>
    BY <1>0, <2>0, <2>1, <2>2, StageKept DEF StageInv
  <2>3. CASE ~UNCHANGED <<calls, proxies>>
    <3>1. Alters(c, {"gift"}) /\ calls[c].gives
      BY <1>21, <1>0, <2>3, ResultShape
    <3>2. c # 1
      BY <1>0, <2>0, <3>1 DEF RefInv, RefOK
    <3> HIDE DEF c
    <3>3. main = "running"
      BY <1>0, <2>0, <3>2, CallOf DEF StageInv
    <3>4. 1 \in Keys => calls'[1].to = calls[1].to
      BY <3>1, <3>2 DEF Alters, Keys
    <3> QED
      BY <1>0, <2>0, <3>3, <3>4, StageKept DEF StageInv
  <2> QED
    BY <2>2, <2>3
<1>22. ASSUME NEW e \in Ends, Output(e) PROVE StageInv'
  BY <1>22, <1>0, StageSame, OutputShape
<1>23. ASSUME NEW e \in Ends, CloseFd(e), UNCHANGED own PROVE StageInv'
  BY <1>23, <1>0, StageSame, CloseFdShape DEF own
<1>24. ASSUME NEW e \in Ends, CloseTable(e), UNCHANGED own PROVE StageInv'
  <2>1. /\ \A d \in Ends : \A j \in Ids : ~(d = e /\ j \in pending[e]) => Untouched(d, j)
        /\ UNCHANGED <<nextId, main, locals, proxies, calls, kept>>
    BY <1>24, <1>0, CloseTableShape DEF own
  <2>2. 0 \in Ids
    BY LinkAssumption DEF Ids
  <2>3. main \in {"start", "slot"} => promise'["C"][0].st = promise["C"][0].st /\ 0 \notin pending'["C"]
    BY <1>0, <2>1, <2>2, EndParts DEF StageInv, Untouched
  <2> QED
    BY <1>0, <2>1, <2>3, StageKept DEF StageInv
<1>25. ASSUME NEW a \in {"A", "L"}, Begin(a) PROVE StageInv'
  <2> DEFINE c == actors[a].q[1]
  <2>1. Alters(c, {"ran"}) /\ Len(calls') = Len(calls) /\ UNCHANGED <<main, nextId, pending, promise, locals, proxies, kept>>
    BY <1>25, <1>0, BeginShape DEF linkVars
  <2> HIDE DEF c
  <2>2. 1 \in Keys => calls'[1].to = calls[1].to
    BY <2>1 DEF Alters, Fields
  <2> QED
    BY <1>0, <2>1, <2>2, StageKept DEF StageInv
<1>26. ASSUME NEW a \in {"A", "L"}, DoPrint(a) PROVE StageInv'
  <2> DEFINE c == actors[a].cur
  <2>1. Alters(c, {"body"}) /\ Len(calls') = Len(calls) /\ UNCHANGED <<main, nextId, pending, promise, locals, proxies, kept>>
    BY <1>26, <1>0, DoPrintShape DEF linkVars
  <2> HIDE DEF c
  <2>2. 1 \in Keys => calls'[1].to = calls[1].to
    BY <2>1 DEF Alters, Fields
  <2> QED
    BY <1>0, <2>1, <2>2, StageKept DEF StageInv
<1>27. ASSUME DoKeep("A") PROVE StageInv'
  <2> DEFINE c == actors["A"].cur
  <2>1. Alters(c, {"body"}) /\ Len(calls') = Len(calls) /\ UNCHANGED <<main, nextId, pending, promise, locals, proxies>> /\ kept' = calls[c].ref /\ c \in Keys
    BY <1>27, <1>0, DoKeepShape DEF linkVars
  <2> HIDE DEF c
  <2>2. 1 \in Keys => calls'[1].to = calls[1].to
    BY <2>1 DEF Alters, Fields
  <2>3. kept' \in Nat /\ kept' <= Len(proxies)
    BY <1>0, <2>1, CallOf, CallType DEF RefInv, RefOK
  <2> QED
    BY <1>0, <2>1, <2>2, <2>3, StageKept DEF StageInv
<1>28. ASSUME DoBack("A") PROVE StageInv'
  <2> DEFINE c == actors["A"].cur
  <2>1. Alters(c, {"body", "last"}) /\ UNCHANGED <<main, nextId, pending, promise, locals, proxies, kept>>
    BY <1>28, <1>0, DoBackShape DEF linkVars
  <2>2. 1 \in Keys => calls'[1].to = calls[1].to
    <3> HIDE DEF c
    <3> QED
      BY <2>1 DEF Alters, Fields
  <2>3. Len(calls') = Len(calls) \/ Callee(c) \in 1 .. Len(proxies)
    BY <1>28, <1>0, DoBackShape
  <2>4. main # "running" => Len(calls') = Len(calls)
    BY <1>0, <2>3 DEF StageInv
  <2> QED
    BY <1>0, <2>1, <2>2, <2>4, StageKept DEF StageInv
<1>29. ASSUME DoAwait("A") PROVE StageInv'
  <2>1. /\ UNCHANGED <<main, nextId, pending, promise, locals, proxies, kept>>
        /\ Len(calls') = Len(calls)
    BY <1>29, <1>0, DoAwaitShape DEF linkVars
  <2>2. \A j \in Keys : calls'[j].to = calls[j].to
    <3> DEFINE k == actors["A"].cur
               c == calls[k].last
    <3>1. /\ k \in Keys /\ (c # 0 => c \in Keys)
          /\ \A j \in Keys : j # k /\ j # c => calls'[j] = calls[j]
          /\ \A f \in Fields \ {"body"} : calls'[k][f] = calls[k][f]
          /\ c # 0 => \A f \in Fields \ {"waited"} : calls'[c][f] = calls[c][f]
      BY <1>29, <1>0, DoAwaitShape
    <3>2. 0 \notin Keys
      BY <1>0, ListOf
    <3> HIDE DEF k, c
    <3> QED
      BY <3>1, <3>2 DEF Fields
  <2>3. 1 \in Keys => calls'[1].to = calls[1].to
    BY <1>0, <2>2, ListOf DEF Keys
  <2> QED
    BY <1>0, <2>1, <2>3, StageKept DEF StageInv
<1>30. ASSUME NEW a \in {"A", "L"}, Finish(a) PROVE StageInv'
  <2> DEFINE c == actors[a].cur
  <2>1. Alters(c, {"job"}) /\ Len(calls') = Len(calls) /\ UNCHANGED <<main, nextId, pending, promise, locals, proxies, kept>>
    BY <1>30, <1>0, FinishShape DEF linkVars
  <2> HIDE DEF c
  <2>2. 1 \in Keys => calls'[1].to = calls[1].to
    BY <2>1 DEF Alters, Fields
  <2> QED
    BY <1>0, <2>1, <2>2, StageKept DEF StageInv
<1>31. ASSUME Exit("A") PROVE StageInv'
  BY <1>31, <1>0, StageSame, ExitShape DEF linkVars
<1>32. ASSUME NEW p \in DOMAIN proxies, Drop(p) PROVE StageInv'
  <2>1. /\ UNCHANGED <<main, nextId, pending, promise, locals, calls, kept>> /\ ProxiesKept
    BY <1>32, <1>0, DropShape
  <2>2. main # "running" => proxies' = proxies
    <3>1. main # "running" => proxies = <<>> /\ Len(proxies) = 0
      BY <1>0 DEF StageInv
    <3>2. proxies' \in Seq(ProxyRec) /\ Len(proxies') = Len(proxies)
      BY <2>1 DEF ProxiesKept
    <3> QED
      BY <3>1, <3>2
  <2> QED
    BY <1>0, <2>1, <2>2, StageKept DEF StageInv
<1>33. ASSUME Forget PROVE StageInv'
  BY <1>33, <1>0, StageSame, ForgetShape DEF linkVars
<1>34. ASSUME Leave PROVE StageInv'
  BY <1>34, <1>0, StageSame DEF Leave
<1>35. ASSUME NEW e \in Ends, Crash(e) PROVE StageInv'
  BY <1>35, <1>0, StageSame DEF Crash
<1>36. ASSUME UNCHANGED vars PROVE StageInv'
  BY <1>36, <1>0, StageSame DEF vars, linkVars, own
<1> QED
  BY <1>1, <1>2, <1>3, <1>4, <1>5, <1>6, <1>7, <1>8, <1>9, <1>10, <1>11, <1>12, <1>13, <1>14,
     <1>15, <1>16, <1>17, <1>18, <1>19, <1>20, <1>21, <1>22, <1>23, <1>24, <1>25, <1>26,
     <1>27, <1>28, <1>29, <1>30, <1>31, <1>32, <1>33, <1>34, <1>35, <1>36
     DEF Next, Step, Environment

-----------------------------------------------------------------------------
(* What a step does to the tables *)

(* The slot of the handshake is entered once, that of a call when it is made ready. *)
Entered(e, i) ==
  /\ i \in pending'[e] /\ promise'[e][i] = promise[e][i]
  /\ \/ i = 0 /\ e = "C" /\ main = "slot"
     \/ \E k \in Keys : /\ calls[k].end = e /\ calls[k].id = i
                        /\ calls[k].pc = "ready" /\ calls'[k].pc = "entered"

SlotMove(e, i) ==
  \/ Untouched(e, i)
  \/ /\ Settled(e, i)
     /\ promise'[e][i].st = "ok" /\ i # 0 =>
          /\ AnswerOf(e, i, promise'[e][i].from)
          /\ 1 \in DOMAIN net[e] /\ net[e][1].t = "result" /\ net[e][1].k = promise'[e][i].from
  \/ Entered(e, i)

SlotsMove == \A e \in Ends : \A i \in Ids : SlotMove(e, i)

(* No table changes. *)
LEMMA TableSame ==
  ASSUME UNCHANGED <<pending, promise>>
  PROVE  SlotsMove
BY DEF SlotsMove, SlotMove, Untouched

(* Every entry of the tables. *)
LEMMA TableStep ==
  ASSUME Inv, [Next]_vars
  PROVE  SlotsMove
<1>0. /\ TypeInv /\ StageInv /\ RefInv /\ FrameInv /\ IdInv /\ SlotInv /\ JobInv /\ QueueInv
      /\ TakenInv /\ CallsGrow /\ AllBorn /\ ProxiesGrow
  BY GrowStep, BornStep, ProxiesStep DEF Inv
<1>1. ASSUME Connect PROVE SlotsMove
  BY <1>1, <1>0, TableSame, ConnectShape
<1>2. ASSUME EnterSlot PROVE SlotsMove
  <2>1. /\ main = "slot" /\ promise' = promise
        /\ \A d \in Ends : \A j \in Ids : ~(d = "C" /\ j = 0) => Untouched(d, j)
    BY <1>2, <1>0, EnterSlotShape
  <2>2. 0 \in pending'["C"]
    BY <1>2, <1>0, EnterSlots, EndParts, LinkAssumption DEF EnterSlot, Ids
  <2>3. Entered("C", 0)
    BY <2>1, <2>2 DEF Entered
  <2> QED
    BY <2>1, <2>3 DEF SlotsMove, SlotMove
<1>3. ASSUME TakeFuture PROVE SlotsMove
  BY <1>3, <1>0, TableSame, TakeFutureShape
<1>4. ASSUME Greeted PROVE SlotsMove
  BY <1>4, <1>0, TableSame, GreetedShape
<1>5. ASSUME Unwind PROVE SlotsMove
  BY <1>5, <1>0, TableSame, UnwindShape DEF own
<1>6. ASSUME NEW k \in Keys, TakeCall(k) PROVE SlotsMove
  BY <1>6, <1>0, TableSame, TakeCallShape
<1>7. ASSUME NEW k \in Keys, EnterCall(k) PROVE SlotsMove
  <2>1. /\ promise' = promise /\ calls[k].pc = "ready" /\ calls'[k].pc = "entered"
        /\ \A d \in Ends : \A j \in Ids : ~(d = calls[k].end /\ j = calls[k].id) => Untouched(d, j)
        /\ calls[k].id \in pending'[calls[k].end]
    BY <1>7, <1>0, EnterCallShape
  <2>2. Entered(calls[k].end, calls[k].id)
    BY <2>1 DEF Entered
  <2> QED
    BY <2>1, <2>2 DEF SlotsMove, SlotMove
<1>8. ASSUME NEW k \in Keys, SendCall(k) PROVE SlotsMove
  BY <1>8, <1>0, TableSame, SendCallShape
<1>9. ASSUME NEW k \in Keys, ReturnCall(k) PROVE SlotsMove
  BY <1>9, <1>0, TableSame, ReturnCallShape DEF linkVars
<1>10. ASSUME NEW k \in Keys, JobQueue(k) PROVE SlotsMove
  BY <1>10, <1>0, TableSame, JobQueueShape DEF linkVars
<1>11. ASSUME NEW k \in Keys, JobReply(k) PROVE SlotsMove
  BY <1>11, <1>0, TableSame, JobReplyShape
<1>12. ASSUME Welcome PROVE SlotsMove
  BY <1>12, <1>0, TableSame, WelcomeShape
<1>13. ASSUME Spawn PROVE SlotsMove
  BY <1>13, <1>0, TableSame, SpawnShape
<1>14. ASSUME Serve PROVE SlotsMove
  BY <1>14, <1>0, TableSame, ServeShape
<1>15. ASSUME Disconnected PROVE SlotsMove
  BY <1>15, <1>0, TableSame, DisconnectedShape DEF linkVars
<1>16. ASSUME CleanedUp PROVE SlotsMove
  BY <1>16, <1>0, TableSame DEF CleanedUp, linkVars
<1>17. ASSUME Released PROVE SlotsMove
  BY <1>17, <1>0, TableSame DEF Released, own
<1>18. ASSUME HelloAnswer PROVE SlotsMove
  <2>1. /\ \A d \in Ends : \A j \in Ids : ~(d = "C" /\ j = 0 /\ 0 \in pending["C"]) => Untouched(d, j)
        /\ 0 \in pending["C"] => Settled("C", 0)
    BY <1>18, <1>0, HelloAnswerShape
  <2> QED
    BY <2>1 DEF SlotsMove, SlotMove
<1>19. ASSUME Refer PROVE SlotsMove
  <2> DEFINE i == net["C"][1].id
  <2>1. \/ UNCHANGED <<promise, pending>>
        \/ /\ \A d \in Ends : \A j \in Ids : ~(d = "C" /\ j = i /\ j \in pending["C"]) => Untouched(d, j)
           /\ i \in pending["C"] => Settled("C", i) /\ promise'["C"][i].st = "err"
    BY <1>19, <1>0, ReferShape
  <2> HIDE DEF i
  <2> QED
    BY <2>1 DEF SlotsMove, SlotMove, Untouched
<1>20. ASSUME Hangup PROVE SlotsMove
  BY <1>20, <1>0, TableSame DEF Hangup, own
<1>21. ASSUME NEW e \in Ends, Result(e) PROVE SlotsMove
  <2> DEFINE f == net[e][1]
  <2>1. /\ \A d \in Ends : \A j \in Ids : ~(d = e /\ j = f.id /\ j \in pending[e]) => Untouched(d, j)
        /\ f.id \in pending[e] => Settled(e, f.id) /\ promise'[e][f.id] = [st |-> f.st, from |-> f.k]
        /\ f.t = "result" /\ FrameOK(e, f) /\ f.id \in Ids /\ Reading1(e)
    BY <1>21, <1>0, ResultShape
  <2>0. 1 \in DOMAIN net[e]
    BY <2>1 DEF Reading1, Taking
  <2>2. ResultOK(e, f)
    BY <2>1 DEF FrameOK
  <2>3. f.id \in pending[e] => SlotMove(e, f.id)
    <3> SUFFICES ASSUME f.id \in pending[e], promise'[e][f.id].st = "ok"
                 PROVE  AnswerOf(e, f.id, promise'[e][f.id].from)
      BY <2>0, <2>1 DEF SlotMove
    <3>1. f.st = "ok" /\ promise'[e][f.id].from = f.k
      BY <2>1
    <3> QED
      BY <2>2, <3>1 DEF ResultOK, AnswerOf
  <2> HIDE DEF f
  <2> QED
    BY <2>1, <2>3 DEF SlotsMove, SlotMove
<1>22. ASSUME NEW e \in Ends, Output(e) PROVE SlotsMove
  BY <1>22, <1>0, TableSame, OutputShape
<1>23. ASSUME NEW e \in Ends, CloseFd(e), UNCHANGED own PROVE SlotsMove
  BY <1>23, <1>0, TableSame, CloseFdShape DEF own
<1>24. ASSUME NEW e \in Ends, CloseTable(e), UNCHANGED own PROVE SlotsMove
  <2>1. /\ \A d \in Ends : \A j \in Ids : ~(d = e /\ j \in pending[e]) => Untouched(d, j)
        /\ \A j \in pending[e] : Settled(e, j) /\ promise'[e][j].st = "err"
    BY <1>24, <1>0, CloseTableShape
  <2> QED
    BY <2>1 DEF SlotsMove, SlotMove
<1>25. ASSUME NEW a \in {"A", "L"}, Begin(a) PROVE SlotsMove
  BY <1>25, <1>0, TableSame, BeginShape DEF linkVars
<1>26. ASSUME NEW a \in {"A", "L"}, DoPrint(a) PROVE SlotsMove
  BY <1>26, <1>0, TableSame, DoPrintShape
<1>27. ASSUME DoKeep("A") PROVE SlotsMove
  BY <1>27, <1>0, TableSame, DoKeepShape DEF linkVars
<1>28. ASSUME DoBack("A") PROVE SlotsMove
  BY <1>28, <1>0, TableSame, DoBackShape DEF linkVars
<1>29. ASSUME DoAwait("A") PROVE SlotsMove
  BY <1>29, <1>0, TableSame, DoAwaitShape DEF linkVars
<1>30. ASSUME NEW a \in {"A", "L"}, Finish(a) PROVE SlotsMove
  BY <1>30, <1>0, TableSame, FinishShape DEF linkVars
<1>31. ASSUME Exit("A") PROVE SlotsMove
  BY <1>31, <1>0, TableSame, ExitShape DEF linkVars
<1>32. ASSUME NEW p \in DOMAIN proxies, Drop(p) PROVE SlotsMove
  BY <1>32, <1>0, TableSame, DropShape
<1>33. ASSUME Forget PROVE SlotsMove
  BY <1>33, <1>0, TableSame, ForgetShape DEF linkVars
<1>34. ASSUME Leave PROVE SlotsMove
  BY <1>34, <1>0, TableSame DEF Leave
<1>35. ASSUME NEW e \in Ends, Crash(e) PROVE SlotsMove
  BY <1>35, <1>0, TableSame DEF Crash
<1>36. ASSUME UNCHANGED vars PROVE SlotsMove
  BY <1>36, <1>0, TableSame DEF vars, linkVars, own
<1> QED
  BY <1>1, <1>2, <1>3, <1>4, <1>5, <1>6, <1>7, <1>8, <1>9, <1>10, <1>11, <1>12, <1>13, <1>14,
     <1>15, <1>16, <1>17, <1>18, <1>19, <1>20, <1>21, <1>22, <1>23, <1>24, <1>25, <1>26,
     <1>27, <1>28, <1>29, <1>30, <1>31, <1>32, <1>33, <1>34, <1>35, <1>36
     DEF Next, Step, Environment

(* A call is given an id. *)
TakesId(k) == calls[k].pc = "queued" /\ calls'[k].pc = "ready"

IdsMove ==
  /\ \A e \in Ends : nextId'[e] >= nextId[e]
  /\ \A k \in Keys : TakesId(k) =>
       /\ Keys' = Keys
       /\ calls'[k].id = nextId[calls[k].end] /\ nextId'[calls[k].end] = nextId[calls[k].end] + 1
       /\ \A j \in Keys : j # k => calls'[j].id = calls[j].id
  /\ \A k \in Keys : calls[k].pc = "ready" /\ calls'[k].pc = "entered" =>
       calls[k].id \in pending'[calls[k].end]
  /\ \A k \in Keys : calls[k].pc = "wait" /\ calls'[k].pc = "done" =>
       promise[calls[k].end][calls[k].id].st # "none"
  /\ calls = <<>> /\ calls' # <<>> => nextId'["C"] = 2

(* No call goes on. *)
LEMMA IdsKept ==
  ASSUME TypeInv, UNCHANGED nextId, \A j \in Keys : calls'[j].pc = calls[j].pc,
         calls # <<>> \/ UNCHANGED calls
  PROVE  IdsMove
<1>1. \A e \in Ends : nextId'[e] >= nextId[e]
  BY SlotType
<1> QED
  BY <1>1 DEF IdsMove, TakesId

(* A call has thrown. *)
LEMMA IdsThrown ==
  ASSUME TypeInv, UNCHANGED nextId, NEW k, Threw(k), calls[k].pc \in {"entered", "wait"},
         calls[k].pc = "wait" => promise[calls[k].end][calls[k].id].st # "none"
  PROVE  IdsMove
<1>1. \A e \in Ends : nextId'[e] >= nextId[e]
  BY SlotType
<1>2. calls # <<>> /\ k \in Keys
  BY DEF Threw, Keys
<1>3. \A j \in Keys : j # k => calls'[j].pc = calls[j].pc \/ (calls[j].pc = "queued" /\ calls'[j].pc = "done")
  BY DEF Threw, Gone
<1>4. calls'[k].pc = "done"
  BY <1>2 DEF Threw, Gone
<1> QED
  BY <1>1, <1>2, <1>3, <1>4 DEF IdsMove, TakesId

(* No id is taken. *)
LEMMA IdsSame ==
  ASSUME TypeInv, UNCHANGED <<nextId, calls>>
  PROVE  IdsMove
BY IdsKept

(* Every id. *)
LEMMA IdsStep ==
  ASSUME Inv, [Next]_vars
  PROVE  IdsMove
<1>0. /\ TypeInv /\ StageInv /\ RefInv /\ FrameInv /\ IdInv /\ SlotInv /\ JobInv /\ QueueInv
      /\ TakenInv /\ CallsGrow /\ AllBorn /\ ProxiesGrow
  BY GrowStep, BornStep, ProxiesStep DEF Inv
<1>1. ASSUME Connect PROVE IdsMove
  BY <1>1, <1>0, IdsSame, ConnectShape
<1>2. ASSUME EnterSlot PROVE IdsMove
  BY <1>2, <1>0, IdsSame, EnterSlotShape
<1>3. ASSUME TakeFuture PROVE IdsMove
  BY <1>3, <1>0, IdsSame, TakeFutureShape
<1>4. ASSUME Greeted PROVE IdsMove
  <2>1. calls = <<>> /\ Keys = {} /\ nextId["C"] = 1
    BY <1>4, <1>0, GreetedShape DEF Keys
  <2>2. CASE UNCHANGED <<calls, nextId>>
    BY <1>0, <2>2, IdsSame
  <2>3. CASE nextId'["C"] = 2 /\ nextId'["S"] = nextId["S"]
    <3>1. \A e \in Ends : nextId'[e] >= nextId[e]
      BY <1>0, <2>1, <2>3, SlotType, EndParts
    <3> QED
      BY <2>1, <2>3, <3>1 DEF IdsMove
  <2> QED
    BY <1>4, <1>0, <2>2, <2>3, GreetedShape
<1>5. ASSUME Unwind PROVE IdsMove
  BY <1>5, <1>0, IdsSame, UnwindShape DEF own
<1>6. ASSUME NEW k \in Keys, TakeCall(k) PROVE IdsMove
  <2>1. /\ calls[k].pc = "queued" /\ calls'[k].pc = "ready" /\ Keys' = Keys
        /\ calls'[k].id = nextId[calls[k].end] /\ nextId'[calls[k].end] = nextId[calls[k].end] + 1
        /\ \A d \in Ends : d # calls[k].end => nextId'[d] = nextId[d]
        /\ calls[k].end \in Ends /\ Alters(k, {"pc", "id", "wire"})
    BY <1>6, <1>0, TakeCallShape
  <2>2. \A e \in Ends : nextId'[e] >= nextId[e]
    BY <1>0, <2>1, SlotType
  <2>3. calls # <<>> /\ \A j \in Keys : j # k => calls'[j] = calls[j]
    BY <2>1 DEF Alters, Keys
  <2> QED
    BY <2>1, <2>2, <2>3 DEF IdsMove, TakesId
<1>7. ASSUME NEW k \in Keys, EnterCall(k) PROVE IdsMove
  <2>1. /\ calls[k].pc = "ready" /\ calls'[k].pc = "entered" /\ Alters(k, {"pc"})
        /\ calls[k].id \in pending'[calls[k].end] /\ nextId' = nextId
    BY <1>7, <1>0, EnterCallShape
  <2>2. \A e \in Ends : nextId'[e] >= nextId[e]
    BY <1>0, <2>1, SlotType
  <2>3. calls # <<>> /\ \A j \in Keys : j # k => calls'[j] = calls[j]
    BY <2>1 DEF Alters, Keys
  <2> QED
    BY <2>1, <2>2, <2>3 DEF IdsMove, TakesId
<1>8. ASSUME NEW k \in Keys, SendCall(k) PROVE IdsMove
  <2>1. calls[k].pc = "entered" /\ nextId' = nextId
    BY <1>8, <1>0, SendCallShape
  <2>2. CASE Threw(k)
    BY <1>0, <2>1, <2>2, IdsThrown
  <2>3. CASE Alters(k, {"pc"}) /\ calls'[k].pc = "wait"
    <3>2. \A e \in Ends : nextId'[e] >= nextId[e]
      BY <1>0, <2>1, SlotType
    <3>3. calls # <<>> /\ \A j \in Keys : j # k => calls'[j] = calls[j]
      BY <2>3 DEF Alters, Keys
    <3> QED
      BY <2>1, <2>3, <3>2, <3>3 DEF IdsMove, TakesId
  <2> QED
    BY <1>8, <1>0, <2>2, <2>3, SendCallShape
<1>9. ASSUME NEW k \in Keys, ReturnCall(k) PROVE IdsMove
  <2>1. /\ calls[k].pc = "wait" /\ nextId' = nextId
        /\ promise[calls[k].end][calls[k].id].st # "none"
    BY <1>9, <1>0, ReturnCallShape DEF linkVars
  <2>2. CASE Threw(k)
    BY <1>0, <2>1, <2>2, IdsThrown
  <2>3. CASE Came(k)
    <3>2. \A e \in Ends : nextId'[e] >= nextId[e]
      BY <1>0, <2>1, SlotType
    <3>3. /\ calls # <<>> /\ \A j \in Keys : j # k => calls'[j] = calls[j]
          /\ calls'[k].pc = "done"
      BY <2>3 DEF Alters, Keys, Came
    <3> QED
      BY <2>1, <3>2, <3>3 DEF IdsMove, TakesId
  <2> QED
    BY <1>9, <1>0, <2>2, <2>3, ReturnCallShape
<1>10. ASSUME NEW k \in Keys, JobQueue(k) PROVE IdsMove
  <2>1. \A j \in Keys : calls'[j].pc = calls[j].pc
    <3> DEFINE c == k
    <3>1. Alters(c, {"job"})
      BY <1>10, <1>0, JobQueueShape
    <3> HIDE DEF c
    <3> QED
      BY <3>1 DEF Alters, Fields
  <2>2. UNCHANGED nextId /\ k \in Keys
    BY <1>10, <1>0, JobQueueShape DEF linkVars
  <2>3. calls # <<>>
    BY <2>2 DEF Keys
  <2> QED
    BY <1>0, <2>1, <2>2, <2>3, IdsKept
<1>11. ASSUME NEW k \in Keys, JobReply(k) PROVE IdsMove
  <2>1. \A j \in Keys : calls'[j].pc = calls[j].pc
    <3> DEFINE c == k
    <3>1. Alters(c, {"job"})
      BY <1>11, <1>0, JobReplyShape
    <3> HIDE DEF c
    <3> QED
      BY <3>1 DEF Alters, Fields
  <2>2. UNCHANGED nextId /\ k \in Keys
    BY <1>11, <1>0, JobReplyShape
  <2>3. calls # <<>>
    BY <2>2 DEF Keys
  <2> QED
    BY <1>0, <2>1, <2>2, <2>3, IdsKept
<1>12. ASSUME Welcome PROVE IdsMove
  BY <1>12, <1>0, IdsSame, WelcomeShape
<1>13. ASSUME Spawn PROVE IdsMove
  BY <1>13, <1>0, IdsSame, SpawnShape
<1>14. ASSUME Serve PROVE IdsMove
  <2>1. \A j \in Keys : calls'[j].pc = calls[j].pc
    <3> DEFINE c == net["S"][1].k
    <3>1. Alters(c, {"job", "to", "ref"}) \/ UNCHANGED calls
      BY <1>14, <1>0, ServeShape
    <3> HIDE DEF c
    <3> QED
      BY <3>1 DEF Alters, Fields
  <2>2. UNCHANGED nextId /\ net["S"][1].k \in Keys
    BY <1>14, <1>0, ServeShape
  <2>3. calls # <<>>
    BY <2>2 DEF Keys
  <2> QED
    BY <1>0, <2>1, <2>2, <2>3, IdsKept
<1>15. ASSUME Disconnected PROVE IdsMove
  BY <1>15, <1>0, IdsSame, DisconnectedShape DEF linkVars
<1>16. ASSUME CleanedUp PROVE IdsMove
  BY <1>16, <1>0, IdsSame DEF CleanedUp, linkVars
<1>17. ASSUME Released PROVE IdsMove
  BY <1>17, <1>0, IdsSame DEF Released, own
<1>18. ASSUME HelloAnswer PROVE IdsMove
  BY <1>18, <1>0, IdsSame, HelloAnswerShape DEF own
<1>19. ASSUME Refer PROVE IdsMove
  <2>1. \A j \in Keys : calls'[j].pc = calls[j].pc
    <3> DEFINE c == net["C"][1].k
    <3>1. Alters(c, {"job", "to"}) \/ UNCHANGED calls
      BY <1>19, <1>0, ReferShape
    <3> HIDE DEF c
    <3> QED
      BY <3>1 DEF Alters, Fields
  <2>2. UNCHANGED nextId /\ net["C"][1].k \in Keys
    BY <1>19, <1>0, ReferShape
  <2>3. calls # <<>>
    BY <2>2 DEF Keys
  <2> QED
    BY <1>0, <2>1, <2>2, <2>3, IdsKept
<1>20. ASSUME Hangup PROVE IdsMove
  BY <1>20, <1>0, IdsSame DEF Hangup, own
<1>21. ASSUME NEW e \in Ends, Result(e) PROVE IdsMove
  <2>1. \A j \in Keys : calls'[j].pc = calls[j].pc
    <3> DEFINE c == net[e][1].k
    <3>1. Alters(c, {"gift"}) \/ UNCHANGED calls
      BY <1>21, <1>0, ResultShape
    <3> HIDE DEF c
    <3> QED
      BY <3>1 DEF Alters, Fields
  <2>2. UNCHANGED nextId /\ net[e][1].k \in Keys
    BY <1>21, <1>0, ResultShape
  <2>3. calls # <<>>
    BY <2>2 DEF Keys
  <2> QED
    BY <1>0, <2>1, <2>2, <2>3, IdsKept
<1>22. ASSUME NEW e \in Ends, Output(e) PROVE IdsMove
  BY <1>22, <1>0, IdsSame, OutputShape
<1>23. ASSUME NEW e \in Ends, CloseFd(e), UNCHANGED own PROVE IdsMove
  BY <1>23, <1>0, IdsSame, CloseFdShape DEF own
<1>24. ASSUME NEW e \in Ends, CloseTable(e), UNCHANGED own PROVE IdsMove
  BY <1>24, <1>0, IdsSame, CloseTableShape DEF own
<1>25. ASSUME NEW a \in {"A", "L"}, Begin(a) PROVE IdsMove
  <2>1. \A j \in Keys : calls'[j].pc = calls[j].pc
    <3> DEFINE c == actors[a].q[1]
    <3>1. Alters(c, {"ran"})
      BY <1>25, <1>0, BeginShape
    <3> HIDE DEF c
    <3> QED
      BY <3>1 DEF Alters, Fields
  <2>2. UNCHANGED nextId /\ actors[a].q[1] \in Keys
    BY <1>25, <1>0, BeginShape DEF linkVars
  <2>3. calls # <<>>
    BY <2>2 DEF Keys
  <2> QED
    BY <1>0, <2>1, <2>2, <2>3, IdsKept
<1>26. ASSUME NEW a \in {"A", "L"}, DoPrint(a) PROVE IdsMove
  <2>1. \A j \in Keys : calls'[j].pc = calls[j].pc
    <3> DEFINE c == actors[a].cur
    <3>1. Alters(c, {"body"})
      BY <1>26, <1>0, DoPrintShape
    <3> HIDE DEF c
    <3> QED
      BY <3>1 DEF Alters, Fields
  <2>2. UNCHANGED nextId /\ actors[a].cur \in Keys
    BY <1>26, <1>0, DoPrintShape
  <2>3. calls # <<>>
    BY <2>2 DEF Keys
  <2> QED
    BY <1>0, <2>1, <2>2, <2>3, IdsKept
<1>27. ASSUME DoKeep("A") PROVE IdsMove
  <2>1. \A j \in Keys : calls'[j].pc = calls[j].pc
    <3> DEFINE c == actors["A"].cur
    <3>1. Alters(c, {"body"})
      BY <1>27, <1>0, DoKeepShape
    <3> HIDE DEF c
    <3> QED
      BY <3>1 DEF Alters, Fields
  <2>2. UNCHANGED nextId /\ actors["A"].cur \in Keys
    BY <1>27, <1>0, DoKeepShape DEF linkVars
  <2>3. calls # <<>>
    BY <2>2 DEF Keys
  <2> QED
    BY <1>0, <2>1, <2>2, <2>3, IdsKept
<1>28. ASSUME DoBack("A") PROVE IdsMove
  <2>1. \A j \in Keys : calls'[j].pc = calls[j].pc
    <3> DEFINE c == actors["A"].cur
    <3>1. Alters(c, {"body", "last"})
      BY <1>28, <1>0, DoBackShape
    <3> HIDE DEF c
    <3> QED
      BY <3>1 DEF Alters, Fields
  <2>2. UNCHANGED nextId /\ actors["A"].cur \in Keys
    BY <1>28, <1>0, DoBackShape DEF linkVars
  <2>3. calls # <<>>
    BY <2>2 DEF Keys
  <2> QED
    BY <1>0, <2>1, <2>2, <2>3, IdsKept
<1>29. ASSUME DoAwait("A") PROVE IdsMove
  <2>1. \A j \in Keys : calls'[j].pc = calls[j].pc
    <3> DEFINE k == actors["A"].cur
               c == calls[k].last
    <3>1. /\ k \in Keys /\ (c # 0 => c \in Keys)
          /\ \A j \in Keys : j # k /\ j # c => calls'[j] = calls[j]
          /\ \A f \in Fields \ {"body"} : calls'[k][f] = calls[k][f]
          /\ c # 0 => \A f \in Fields \ {"waited"} : calls'[c][f] = calls[c][f]
      BY <1>29, <1>0, DoAwaitShape
    <3>2. 0 \notin Keys
      BY <1>0, ListOf
    <3> HIDE DEF k, c
    <3> QED
      BY <3>1, <3>2, ZenonT(120) DEF Fields
  <2>2. UNCHANGED nextId /\ actors["A"].cur \in Keys
    BY <1>29, <1>0, DoAwaitShape DEF linkVars
  <2>3. calls # <<>>
    BY <2>2 DEF Keys
  <2> QED
    BY <1>0, <2>1, <2>2, <2>3, IdsKept
<1>30. ASSUME NEW a \in {"A", "L"}, Finish(a) PROVE IdsMove
  <2>1. \A j \in Keys : calls'[j].pc = calls[j].pc
    <3> DEFINE c == actors[a].cur
    <3>1. Alters(c, {"job"})
      BY <1>30, <1>0, FinishShape
    <3> HIDE DEF c
    <3> QED
      BY <3>1 DEF Alters, Fields
  <2>2. UNCHANGED nextId /\ actors[a].cur \in Keys
    BY <1>30, <1>0, FinishShape DEF linkVars
  <2>3. calls # <<>>
    BY <2>2 DEF Keys
  <2> QED
    BY <1>0, <2>1, <2>2, <2>3, IdsKept
<1>31. ASSUME Exit("A") PROVE IdsMove
  BY <1>31, <1>0, IdsSame, ExitShape DEF linkVars
<1>32. ASSUME NEW p \in DOMAIN proxies, Drop(p) PROVE IdsMove
  BY <1>32, <1>0, IdsSame, DropShape
<1>33. ASSUME Forget PROVE IdsMove
  BY <1>33, <1>0, IdsSame, ForgetShape DEF linkVars
<1>34. ASSUME Leave PROVE IdsMove
  BY <1>34, <1>0, IdsSame DEF Leave
<1>35. ASSUME NEW e \in Ends, Crash(e) PROVE IdsMove
  BY <1>35, <1>0, IdsSame DEF Crash
<1>36. ASSUME UNCHANGED vars PROVE IdsMove
  BY <1>36, <1>0, IdsSame DEF vars, linkVars, own
<1> QED
  BY <1>1, <1>2, <1>3, <1>4, <1>5, <1>6, <1>7, <1>8, <1>9, <1>10, <1>11, <1>12, <1>13, <1>14,
     <1>15, <1>16, <1>17, <1>18, <1>19, <1>20, <1>21, <1>22, <1>23, <1>24, <1>25, <1>26,
     <1>27, <1>28, <1>29, <1>30, <1>31, <1>32, <1>33, <1>34, <1>35, <1>36
     DEF Next, Step, Environment

-----------------------------------------------------------------------------
(* The invariant is kept: references *)

(* What a call comes to refer to. *)
RefMove(k) ==
  /\ \/ calls'[k].last = calls[k].last
     \/ /\ calls'[k].last \in Keys' /\ calls'[calls'[k].last].end = "S"
        /\ calls'[calls'[k].last].route = k
  /\ calls'[k].ref = calls[k].ref \/ calls'[k].ref <= Len(proxies')
  /\ calls'[k].gift = calls[k].gift \/ (calls'[k].gift <= Len(proxies') /\ calls[k].gives)

RefsMove == \A k \in Keys : RefMove(k)

(* Nothing is referred to that was not. *)
LEMMA RefsKept ==
  ASSUME \A j \in Keys : calls'[j].last = calls[j].last /\ calls'[j].ref = calls[j].ref
                          /\ calls'[j].gift = calls[j].gift
  PROVE  RefsMove
BY DEF RefsMove, RefMove

(* A call has thrown. *)
LEMMA RefsThrown ==
  ASSUME NEW k, Threw(k)
  PROVE  RefsMove
<1>1. \A j \in Keys : calls'[j].last = calls[j].last /\ calls'[j].ref = calls[j].ref
                       /\ calls'[j].gift = calls[j].gift
  BY DEF Threw, Fields
<1> QED
  BY <1>1, RefsKept

(* No call changes. *)
LEMMA RefsSame ==
  ASSUME UNCHANGED <<calls>>
  PROVE  RefsMove
BY DEF RefsMove, RefMove

(* Every reference of a call. *)
LEMMA RefsStep ==
  ASSUME Inv, [Next]_vars
  PROVE  RefsMove
<1>0. /\ TypeInv /\ StageInv /\ RefInv /\ FrameInv /\ IdInv /\ SlotInv /\ JobInv /\ QueueInv
      /\ TakenInv /\ CallsGrow /\ AllBorn /\ ProxiesGrow
  BY GrowStep, BornStep, ProxiesStep DEF Inv
<1>1. ASSUME Connect PROVE RefsMove
  BY <1>1, <1>0, RefsSame, ConnectShape
<1>2. ASSUME EnterSlot PROVE RefsMove
  BY <1>2, <1>0, RefsSame, EnterSlotShape
<1>3. ASSUME TakeFuture PROVE RefsMove
  BY <1>3, <1>0, RefsSame, TakeFutureShape
<1>4. ASSUME Greeted PROVE RefsMove
  <2>1. Keys = {}
    BY <1>4, <1>0, GreetedShape DEF Keys
  <2> QED
    BY <2>1 DEF RefsMove
<1>5. ASSUME Unwind PROVE RefsMove
  BY <1>5, <1>0, RefsSame, UnwindShape DEF own
<1>6. ASSUME NEW k \in Keys, TakeCall(k) PROVE RefsMove
  <2>1. \A j \in Keys : calls'[j].last = calls[j].last /\ calls'[j].ref = calls[j].ref /\ calls'[j].gift = calls[j].gift
    <3> DEFINE c == k
    <3>1. Alters(c, {"pc", "id", "wire"})
      BY <1>6, <1>0, TakeCallShape
    <3> HIDE DEF c
    <3> QED
      BY <3>1 DEF Alters, Fields
  <2> QED
    BY <2>1, RefsKept
<1>7. ASSUME NEW k \in Keys, EnterCall(k) PROVE RefsMove
  <2>1. \A j \in Keys : calls'[j].last = calls[j].last /\ calls'[j].ref = calls[j].ref /\ calls'[j].gift = calls[j].gift
    <3> DEFINE c == k
    <3>1. Alters(c, {"pc"})
      BY <1>7, <1>0, EnterCallShape
    <3> HIDE DEF c
    <3> QED
      BY <3>1 DEF Alters, Fields
  <2> QED
    BY <2>1, RefsKept
<1>8. ASSUME NEW k \in Keys, SendCall(k) PROVE RefsMove
  <2>1. CASE Threw(k)
    BY <2>1, RefsThrown
  <2>2. CASE Alters(k, {"pc"})
    <3>1. \A j \in Keys : calls'[j].last = calls[j].last /\ calls'[j].ref = calls[j].ref
                           /\ calls'[j].gift = calls[j].gift
      BY <2>2 DEF Alters, Fields
    <3> QED
      BY <3>1, RefsKept
  <2> QED
    BY <1>8, <1>0, <2>1, <2>2, SendCallShape
<1>9. ASSUME NEW k \in Keys, ReturnCall(k) PROVE RefsMove
  <2>1. CASE Threw(k)
    BY <2>1, RefsThrown
  <2>2. CASE Came(k)
    <3>1. \A j \in Keys : calls'[j].last = calls[j].last /\ calls'[j].ref = calls[j].ref
                           /\ calls'[j].gift = calls[j].gift
      BY <2>2 DEF Came, Alters, Fields
    <3> QED
      BY <3>1, RefsKept
  <2> QED
    BY <1>9, <1>0, <2>1, <2>2, ReturnCallShape
<1>10. ASSUME NEW k \in Keys, JobQueue(k) PROVE RefsMove
  <2>1. \A j \in Keys : calls'[j].last = calls[j].last /\ calls'[j].ref = calls[j].ref /\ calls'[j].gift = calls[j].gift
    <3> DEFINE c == k
    <3>1. Alters(c, {"job"})
      BY <1>10, <1>0, JobQueueShape
    <3> HIDE DEF c
    <3> QED
      BY <3>1 DEF Alters, Fields
  <2> QED
    BY <2>1, RefsKept
<1>11. ASSUME NEW k \in Keys, JobReply(k) PROVE RefsMove
  <2>1. \A j \in Keys : calls'[j].last = calls[j].last /\ calls'[j].ref = calls[j].ref /\ calls'[j].gift = calls[j].gift
    <3> DEFINE c == k
    <3>1. Alters(c, {"job"})
      BY <1>11, <1>0, JobReplyShape
    <3> HIDE DEF c
    <3> QED
      BY <3>1 DEF Alters, Fields
  <2> QED
    BY <2>1, RefsKept
<1>12. ASSUME Welcome PROVE RefsMove
  BY <1>12, <1>0, RefsSame, WelcomeShape
<1>13. ASSUME Spawn PROVE RefsMove
  BY <1>13, <1>0, RefsSame, SpawnShape
<1>14. ASSUME Serve PROVE RefsMove
  <2> DEFINE c == net["S"][1].k
  <2>1. CASE UNCHANGED calls
    BY <2>1, RefsKept
  <2>2. CASE ~UNCHANGED calls
    <3>1. /\ Alters(c, {"job", "to", "ref"})
          /\ calls'[c].ref = 0 \/ (calls'[c].ref = Len(proxies) + 1 /\ Len(proxies') = Len(proxies) + 1)
          /\ Len(proxies') \in Nat /\ Len(proxies) \in Nat
      BY <1>14, <1>0, <2>2, ServeShape DEF ProxyAdded, ProxiesGrow
    <3>2. calls'[c].ref <= Len(proxies')
      BY <3>1
    <3> HIDE DEF c
    <3> QED
      BY <3>1, <3>2 DEF RefsMove, RefMove, Alters, Fields
  <2> QED
    BY <2>1, <2>2
<1>15. ASSUME Disconnected PROVE RefsMove
  BY <1>15, <1>0, RefsSame, DisconnectedShape DEF linkVars
<1>16. ASSUME CleanedUp PROVE RefsMove
  BY <1>16, <1>0, RefsSame DEF CleanedUp, linkVars
<1>17. ASSUME Released PROVE RefsMove
  BY <1>17, <1>0, RefsSame DEF Released, own
<1>18. ASSUME HelloAnswer PROVE RefsMove
  BY <1>18, <1>0, RefsSame, HelloAnswerShape DEF own
<1>19. ASSUME Refer PROVE RefsMove
  <2>1. \A j \in Keys : calls'[j].last = calls[j].last /\ calls'[j].ref = calls[j].ref /\ calls'[j].gift = calls[j].gift
    <3> DEFINE c == net["C"][1].k
    <3>1. Alters(c, {"job", "to"}) \/ UNCHANGED calls
      BY <1>19, <1>0, ReferShape
    <3> HIDE DEF c
    <3> QED
      BY <3>1 DEF Alters, Fields
  <2> QED
    BY <2>1, RefsKept
<1>20. ASSUME Hangup PROVE RefsMove
  BY <1>20, <1>0, RefsSame DEF Hangup, own
<1>21. ASSUME NEW e \in Ends, Result(e) PROVE RefsMove
  <2> DEFINE c == net[e][1].k
  <2>1. CASE UNCHANGED calls
    BY <2>1, RefsKept
  <2>2. CASE ~UNCHANGED calls
    <3>1. /\ Alters(c, {"gift"}) /\ calls[c].gives
          /\ calls'[c].gift = Len(proxies) + 1 /\ Len(proxies') = Len(proxies) + 1
          /\ Len(proxies') \in Nat /\ Len(proxies) \in Nat
      BY <1>21, <1>0, <2>2, ResultShape DEF ProxyAdded, ProxiesGrow
    <3>2. calls'[c].gift <= Len(proxies')
      BY <3>1
    <3> HIDE DEF c
    <3> QED
      BY <3>1, <3>2 DEF RefsMove, RefMove, Alters, Fields
  <2> QED
    BY <2>1, <2>2
<1>22. ASSUME NEW e \in Ends, Output(e) PROVE RefsMove
  BY <1>22, <1>0, RefsSame, OutputShape
<1>23. ASSUME NEW e \in Ends, CloseFd(e), UNCHANGED own PROVE RefsMove
  BY <1>23, <1>0, RefsSame, CloseFdShape DEF own
<1>24. ASSUME NEW e \in Ends, CloseTable(e), UNCHANGED own PROVE RefsMove
  BY <1>24, <1>0, RefsSame, CloseTableShape DEF own
<1>25. ASSUME NEW a \in {"A", "L"}, Begin(a) PROVE RefsMove
  <2>1. \A j \in Keys : calls'[j].last = calls[j].last /\ calls'[j].ref = calls[j].ref /\ calls'[j].gift = calls[j].gift
    <3> DEFINE c == actors[a].q[1]
    <3>1. Alters(c, {"ran"})
      BY <1>25, <1>0, BeginShape
    <3> HIDE DEF c
    <3> QED
      BY <3>1 DEF Alters, Fields
  <2> QED
    BY <2>1, RefsKept
<1>26. ASSUME NEW a \in {"A", "L"}, DoPrint(a) PROVE RefsMove
  <2>1. \A j \in Keys : calls'[j].last = calls[j].last /\ calls'[j].ref = calls[j].ref /\ calls'[j].gift = calls[j].gift
    <3> DEFINE c == actors[a].cur
    <3>1. Alters(c, {"body"})
      BY <1>26, <1>0, DoPrintShape
    <3> HIDE DEF c
    <3> QED
      BY <3>1 DEF Alters, Fields
  <2> QED
    BY <2>1, RefsKept
<1>27. ASSUME DoKeep("A") PROVE RefsMove
  <2>1. \A j \in Keys : calls'[j].last = calls[j].last /\ calls'[j].ref = calls[j].ref /\ calls'[j].gift = calls[j].gift
    <3> DEFINE c == actors["A"].cur
    <3>1. Alters(c, {"body"})
      BY <1>27, <1>0, DoKeepShape
    <3> HIDE DEF c
    <3> QED
      BY <3>1 DEF Alters, Fields
  <2> QED
    BY <2>1, RefsKept
<1>28. ASSUME DoBack("A") PROVE RefsMove
  <2> DEFINE k == actors["A"].cur
             p == Callee(k)
  <2>1. /\ Alters(k, {"body", "last"}) /\ k \in Keys
        /\ \/ calls'[k].last = calls[k].last
           \/ /\ Len(calls') = Len(calls) + 1 /\ calls'[k].last = Len(calls) + 1
              /\ FreshPlain(Len(calls) + 1, "S", p, k)
    BY <1>28, <1>0, DoBackShape
  <2>2. RefMove(k)
    <3> HIDE DEF k, p
    <3>1. calls'[k].ref = calls[k].ref /\ calls'[k].gift = calls[k].gift
      BY <2>1 DEF Alters, Fields
    <3>2. CASE calls'[k].last = calls[k].last
      BY <3>1, <3>2 DEF RefMove
    <3>3. CASE /\ Len(calls') = Len(calls) + 1 /\ calls'[k].last = Len(calls) + 1
               /\ FreshPlain(Len(calls) + 1, "S", p, k)
      <4>1. Len(calls) + 1 \in Keys'
        BY <1>0, <2>1, <3>3, ListOf DEF Alters, Keys
      <4> QED
        BY <3>1, <3>3, <4>1 DEF RefMove, FreshPlain, Fresh
    <3> QED
      BY <2>1, <3>2, <3>3
  <2> HIDE DEF k, p
  <2> QED
    BY <2>1, <2>2 DEF RefsMove, RefMove, Alters
<1>29. ASSUME DoAwait("A") PROVE RefsMove
  <2>1. \A j \in Keys : calls'[j].last = calls[j].last /\ calls'[j].ref = calls[j].ref /\ calls'[j].gift = calls[j].gift
    <3> DEFINE k == actors["A"].cur
               c == calls[k].last
    <3>1. /\ k \in Keys /\ (c # 0 => c \in Keys)
          /\ \A j \in Keys : j # k /\ j # c => calls'[j] = calls[j]
          /\ \A f \in Fields \ {"body"} : calls'[k][f] = calls[k][f]
          /\ c # 0 => \A f \in Fields \ {"waited"} : calls'[c][f] = calls[c][f]
      BY <1>29, <1>0, DoAwaitShape
    <3>2. 0 \notin Keys
      BY <1>0, ListOf
    <3> HIDE DEF k, c
    <3> QED
      BY <3>1, <3>2, ZenonT(120) DEF Fields
  <2> QED
    BY <2>1, RefsKept
<1>30. ASSUME NEW a \in {"A", "L"}, Finish(a) PROVE RefsMove
  <2>1. \A j \in Keys : calls'[j].last = calls[j].last /\ calls'[j].ref = calls[j].ref /\ calls'[j].gift = calls[j].gift
    <3> DEFINE c == actors[a].cur
    <3>1. Alters(c, {"job"})
      BY <1>30, <1>0, FinishShape
    <3> HIDE DEF c
    <3> QED
      BY <3>1 DEF Alters, Fields
  <2> QED
    BY <2>1, RefsKept
<1>31. ASSUME Exit("A") PROVE RefsMove
  BY <1>31, <1>0, RefsSame, ExitShape DEF linkVars
<1>32. ASSUME NEW p \in DOMAIN proxies, Drop(p) PROVE RefsMove
  BY <1>32, <1>0, RefsSame, DropShape
<1>33. ASSUME Forget PROVE RefsMove
  BY <1>33, <1>0, RefsSame, ForgetShape DEF linkVars
<1>34. ASSUME Leave PROVE RefsMove
  BY <1>34, <1>0, RefsSame DEF Leave
<1>35. ASSUME NEW e \in Ends, Crash(e) PROVE RefsMove
  BY <1>35, <1>0, RefsSame DEF Crash
<1>36. ASSUME UNCHANGED vars PROVE RefsMove
  BY <1>36, <1>0, RefsSame DEF vars, linkVars, own
<1> QED
  BY <1>1, <1>2, <1>3, <1>4, <1>5, <1>6, <1>7, <1>8, <1>9, <1>10, <1>11, <1>12, <1>13, <1>14,
     <1>15, <1>16, <1>17, <1>18, <1>19, <1>20, <1>21, <1>22, <1>23, <1>24, <1>25, <1>26,
     <1>27, <1>28, <1>29, <1>30, <1>31, <1>32, <1>33, <1>34, <1>35, <1>36
     DEF Next, Step, Environment

(* What calls refer to is there. *)
LEMMA RefStep ==
  ASSUME Inv, [Next]_vars
  PROVE  RefInv'
<1>0. TypeInv /\ RefInv /\ CallsGrow /\ AllBorn /\ ProxiesGrow /\ RefsMove
  BY GrowStep, BornStep, ProxiesStep, RefsStep DEF Inv
<1> SUFFICES ASSUME NEW k \in Keys' PROVE RefOK(k)'
  BY DEF RefInv
<1>1. /\ Len(proxies) \in Nat /\ Len(proxies') \in Nat /\ Len(proxies') >= Len(proxies)
      /\ \A j \in Keys : j \in Keys' /\ Older(j)
  BY <1>0, ListOf DEF CallsGrow, ProxiesGrow, Keys
<1>2. CASE k \in Keys
  <2>0. /\ RefOK(k) /\ Older(k) /\ RefMove(k) /\ calls[k].ref \in Nat /\ calls[k].gift \in Nat
        /\ calls[k].via \in Nat
    BY <1>0, <1>1, <1>2, CallOf, CallType DEF RefInv, RefsMove
  <2>1. k # 1 => calls'[k].via \in 1 .. Len(proxies')
    BY <1>1, <2>0 DEF RefOK, Older
  <2>2. calls'[k].end = "C" => calls'[k].route = 0 /\ calls'[k].for = 0
    BY <2>0 DEF RefOK, Older
  <2>3. calls'[k].end = "S" => /\ calls'[k].route \in Keys' /\ calls'[k].for = calls'[k].route
                               /\ calls'[calls'[k].route].end = "C"
                               /\ calls'[calls'[k].route].ran # <<>>
    <3>1. calls[k].end = "S" => Older(calls[k].route) /\ calls[k].route \in Keys'
      BY <1>1, <2>0 DEF RefOK
    <3> QED
      BY <2>0, <3>1 DEF RefOK, Older
  <2>4. calls'[k].last # 0 => /\ calls'[k].last \in Keys' /\ calls'[calls'[k].last].end = "S"
                              /\ calls'[calls'[k].last].route = k
    <3>1. calls[k].last # 0 => Older(calls[k].last) /\ calls[k].last \in Keys'
      BY <1>1, <2>0 DEF RefOK
    <3> QED
      BY <2>0, <3>1 DEF RefOK, Older, RefMove
  <2>5. calls'[k].ref <= Len(proxies') /\ calls'[k].gift <= Len(proxies')
    BY <1>1, <2>0 DEF RefOK, RefMove
  <2>6. /\ k = 1 \/ calls'[k].end = "S" => ~calls'[k].gives
        /\ calls'[k].gift # 0 => calls'[k].gives
    BY <2>0 DEF RefOK, RefMove, Older
  <2> QED
    BY <2>1, <2>2, <2>3, <2>4, <2>5, <2>6 DEF RefOK
<1>3. CASE k \notin Keys
  <2>0. Newborn(k)
    BY <1>0, <1>3 DEF AllBorn
  <2>1. CASE Spawning(k)
    BY <1>1, <2>0, <2>1 DEF Newborn, Spawning, RefOK
  <2>2. CASE Calling(k)
    <3>1. calls'[k].end = "S" => Older(calls'[k].route) /\ calls'[k].route \in Keys'
      BY <1>1, <2>2 DEF Calling
    <3>2. calls'[k].end = "S" => /\ calls'[calls'[k].route].end = "C"
                                 /\ calls'[calls'[k].route].ran # <<>>
      BY <2>2, <3>1 DEF Calling, Older
    <3> QED
      BY <1>1, <2>0, <2>2, <3>1, <3>2 DEF Newborn, Calling, RefOK
  <2> QED
    BY <2>0, <2>1, <2>2 DEF Newborn
<1> QED
  BY <1>2, <1>3

-----------------------------------------------------------------------------
(* The invariant is kept: ids and tables *)

(* What is known of a step, for the tables. *)
LEMMA TableFacts ==
  ASSUME Inv, [Next]_vars
  PROVE  /\ TypeInv /\ StageInv /\ IdInv /\ SlotInv /\ CallsGrow /\ AllBorn /\ SlotsMove /\ IdsMove
         /\ TypeInv' /\ AnswerInv /\ TakenInv
BY GrowStep, BornStep, TableStep, IdsStep, TypeStep DEF Inv

(* An id that was given stays. *)
LEMMA IdStays ==
  ASSUME Inv, [Next]_vars, NEW k \in Keys, calls[k].id # 0
  PROVE  calls'[k].id = calls[k].id /\ calls'[k].end = calls[k].end /\ k \in Keys'
<1>1. Older(k) /\ IdOK(k) /\ k \in Keys'
  BY TableFacts, ListOf DEF CallsGrow, IdInv, Keys
<1> QED
  BY <1>1 DEF Older, IdOK

(* Ids. *)
LEMMA IdStep ==
  ASSUME Inv, [Next]_vars
  PROVE  IdInv'
<1>0. /\ TypeInv /\ StageInv /\ IdInv /\ SlotInv /\ CallsGrow /\ AllBorn /\ SlotsMove /\ IdsMove
      /\ TypeInv' /\ 0 \in Ids
  BY TableFacts, LinkAssumption DEF Ids
<1>1. \A e \in Ends : nextId[e] \in Nat \ {0} /\ nextId'[e] \in Nat \ {0} /\ nextId'[e] >= nextId[e]
  BY <1>0, SlotType DEF TypeInv, LinkType, IdsMove
<1>2. \A k \in Keys : /\ Older(k) /\ IdOK(k) /\ calls[k].end \in Ends /\ calls[k].id \in Nat
                      /\ calls[k].id \in Ids
  BY <1>0, CallOf, CallType DEF CallsGrow, IdInv, Ids
<1>3. \A k \in Keys' : calls'[k].end \in Ends /\ calls'[k].id \in Nat /\ calls'[k].id \in Ids
  <2>1. \A k \in Keys' : calls'[k] \in CallRec
    BY <1>0 DEF CallsGrow, Keys
  <2> QED
    BY <2>1, CallType DEF Ids
<1>4. \A k \in Keys : calls'[k].id = calls[k].id \/ TakesId(k)
  BY <1>2 DEF Older, TakesId
<1>5. \A k \in Keys : TakesId(k) =>
        /\ Keys' = Keys /\ calls'[k].id = nextId[calls[k].end]
        /\ nextId'[calls[k].end] = nextId[calls[k].end] + 1
        /\ \A j \in Keys : j # k => calls'[j].id = calls[j].id
  BY <1>0 DEF IdsMove
<1>6. \A k \in Keys' \ Keys : \/ calls'[k].id = 0 /\ calls'[k].pc \in {"queued", "done"}
                              \/ /\ Spawning(k) /\ Keys = {} /\ Keys' = {1} /\ nextId'["C"] = 2
                                 /\ nextId["C"] = 1
  <2> SUFFICES ASSUME NEW k \in Keys' \ Keys, Spawning(k)
               PROVE  Keys = {} /\ Keys' = {1} /\ nextId'["C"] = 2 /\ nextId["C"] = 1
    BY <1>0 DEF AllBorn, Newborn, Calling
  <2>1. Keys = {} /\ Keys' = {1}
    BY <1>0 DEF Keys, Spawning, CallsGrow
  <2>2. calls = <<>> /\ calls' # <<>>
    <3>1. calls' = <<>> => Len(calls') = 0
      OBVIOUS
    <3> QED
      BY <3>1 DEF Spawning
  <2> QED
    BY <1>0, <2>1, <2>2 DEF IdsMove, Spawning, StageInv
<1>7. ASSUME NEW k \in Keys' PROVE calls'[k].id < nextId'[calls'[k].end]
  <2>1. CASE k \in Keys
    BY <1>1, <1>2, <1>4, <1>5, <2>1 DEF IdOK, Older
  <2>2. CASE k \notin Keys
    BY <1>1, <1>3, <1>6, <2>2 DEF Spawning
  <2> QED
    BY <2>1, <2>2
<1>8. ASSUME NEW k \in Keys'
      PROVE  /\ calls'[k].pc = "queued" => calls'[k].id = 0
             /\ calls'[k].pc \in {"ready", "entered", "wait"} => calls'[k].id # 0
  <2>1. CASE k \in Keys
    BY <1>1, <1>2, <1>4, <1>5, <2>1 DEF IdOK, Older, TakesId
  <2>2. CASE k \notin Keys
    BY <1>6, <2>2 DEF Spawning
  <2> QED
    BY <2>1, <2>2
<1>9. ASSUME NEW k \in Keys', calls'[k].pc = "ready"
      PROVE  /\ calls'[k].id \notin pending'[calls'[k].end]
             /\ promise'[calls'[k].end][calls'[k].id].st = "none"
  <2> DEFINE e == calls'[k].end
             i == calls'[k].id
  <2>0. e \in Ends /\ i \in Ids /\ i # 0
    BY <1>3, <1>8, <1>9
  <2>1. i \notin pending[e] /\ promise[e][i].st = "none"
    <3>1. CASE k \in Keys /\ calls[k].pc = "ready"
      <4>1. e = calls[k].end /\ i = calls[k].id /\ IdOK(k)
        BY <1>2, <1>4, <3>1 DEF Older, TakesId
      <4> QED
        BY <3>1, <4>1 DEF IdOK
    <3>2. CASE k \in Keys /\ calls[k].pc # "ready"
      <4>1. TakesId(k)
        BY <1>2, <1>9, <3>2 DEF Older, TakesId
      <4>2. i = nextId[e]
        BY <1>2, <1>5, <3>2, <4>1 DEF Older
      <4>3. SlotOK(e, i) /\ i \in Nat
        BY <1>0, <2>0 DEF SlotInv, Ids
      <4> QED
        BY <4>2, <4>3 DEF SlotOK
    <3>3. CASE k \notin Keys
      <4>1. i = nextId[e]
        BY <1>6, <1>9, <3>3 DEF Spawning
      <4>2. SlotOK(e, i) /\ i \in Nat
        BY <1>0, <2>0 DEF SlotInv, Ids
      <4> QED
        BY <4>1, <4>2 DEF SlotOK
    <3> QED
      BY <3>1, <3>2, <3>3
  <2>2. SlotMove(e, i)
    BY <1>0, <2>0 DEF SlotsMove
  <2>3. ~Entered(e, i)
    <3> SUFFICES ASSUME NEW j \in Keys, calls[j].end = e, calls[j].id = i,
                        calls[j].pc = "ready", calls'[j].pc = "entered"
                 PROVE  FALSE
      BY <2>0 DEF Entered
    <3>1. j # k
      BY <1>9
    <3>2. k \in Keys
      BY <1>6, <1>9
    <3>3. CASE TakesId(k)
      <4>1. i = nextId[e]
        BY <1>2, <1>5, <3>2, <3>3 DEF Older
      <4> QED
        BY <1>1, <1>2, <2>0, <4>1 DEF IdOK
    <3>4. CASE calls'[k].id = calls[k].id
      BY <1>2, <2>0, <3>1, <3>2, <3>4 DEF IdOK, Older
    <3> QED
      BY <1>4, <3>2, <3>3, <3>4
  <2> HIDE DEF e, i
  <2>4. i \notin pending'[e] /\ promise'[e][i].st = "none"
    BY <2>1, <2>2, <2>3 DEF SlotMove, Untouched, Settled
  <2> QED
    BY <2>4 DEF e, i
<1>10. ASSUME NEW k \in Keys', NEW j \in Keys', calls'[j].end = calls'[k].end,
              calls'[j].id = calls'[k].id, calls'[k].id # 0
       PROVE  j = k
  <2>1. CASE k \in Keys /\ j \in Keys /\ ~TakesId(k) /\ ~TakesId(j)
    BY <1>2, <1>4, <1>10, <2>1 DEF IdOK, Older
  <2>2. CASE k \in Keys /\ j \in Keys /\ TakesId(k)
    <3> SUFFICES ASSUME j # k PROVE FALSE
      OBVIOUS
    <3>1. calls[j].id = nextId[calls[k].end] /\ calls[j].end = calls[k].end
      BY <1>2, <1>5, <1>10, <2>2 DEF Older
    <3> QED
      BY <1>1, <1>2, <2>2, <3>1 DEF IdOK
  <2>3. CASE k \in Keys /\ j \in Keys /\ TakesId(j)
    <3> SUFFICES ASSUME j # k PROVE FALSE
      OBVIOUS
    <3>1. calls[k].id = nextId[calls[j].end] /\ calls[j].end = calls[k].end
      BY <1>2, <1>5, <1>10, <2>3 DEF Older
    <3> QED
      BY <1>1, <1>2, <2>3, <3>1 DEF IdOK
  <2>4. CASE k \notin Keys \/ j \notin Keys
    BY <1>6, <1>10, <2>4
  <2> QED
    BY <2>1, <2>2, <2>3, <2>4
<1> QED
  BY <1>7, <1>8, <1>9, <1>10 DEF IdInv, IdOK

(* The tables. *)
LEMMA SlotStep ==
  ASSUME Inv, [Next]_vars
  PROVE  SlotInv'
<1>0. /\ TypeInv /\ StageInv /\ IdInv /\ SlotInv /\ CallsGrow /\ SlotsMove /\ IdsMove /\ TypeInv'
  BY TableFacts
<1> SUFFICES ASSUME NEW e \in Ends, NEW i \in Ids PROVE SlotOK(e, i)'
  BY DEF SlotInv, Ends, Ids
<1>1. /\ nextId[e] \in Nat \ {0} /\ nextId'[e] \in Nat \ {0} /\ nextId'[e] >= nextId[e] /\ i \in Nat
      /\ SlotOK(e, i) /\ SlotMove(e, i)
  <2>1. nextId[e] \in Nat \ {0} /\ nextId'[e] \in Nat \ {0} /\ i \in Nat
    BY <1>0, SlotType DEF TypeInv, LinkType, Ids
  <2> QED
    BY <1>0, <2>1 DEF IdsMove, SlotInv, SlotsMove
<1>2. ASSUME i # 0, \E k \in Keys : calls[k].end = e /\ calls[k].id = i
      PROVE  \E k \in Keys' : calls'[k].end = e /\ calls'[k].id = i
  BY <1>2, IdStays
<1>3. CASE Untouched(e, i)
  BY <1>1, <1>2, <1>3 DEF Untouched, SlotOK
<1>4. CASE Settled(e, i)
  BY <1>1, <1>4 DEF Settled, SlotOK
<1>5. CASE Entered(e, i)
  <2>1. CASE i = 0 /\ e = "C" /\ main = "slot"
    <3>1. promise'[e][i].st = "none"
      BY <1>0, <1>5, <2>1 DEF StageInv, Entered
    <3> QED
      BY <1>1, <2>1, <3>1 DEF SlotOK
  <2>2. ASSUME NEW k \in Keys, calls[k].end = e, calls[k].id = i, calls[k].pc = "ready"
        PROVE  SlotOK(e, i)'
    <3>1. promise[e][i].st = "none" /\ i < nextId[e] /\ i # 0
      BY <1>0, <2>2 DEF IdInv, IdOK
    <3>2. promise'[e][i].st = "none"
      BY <1>5, <3>1 DEF Entered
    <3> QED
      BY <1>1, <1>2, <2>2, <3>1, <3>2 DEF SlotOK
  <2> QED
    BY <1>5, <2>1, <2>2 DEF Entered
<1> QED
  BY <1>1, <1>3, <1>4, <1>5 DEF SlotMove

(* Whoever waits will be answered. *)
LEMMA AnswerStep ==
  ASSUME Inv, [Next]_vars
  PROVE  AnswerInv'
<1>0. TypeInv /\ IdInv /\ AnswerInv /\ CallsGrow /\ AllBorn /\ SlotsMove /\ IdsMove
  BY TableFacts
<1> SUFFICES ASSUME NEW k \in Keys', calls'[k].pc \in {"entered", "wait"}
             PROVE  \/ calls'[k].id \in pending'[calls'[k].end]
                    \/ promise'[calls'[k].end][calls'[k].id].st # "none"
  BY DEF AnswerInv, Answerable
<1>1. k \in Keys
  BY <1>0 DEF AllBorn, Newborn, Spawning, Calling
<1>2. /\ Older(k) /\ IdOK(k) /\ Answerable(k) /\ calls[k].end \in Ends /\ calls[k].id \in Ids
      /\ calls[k].pc \in {"ready", "entered", "wait"}
  <2>1. Older(k)
    BY <1>0, <1>1 DEF CallsGrow
  <2> QED
    BY <1>0, <1>1, <2>1, CallOf, CallType DEF Older, IdInv, AnswerInv
<1>3. calls'[k].id = calls[k].id /\ calls'[k].end = calls[k].end
  BY <1>1, <1>2, IdStays DEF IdOK
<1>4. CASE calls[k].pc = "ready"
  <2>1. calls'[k].pc = "entered"
    BY <1>2, <1>4 DEF Older
  <2> QED
    BY <1>0, <1>1, <1>3, <1>4, <2>1 DEF IdsMove
<1>5. CASE calls[k].pc # "ready"
  <2>1. SlotMove(calls[k].end, calls[k].id)
    BY <1>0, <1>2 DEF SlotsMove
  <2> QED
    BY <1>2, <1>3, <1>5, <2>1 DEF SlotMove, Untouched, Settled, Entered, Answerable
<1> QED
  BY <1>4, <1>5

=============================================================================
