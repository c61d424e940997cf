--------------------------- MODULE RemoteRun_proofs ---------------------------
(***************************************************************************)
(* Proofs about RemoteRun, for any number of servers, brokers, plans,      *)
(* calls, edits and faults.                                                *)
(***************************************************************************)
EXTENDS RemoteRun, SequenceTheorems, TLAPS

Kinds == {"upload", "manifest", "list", "fetch", "submit"}

\* What a server has in memory.
Mem == [todo : Seq(Kinds), expected : Seq(Content), found : Seq(Content), ok : BOOLEAN]

\* What is left of Requests(op) on the way.
Todos(op) ==
    CASE op = "upload" -> {<<"upload", "manifest">>, <<"manifest">>, <<>>}
      [] op = "download" -> {<<"list", "manifest", "fetch">>, <<"manifest", "fetch">>, <<"fetch">>, <<>>}
      [] op = "submit" -> {<<"submit">>, <<>>}

\* The operation a request is a part of.
KindOf(op) ==
    CASE op = "upload" -> {"upload", "manifest"}
      [] op = "download" -> {"list", "manifest", "fetch"}
      [] op = "submit" -> {"submit"}

TypeInv ==
    /\ TypeOK
    /\ mem \in [Servers -> Mem]
    /\ used \in [{"calls", "edits", "faults"} -> Nat]
    /\ used.calls <= MaxCalls

\* A server that is not idle has a call, and what it has yet to ask for is the
\* rest of what this call asks for.
CallInv ==
    \A s \in Servers :
        /\ pc[s] # "idle" => call[s] \in CallIds /\ mem[s].todo \in Todos(call[s].op)
        /\ pc[s] = "idle" => call[s] = NoCall /\ mem[s] = NoMem
        /\ pc[s] = "hash" => call[s].op = "upload" /\ mem[s].todo # <<>>
        /\ pc[s] \in {"send", "wait"} => mem[s].todo # <<>>

\* What a request says of its call.
CallOf(r) ==
    /\ r.kind \in Kinds => r.call \in CallIds /\ r.kind \in KindOf(r.call.op)
    /\ r.kind \notin Kinds => r.call = NoCall

\* Every request, in a queue or being executed. One that waits has found nothing.
RequestInv ==
    \A b \in Brokers :
        /\ CallOf(current[b])
        /\ \A i \in DOMAIN queue[b] : CallOf(queue[b][i]) /\ queue[b][i].found = <<>>

\* The items of a sequence.
LEMMA Item ==
    ASSUME NEW S, NEW q \in Seq(S), NEW i \in DOMAIN q
    PROVE  i \in 1..Len(q) /\ q[i] \in S
  BY LenProperties

\* A second item.
LEMMA AppendedPair ==
    ASSUME NEW S, NEW x \in S, NEW y \in S
    PROVE  Append(<<x>>, y) = <<x, y>>
  <1>1. <<x>> \in Seq(S) /\ <<x, y>> \in Seq(S) /\ Len(<<x>>) = 1 /\ Len(<<x, y>>) = 2
    OBVIOUS
  <1>2. /\ Append(<<x>>, y) \in Seq(S) /\ Len(Append(<<x>>, y)) = 2
        /\ Append(<<x>>, y)[1] = x /\ Append(<<x>>, y)[2] = y
    BY <1>1, AppendProperties
  <1> DEFINE a == Append(<<x>>, y)
  <1>3. \A i \in 1..Len(a) : a[i] = <<x, y>>[i]
    <2>1. ASSUME NEW i \in 1..2 PROVE a[i] = <<x, y>>[i]
      <3>1. CASE i = 1
        BY <1>2, <3>1
      <3>2. CASE i = 2
        BY <1>2, <3>2
      <3> QED BY <2>1, <3>1, <3>2
    <2> QED BY <1>2, <2>1
  <1>4. a \in Seq(S) /\ Len(a) = Len(<<x, y>>)
    BY <1>1, <1>2
  <1> HIDE DEF a
  <1>5. a = <<x, y>>
    BY <1>1, <1>3, <1>4, SeqEqual
  <1> QED BY <1>5 DEF a

\* What is left after a request.
LEMMA TodosStep ==
    ASSUME NEW op \in Ops, NEW todo \in Todos(op)
    PROVE  /\ todo \in Seq(Kinds)
           /\ todo # <<>> => /\ Head(todo) \in KindOf(op)
                             /\ Tail(todo) \in Todos(op)
           /\ Len(todo) > 1 => Tail(todo) # <<>> /\ op # "submit"
  <1> USE DEF Todos, KindOf, Kinds
  <1>1. CASE op = "upload"
    <2>1. CASE todo = <<"upload", "manifest">>
      BY <1>1, <2>1
    <2>2. CASE todo = <<"manifest">>
      BY <1>1, <2>2
    <2>3. CASE todo = <<>>
      BY <1>1, <2>3
    <2> QED BY <1>1, <2>1, <2>2, <2>3
  <1>2. CASE op = "download"
    <2>1. CASE todo = <<"list", "manifest", "fetch">>
      BY <1>2, <2>1
    <2>2. CASE todo = <<"manifest", "fetch">>
      BY <1>2, <2>2
    <2>3. CASE todo = <<"fetch">>
      BY <1>2, <2>3
    <2>4. CASE todo = <<>>
      BY <1>2, <2>4
    <2> QED BY <1>2, <2>1, <2>2, <2>3, <2>4
  <1>3. CASE op = "submit"
    <2>1. CASE todo = <<"submit">>
      BY <1>3, <2>1
    <2>2. CASE todo = <<>>
      BY <1>3, <2>2
    <2> QED BY <1>3, <2>1, <2>2
  <1> QED BY <1>1, <1>2, <1>3 DEF Ops

\* What a call asks for.
LEMMA RequestsOf ==
    ASSUME NEW op \in Ops
    PROVE  Requests(op) \in Todos(op) /\ Requests(op) # <<>>
  BY DEF Ops, Requests, Todos

\* No call is no call.
LEMMA NoCallIsNone == NoCall \notin CallIds
  BY DEF NoCall, CallIds, Ops

\* The initial state satisfies the invariants.
LEMMA InitType == Init => TypeInv /\ CallInv
  <1> SUFFICES ASSUME Init PROVE TypeInv /\ CallInv
    OBVIOUS
  <1> USE StartAssumption, BoundsAssumption
  <1>1. NoRequest \in Request
    BY DEF NoRequest, Request, NoCall, Content
  <1>2. NoMem \in Mem
    BY DEF NoMem, Mem
  <1>3. TypeOK
    BY <1>1 DEF Init, TypeOK, Content
  <1>4. CallInv
    BY DEF Init, CallInv
  <1> QED BY <1>2, <1>3, <1>4 DEF Init, TypeInv

-----------------------------------------------------------------------------
(* Types.                                                                  *)

LEMMA WorldType ==
    ASSUME TypeInv, CallInv, Edit \/ JobWrites
    PROVE  TypeInv' /\ CallInv'
  <1>1. CASE Edit
    <2>1. local' \in Plans /\ used' \in [{"calls", "edits", "faults"} -> Nat] /\ used'.calls = used.calls
      BY <1>1, BoundsAssumption DEF Edit, Use, TypeInv
    <2> QED BY <1>1, <2>1 DEF Edit, TypeInv, CallInv, TypeOK, files, servers, brokers
  <1>2. CASE JobWrites
    <2>1. PICK i \in DOMAIN jobs : RemotePut("out", jobs[i].ran.input)
      BY <1>2 DEF JobWrites
    <2>2. jobs[i].ran.input \in Content
      <3>1. jobs \in Seq([call : CallIds, ran : [InputFiles -> Content]])
        BY DEF TypeInv, TypeOK
      <3>2. jobs[i] \in [call : CallIds, ran : [InputFiles -> Content]]
        BY <2>1, <3>1, Item
      <3>3. jobs[i].ran["input"] \in Content
        BY <3>2 DEF InputFiles
      <3> QED BY <3>2, <3>3
    <2>3. remote' \in [InputFiles \cup {"out"} -> Content]
      BY <2>1, <2>2 DEF RemotePut, TypeInv, TypeOK
    <2> QED BY <1>2, <2>3 DEF JobWrites, TypeInv, CallInv, TypeOK, files, servers, brokers
  <1> QED BY <1>1, <1>2

LEMMA BeginType ==
    ASSUME TypeInv, CallInv, NEW s \in Servers, BeginCall(s)
    PROVE  TypeInv' /\ CallInv'
  <1>1. PICK op \in Ops, plan \in Plans :
            /\ call' = [call EXCEPT ![s] = [op |-> op, plan |-> plan, id |-> used.calls + 1]]
            /\ mem' = [mem EXCEPT ![s] = [NoMem EXCEPT !.todo = Requests(op)]]
            /\ pc' = [pc EXCEPT ![s] = IF op = "upload" THEN "hash" ELSE "send"]
    BY DEF BeginCall, Go, Ops
  <1>2. /\ used' \in [{"calls", "edits", "faults"} -> Nat]
        /\ used'.calls = used.calls + 1 /\ used'.calls \in 1..MaxCalls
    BY BoundsAssumption DEF BeginCall, Use, TypeInv
  <1>3. [op |-> op, plan |-> plan, id |-> used.calls + 1] \in CallIds
    BY <1>2 DEF CallIds
  <1>4. [NoMem EXCEPT !.todo = Requests(op)] \in Mem /\ Requests(op) \in Todos(op) /\ Requests(op) # <<>>
    <2>1. Requests(op) \in Todos(op) /\ Requests(op) # <<>> /\ Requests(op) \in Seq(Kinds)
      BY RequestsOf, TodosStep
    <2>2. NoMem \in Mem
      BY DEF NoMem, Mem
    <2> QED BY <2>1, <2>2 DEF Mem
  <1>5. UNCHANGED <<world, files, brokers>>
    BY DEF BeginCall
  <1>6. TypeOK'
    BY <1>1, <1>3, <1>4, <1>5 DEF TypeInv, TypeOK, Mem, world, files, brokers, NoMem
  <1>7. CallInv'
    BY <1>1, <1>3, <1>4, <1>5 DEF TypeInv, TypeOK, Mem, NoMem, CallInv
  <1> QED BY <1>1, <1>2, <1>4, <1>6, <1>7 DEF TypeInv

\* A step of a server that changes nothing but its own memory and place.
LEMMA LocalType ==
    ASSUME TypeInv, CallInv, NEW s \in Servers, pc[s] # "idle",
           NEW m \in Mem, mem' = [mem EXCEPT ![s] = m], m.todo = mem[s].todo,
           NEW at \in {"hash", "send", "wait", "conclude", "record"}, pc' = [pc EXCEPT ![s] = at],
           at \in {"hash", "send", "wait"} => m.todo # <<>>,
           at = "hash" => call[s].op = "upload",
           UNCHANGED <<world, files, call, path, broker, current, used>>,
           queue' \in [Brokers -> Seq(Request)]
    PROVE  TypeInv' /\ CallInv'
  <1>1. TypeOK'
    BY DEF TypeInv, TypeOK, world, files, Mem
  <1>2. CallInv'
    BY DEF TypeInv, TypeOK, CallInv, Mem
  <1> QED BY <1>1, <1>2 DEF TypeInv

LEMMA ProceedType ==
    ASSUME TypeInv, CallInv, NEW s \in Servers, Proceed(s)
    PROVE  TypeInv' /\ CallInv'
  <1>1. mem[s] \in Mem /\ mem[s].todo \in Seq(Kinds) /\ mem \in [Servers -> Mem] /\ pc \in [Servers -> {"idle", "hash", "send", "wait", "conclude", "record"}]
    BY DEF TypeInv, TypeOK, Mem
  <1>2. CASE HashLocal(s)
    <2>1. [mem[s] EXCEPT !.expected = Append(@, local)] \in Mem
      <3>1. local \in Content /\ mem[s].expected \in Seq(Content)
        BY <1>1 DEF TypeInv, TypeOK, Mem, Content
      <3>2. Append(mem[s].expected, local) \in Seq(Content)
        BY <3>1
      <3> QED BY <1>1, <3>2 DEF Mem
    <2> QED BY <1>1, <1>2, <2>1, LocalType DEF HashLocal, Go, brokers, TypeInv, TypeOK, CallInv, Mem
  <1>3. CASE Send(s)
    <2>1. CASE Failed(s) /\ UNCHANGED queue
      <3>1. [mem[s] EXCEPT !.ok = FALSE] \in Mem
        BY <1>1 DEF Mem
      <3> QED BY <1>1, <1>3, <2>1, <3>1, LocalType DEF Send, Failed, Go, TypeInv, TypeOK, Mem
    <2>2. ASSUME NEW b \in Brokers, Reachable(b),
                 queue' = [queue EXCEPT ![b] = Append(@,
                    [NoRequest EXCEPT !.kind = Head(mem[s].todo), !.from = s, !.call = call[s]])],
                 Go(s, "wait"), UNCHANGED mem
          PROVE  TypeInv' /\ CallInv'
      <3>1. mem[s].todo # <<>> /\ call[s] \in CallIds
        BY <1>3 DEF Send, CallInv
      <3>2. Head(mem[s].todo) \in Kinds
        BY <1>1, <3>1
      <3>3. [NoRequest EXCEPT !.kind = Head(mem[s].todo), !.from = s, !.call = call[s]] \in Request
        <4>1. NoRequest \in Request
          BY DEF NoRequest, Request
        <4> QED BY <3>1, <3>2, <4>1 DEF Request, Kinds
      <3>4. queue' \in [Brokers -> Seq(Request)]
        BY <2>2, <3>3 DEF TypeInv, TypeOK
      <3>5. mem' = [mem EXCEPT ![s] = mem[s]]
        BY <1>1, <2>2
      <3> QED BY <1>1, <1>3, <2>2, <3>1, <3>4, <3>5, LocalType DEF Send, Go
    <2> QED BY <1>3, <2>1, <2>2 DEF Send
  <1>4. CASE GiveUp(s)
    <2>1. [mem[s] EXCEPT !.ok = FALSE] \in Mem
      BY <1>1 DEF Mem
    <2> QED BY <1>1, <1>4, <2>1, LocalType DEF GiveUp, Failed, Go, brokers, TypeInv, TypeOK, Mem
  <1>5. CASE Conclude(s)
    <2>1. call[s] \in CallIds
      BY <1>5 DEF Conclude, CallInv
    <2>2. Verified(s) \in BOOLEAN
      BY <1>1 DEF Verified, Mem
    <2>3. \A r \in reports' : r.op \in Ops \ {"submit"} /\ r.plan \in Plans /\ r.verified \in BOOLEAN
      BY <1>5, <2>1, <2>2 DEF Conclude, TypeInv, TypeOK, CallIds
    <2>4. TypeOK'
      BY <1>5, <2>3 DEF Conclude, Go, TypeInv, TypeOK, world, brokers
    <2> QED BY <1>5, <2>4 DEF Conclude, Go, TypeInv, TypeOK, CallInv
  <1>6. CASE Record(s)
    <2>1. call[s] \in CallIds /\ Verified(s) \in BOOLEAN
      BY <1>1, <1>6 DEF Record, CallInv, Verified, Mem
    <2>2. records' \subseteq [call : CallIds, ok : BOOLEAN]
      BY <1>6, <2>1 DEF Record, NewRecords, TypeInv, TypeOK
    <2>3. NoMem \in Mem
      BY DEF NoMem, Mem
    <2>4. TypeOK'
      BY <1>6, <2>2 DEF Record, Go, TypeInv, TypeOK, world, brokers
    <2> QED BY <1>6, <2>3, <2>4 DEF Record, Go, TypeInv, TypeOK, CallInv
  <1> QED BY <1>2, <1>3, <1>4, <1>5, <1>6 DEF Proceed

LEMMA DiesType ==
    ASSUME TypeInv, CallInv, NEW s \in Servers, ServerDies(s)
    PROVE  TypeInv' /\ CallInv'
  <1>1. used' \in [{"calls", "edits", "faults"} -> Nat] /\ used'.calls = used.calls
    BY BoundsAssumption DEF ServerDies, Use, TypeInv
  <1>2. NoMem \in Mem
    BY DEF NoMem, Mem
  <1>3. TypeOK'
    BY DEF ServerDies, Go, TypeInv, TypeOK, world, brokers
  <1> QED BY <1>1, <1>2, <1>3 DEF ServerDies, Go, TypeInv, TypeOK, CallInv

\* Brokers that come and go change only themselves and their socket.
LEMMA BrokersType ==
    ASSUME TypeInv, CallInv, NEW b \in Brokers,
           CheckPath(b) \/ Bind(b) \/ BindFails(b) \/ RemoveSocket(b)
    PROVE  TypeInv' /\ CallInv'
  <1>1. /\ UNCHANGED <<world, files, servers, current, queue>>
        /\ path' \in Brokers \cup {Nothing}
        /\ broker' \in [Brokers -> {"down", "binding", "up", "busy", "dead"}]
    <2>1. path \in Brokers \cup {Nothing} /\ broker \in [Brokers -> {"down", "binding", "up", "busy", "dead"}]
      BY DEF TypeInv, TypeOK
    <2> QED BY <2>1 DEF CheckPath, Bind, BindFails, RemoveSocket
  <1>2. used' \in [{"calls", "edits", "faults"} -> Nat] /\ used'.calls = used.calls
    <2>1. CASE UNCHANGED used
      BY <2>1 DEF TypeInv
    <2>2. CASE Use("faults", MaxFaults)
      BY <2>2, BoundsAssumption DEF Use, TypeInv
    <2> QED BY <2>1, <2>2 DEF CheckPath, Bind, BindFails, RemoveSocket
  <1> QED BY <1>1, <1>2 DEF TypeInv, TypeOK, CallInv, world, files, servers

\* A request moves, or makes progress.
LEMMA RequestType ==
    ASSUME TypeInv, CallInv, NEW b \in Brokers, Accept(b) \/ HashRemote(b) \/ CopyOne(b) \/ CopyFails(b) \/ Hang(b)
    PROVE  TypeInv' /\ CallInv'
  <1>1. current[b] \in Request /\ current \in [Brokers -> Request] /\ queue \in [Brokers -> Seq(Request)] /\ queue[b] \in Seq(Request)
    BY DEF TypeInv, TypeOK
  <1>2. current' \in [Brokers -> Request]
    <2>1. CASE Accept(b)
      <3>1. Head(queue[b]) \in Request
        BY <1>1, <2>1 DEF Accept
      <3>2. ToDo(Head(queue[b])) \in Seq({"input", "script", "out"})
        <4>1. /\ Inputs \in Seq({"input", "script", "out"})
              /\ Outputs \in Seq({"input", "script", "out"})
              /\ <<>> \in Seq({"input", "script", "out"})
          BY DEF Inputs, Outputs
        <4> QED BY <4>1 DEF ToDo
      <3>3. [Head(queue[b]) EXCEPT !.todo = ToDo(Head(queue[b]))] \in Request
        BY <3>1, <3>2 DEF Request
      <3> QED BY <1>1, <2>1, <3>3 DEF Accept
    <2>2. CASE HashRemote(b)
      <3>1. /\ Head(current[b].todo) \in {"input", "script", "out"}
            /\ Tail(current[b].todo) \in Seq({"input", "script", "out"})
        BY <1>1, <2>2 DEF HashRemote, Request
      <3>2. remote[Head(current[b].todo)] \in Content
        BY <3>1 DEF TypeInv, TypeOK, InputFiles
      <3>3. Append(current[b].found, remote[Head(current[b].todo)]) \in Seq(Content)
        BY <1>1, <3>2 DEF Request
      <3> QED BY <1>1, <2>2, <3>1, <3>3 DEF HashRemote, Request
    <2>3. CASE CopyOne(b)
      <3>1. Tail(current[b].todo) \in Seq({"input", "script", "out"})
        BY <1>1, <2>3 DEF CopyOne, Request
      <3> QED BY <1>1, <2>3, <3>1 DEF CopyOne, Request
    <2>4. CASE CopyFails(b)
      <3>1. Tail(current[b].todo) \in Seq({"input", "script", "out"})
        BY <1>1, <2>4 DEF CopyFails, Request
      <3> QED BY <1>1, <2>4, <3>1 DEF CopyFails, Request
    <2>5. CASE Hang(b)
      BY <1>1, <2>5 DEF Hang, brokers
    <2> QED BY <2>1, <2>2, <2>3, <2>4, <2>5
  <1>3. queue' \in [Brokers -> Seq(Request)]
    <2>1. CASE Accept(b)
      BY <1>1, <2>1 DEF Accept
    <2>2. CASE Hang(b)
      <3>1. [NoRequest EXCEPT !.kind = "hung"] \in Request
        <4>1. NoRequest \in Request
          BY DEF NoRequest, Request
        <4> QED BY <4>1 DEF Request
      <3>2. Append(queue[b], [NoRequest EXCEPT !.kind = "hung"]) \in Seq(Request)
        BY <1>1, <3>1
      <3> QED BY <1>1, <2>2, <3>2 DEF Hang
    <2>3. CASE UNCHANGED queue
      BY <1>1, <2>3
    <2> QED BY <2>1, <2>2, <2>3 DEF HashRemote, CopyOne, CopyFails
  <1>4. remote' \in [InputFiles \cup {"out"} -> Content]
    <2>1. remote \in [InputFiles \cup {"out"} -> Content] /\ local \in Content /\ Part \in Content
      BY DEF TypeInv, TypeOK, Content
    <2>2. CASE RemotePut(Head(current[b].todo), local) \/ RemotePut(Head(current[b].todo), Part)
      BY <2>1, <2>2 DEF RemotePut
    <2>3. CASE UNCHANGED remote
      BY <2>1, <2>3
    <2> QED BY <2>2, <2>3 DEF Accept, HashRemote, CopyOne, CopyFails, Hang, world
  <1>5. used' \in [{"calls", "edits", "faults"} -> Nat] /\ used'.calls = used.calls
    <2>1. CASE UNCHANGED used
      BY <2>1 DEF TypeInv
    <2>2. CASE Use("faults", MaxFaults)
      BY <2>2, BoundsAssumption DEF Use, TypeInv
    <2> QED BY <2>1, <2>2 DEF Accept, HashRemote, CopyOne, CopyFails, Hang
  <1>6. /\ UNCHANGED <<local, copy, jobs, files, servers, path>>
        /\ broker' \in [Brokers -> {"down", "binding", "up", "busy", "dead"}]
    BY DEF Accept, HashRemote, CopyOne, CopyFails, Hang, world, TypeInv, TypeOK
  <1> QED BY <1>2, <1>3, <1>4, <1>5, <1>6 DEF TypeInv, TypeOK, CallInv, files, servers

\* Does the server of the request still wait for it?
Waits(b) ==
    /\ current[b].from \in Servers /\ pc[current[b].from] = "wait"
    /\ call[current[b].from] = current[b].call
    /\ Head(mem[current[b].from].todo) = current[b].kind

\* What Answer does, server by server.
LEMMA AnswerSteps ==
    ASSUME TypeInv, NEW b \in Brokers, NEW ok \in BOOLEAN, NEW found, Answer(b, ok, found)
    PROVE  /\ broker' = [broker EXCEPT ![b] = "up"]
           /\ current' = [current EXCEPT ![b] = NoRequest]
           /\ UNCHANGED <<call, files, path, queue>>
           /\ Waits(b) =>
                /\ mem' = [mem EXCEPT ![current[b].from]
                                = Answered(mem[current[b].from], current[b], ok, found)]
                /\ pc' = [pc EXCEPT ![current[b].from] =
                        IF ok /\ Len(mem[current[b].from].todo) > 1 THEN "send" ELSE "conclude"]
           /\ ~Waits(b) => UNCHANGED <<mem, pc>>
  <1>1. /\ broker' = [broker EXCEPT ![b] = "up"]
        /\ current' = [current EXCEPT ![b] = NoRequest]
        /\ UNCHANGED <<call, files, path, queue>>
    BY DEF Answer
  <1>2. CASE Waits(b)
    <2>1. mem' = [mem EXCEPT ![current[b].from]
                                = Answered(mem[current[b].from], current[b], ok, found)]
      BY <1>2, Zenon DEF Answer, Waits
    <2>2. pc' = [pc EXCEPT ![current[b].from] =
                    IF ok /\ Len(mem[current[b].from].todo) > 1 THEN "send" ELSE "conclude"]
      BY <1>2, Zenon DEF Answer, Waits, Go
    <2> QED BY <1>1, <1>2, <2>1, <2>2
  <1>3. CASE ~Waits(b)
    <2>1. UNCHANGED <<mem, pc>>
      BY <1>3, Zenon DEF Answer, Waits
    <2> QED BY <1>1, <1>3, <2>1
  <1> QED BY <1>2, <1>3

\* A request that ends, whatever it did to the world.
LEMMA AnswerType ==
    ASSUME TypeInv, CallInv, NEW b \in Brokers, NEW ok \in BOOLEAN, NEW found \in Seq(Content),
           Answer(b, ok, found),
           UNCHANGED <<local, remote>>, copy' \in Content,
           jobs' \in Seq([call : CallIds, ran : [InputFiles -> Content]]),
           used' \in [{"calls", "edits", "faults"} -> Nat], used'.calls = used.calls
    PROVE  TypeInv' /\ CallInv'
  <1>1. /\ broker' = [broker EXCEPT ![b] = "up"]
        /\ current' = [current EXCEPT ![b] = NoRequest]
        /\ UNCHANGED <<call, files, path, queue>>
    BY AnswerSteps
  <1>2. NoRequest \in Request
    BY DEF NoRequest, Request
  <1>3. /\ mem' \in [Servers -> Mem]
        /\ pc' \in [Servers -> {"idle", "hash", "send", "wait", "conclude", "record"}]
        /\ CallInv'
    <2>1. CASE Waits(b)
      <3> DEFINE s == current[b].from
                 m == Answered(mem[s], current[b], ok, found)
                 at == IF ok /\ Len(mem[s].todo) > 1 THEN "send" ELSE "conclude"
      <3>1. /\ s \in Servers /\ pc[s] = "wait"
            /\ mem' = [mem EXCEPT ![s] = m]
            /\ pc' = [pc EXCEPT ![s] = at]
        BY <2>1, AnswerSteps DEF Waits
      <3>2. mem[s] \in Mem /\ call[s] \in CallIds /\ mem[s].todo \in Todos(call[s].op) /\ mem[s].todo # <<>>
        BY <3>1 DEF CallInv, TypeInv
      <3>3. call[s].op \in Ops
        BY <3>2 DEF CallIds
      <3>4. /\ Tail(mem[s].todo) \in Todos(call[s].op)
            /\ Tail(mem[s].todo) \in Seq(Kinds)
            /\ Len(mem[s].todo) > 1 => Tail(mem[s].todo) # <<>>
        BY <3>2, <3>3, TodosStep
      <3>5. m \in Mem /\ m.todo = Tail(mem[s].todo)
        BY <3>2, <3>4 DEF Answered, Mem
      <3>6. mem' \in [Servers -> Mem]
        BY <3>1, <3>5 DEF TypeInv
      <3>7. pc' \in [Servers -> {"idle", "hash", "send", "wait", "conclude", "record"}]
        BY <3>1 DEF TypeInv, TypeOK
      <3> HIDE DEF s, m, at
      <3>8. at = "conclude" \/ (at = "send" /\ Tail(mem[s].todo) # <<>>)
        BY <3>4 DEF at
      <3>9. CallInv'
        BY <1>1, <3>1, <3>2, <3>4, <3>5, <3>8 DEF CallInv, TypeInv, TypeOK
      <3> QED BY <3>6, <3>7, <3>9
    <2>2. CASE ~Waits(b)
      <3>1. UNCHANGED <<mem, pc, call>>
        BY <1>1, <2>2, AnswerSteps
      <3>2. CallInv'
        BY <3>1 DEF CallInv
      <3> QED BY <3>1, <3>2 DEF TypeInv, TypeOK
    <2> QED BY <2>1, <2>2
  <1>4. \A s \in Servers : pc'[s] \in {"send", "wait"} => mem'[s].todo # <<>>
    BY <1>3 DEF CallInv
  <1> QED BY <1>1, <1>2, <1>3, <1>4 DEF TypeInv, TypeOK, files

\* What a broker does for a request keeps the types and the calls.
LEMMA ServeType ==
    ASSUME TypeInv, CallInv, NEW b \in Brokers, CallOf(current[b]),
           \/ Uploaded(b) \/ List(b) \/ RemoteManifest(b) \/ Fetch(b) \/ RefuseSubmit(b)
           \/ RequestFails(b) \/ Launch(b) \/ LaunchUnanswered(b)
    PROVE  TypeInv' /\ CallInv'
  <1>1. /\ current[b] \in Request /\ local \in Plans /\ copy \in Content
        /\ remote \in [InputFiles \cup {"out"} -> Content]
        /\ jobs \in Seq([call : CallIds, ran : [InputFiles -> Content]])
        /\ used \in [{"calls", "edits", "faults"} -> Nat]
    BY DEF TypeInv, TypeOK
  <1>2. current[b].ok \in BOOLEAN /\ current[b].found \in Seq(Content) /\ <<>> \in Seq(Content)
        /\ remote["out"] \in Content /\ <<remote["out"]>> \in Seq(Content) /\ Part \in Content
    <2>1. remote["out"] \in Content
      BY <1>1
    <2>2. <<remote["out"]>> \in Seq(Content)
      BY <2>1
    <2> QED BY <1>1, <2>1, <2>2 DEF Request, Content
  <1>3. ASSUME Use("faults", MaxFaults)
        PROVE  used' \in [{"calls", "edits", "faults"} -> Nat] /\ used'.calls = used.calls
    BY <1>1, <1>3, BoundsAssumption DEF Use
  <1>4. ASSUME Started(b), current[b].kind = "submit"
        PROVE  jobs' \in Seq([call : CallIds, ran : [InputFiles -> Content]])
    <2>1. current[b].call \in CallIds
      BY <1>4 DEF CallOf, Kinds
    <2>2. [f \in InputFiles |-> remote[f]] \in [InputFiles -> Content]
      BY <1>1
    <2>3. [call |-> current[b].call, ran |-> [f \in InputFiles |-> remote[f]]]
            \in [call : CallIds, ran : [InputFiles -> Content]]
      BY <2>1, <2>2
    <2> QED BY <1>1, <1>4, <2>3 DEF Started
  <1>5. CASE Uploaded(b)
    BY <1>1, <1>2, <1>5, AnswerType DEF Uploaded, world
  <1>6. CASE List(b)
    <2>1. (remote["out"] # Nothing) \in BOOLEAN
      OBVIOUS
    <2> QED BY <1>1, <1>2, <1>6, <2>1, AnswerType DEF List, world
  <1>7. CASE RemoteManifest(b)
    BY <1>1, <1>2, <1>7, AnswerType DEF RemoteManifest, world
  <1>8. CASE Fetch(b)
    BY <1>1, <1>2, <1>8, AnswerType DEF Fetch
  <1>9. CASE RefuseSubmit(b)
    BY <1>1, <1>2, <1>9, AnswerType DEF RefuseSubmit, world
  <1>10. CASE RequestFails(b)
    <2>1. copy' \in Content
      BY <1>1, <1>2, <1>10 DEF RequestFails
    <2> QED BY <1>1, <1>2, <1>3, <1>10, <2>1, AnswerType DEF RequestFails
  <1>11. CASE Launch(b)
    <2>1. jobs' \in Seq([call : CallIds, ran : [InputFiles -> Content]])
      BY <1>4, <1>11 DEF Launch, Serving
    <2> QED BY <1>1, <1>2, <1>11, <2>1, AnswerType DEF Launch
  <1>12. CASE LaunchUnanswered(b)
    <2>1. jobs' \in Seq([call : CallIds, ran : [InputFiles -> Content]])
      BY <1>4, <1>12 DEF LaunchUnanswered, Serving
    <2> QED BY <1>1, <1>2, <1>3, <1>12, <2>1, AnswerType DEF LaunchUnanswered
  <1> QED BY <1>5, <1>6, <1>7, <1>8, <1>9, <1>10, <1>11, <1>12

LEMMA BrokerDiesType ==
    ASSUME TypeInv, CallInv, NEW b \in Brokers, BrokerDies(b)
    PROVE  TypeInv' /\ CallInv'
  <1>1. PICK waiting \in SUBSET Servers :
            /\ \A s \in waiting : pc[s] = "wait"
            /\ pc' = [s \in Servers |-> IF s \in waiting THEN "conclude" ELSE pc[s]]
            /\ mem' = [s \in Servers |-> IF s \in waiting THEN [mem[s] EXCEPT !.ok = FALSE] ELSE mem[s]]
    BY DEF BrokerDies
  <1>2. used' \in [{"calls", "edits", "faults"} -> Nat] /\ used'.calls = used.calls
    BY BoundsAssumption DEF BrokerDies, Use, TypeInv
  <1>3. \A s \in Servers : [mem[s] EXCEPT !.ok = FALSE] \in Mem /\ [mem[s] EXCEPT !.ok = FALSE].todo = mem[s].todo
    BY DEF TypeInv, Mem
  <1>4. mem' \in [Servers -> Mem]
    BY <1>1, <1>3 DEF TypeInv
  <1>5. CallInv'
    BY <1>1, <1>3 DEF BrokerDies, TypeInv, TypeOK, CallInv
  <1>6. NoRequest \in Request /\ <<>> \in Seq(Request)
    BY DEF NoRequest, Request
  <1>7. TypeOK'
    <2>1. \A s \in Servers : pc'[s] \in {"send", "wait"} => mem'[s].todo # <<>>
      BY <1>5 DEF CallInv
    <2>2. pc' \in [Servers -> {"idle", "hash", "send", "wait", "conclude", "record"}]
      BY <1>1 DEF TypeInv, TypeOK
    <2> QED BY <1>6, <2>1, <2>2 DEF BrokerDies, TypeInv, TypeOK, world, files
  <1> QED BY <1>2, <1>4, <1>5, <1>7 DEF TypeInv

-----------------------------------------------------------------------------
(* Requests.                                                               *)

\* A request belongs to the call it was sent for.
LEMMA NextRequest ==
    ASSUME TypeInv, CallInv, RequestInv, [Next]_vars
    PROVE  RequestInv'
  <1>1. CallOf(NoRequest) /\ CallOf([NoRequest EXCEPT !.kind = "hung"])
    BY DEF CallOf, NoRequest, Kinds
  <1>2. /\ current \in [Brokers -> Request] /\ queue \in [Brokers -> Seq(Request)]
        /\ \A b \in Brokers : current[b] \in Request /\ queue[b] \in Seq(Request)
    BY DEF TypeInv, TypeOK
  <1>3. CASE UNCHANGED <<current, queue>>
    BY <1>3 DEF RequestInv
  <1>4. ASSUME NEW s \in Servers, Send(s), NEW b \in Brokers,
               queue' = [queue EXCEPT ![b] = Append(@,
                    [NoRequest EXCEPT !.kind = Head(mem[s].todo), !.from = s, !.call = call[s]])]
        PROVE  RequestInv'
    <2> DEFINE r == [NoRequest EXCEPT !.kind = Head(mem[s].todo), !.from = s, !.call = call[s]]
    <2>1. call[s] \in CallIds /\ mem[s].todo \in Todos(call[s].op) /\ mem[s].todo # <<>>
      BY <1>4 DEF Send, CallInv
    <2>2. call[s].op \in Ops
      BY <2>1 DEF CallIds
    <2>3. Head(mem[s].todo) \in KindOf(call[s].op) /\ Head(mem[s].todo) \in Kinds
      BY <2>1, <2>2, TodosStep
    <2>4. CallOf(r) /\ r.found = <<>>
      BY <2>1, <2>3 DEF CallOf, NoRequest
    <2> HIDE DEF r
    <2>5. \A i \in DOMAIN queue'[b] : (i \in DOMAIN queue[b] /\ queue'[b][i] = queue[b][i]) \/ queue'[b][i] = r
      BY <1>2, <1>4, <2>4 DEF r
    <2>6. \A c \in Brokers : c # b => queue'[c] = queue[c]
      BY <1>2, <1>4
    <2>7. UNCHANGED current
      BY <1>4 DEF Send
    <2> QED BY <2>4, <2>5, <2>6, <2>7 DEF RequestInv
  <1>5. ASSUME NEW b \in Brokers, Hang(b)
        PROVE  RequestInv'
    <2> DEFINE r == [NoRequest EXCEPT !.kind = "hung"]
    <2> HIDE DEF r
    <2>1. queue' = [queue EXCEPT ![b] = Append(@, r)] /\ UNCHANGED current
      BY <1>5 DEF Hang, r
    <2>2. CallOf(r) /\ r.found = <<>>
      BY <1>1 DEF r, NoRequest
    <2>3. \A i \in DOMAIN queue'[b] : (i \in DOMAIN queue[b] /\ queue'[b][i] = queue[b][i]) \/ queue'[b][i] = r
      BY <1>2, <2>1
    <2>4. \A c \in Brokers : c # b => queue'[c] = queue[c]
      BY <1>2, <2>1
    <2> QED BY <2>1, <2>2, <2>3, <2>4 DEF RequestInv
  <1>6. ASSUME NEW b \in Brokers, Accept(b)
        PROVE  RequestInv'
    <2>1. /\ queue[b] # <<>> /\ queue' = [queue EXCEPT ![b] = Tail(@)]
          /\ current' = [current EXCEPT ![b] = [Head(queue[b]) EXCEPT !.todo = ToDo(Head(queue[b]))]]
      BY <1>6 DEF Accept
    <2>2. 1 \in DOMAIN queue[b] /\ Head(queue[b]) = queue[b][1] /\ Head(queue[b]) \in Request
      BY <1>2, <2>1
    <2>3. current'[b].kind = Head(queue[b]).kind /\ current'[b].call = Head(queue[b]).call
      BY <1>2, <2>1, <2>2 DEF Request
    <2>4. CallOf(current'[b])
      BY <2>2, <2>3 DEF RequestInv, CallOf
    <2>5. \A i \in DOMAIN queue'[b] : i + 1 \in DOMAIN queue[b] /\ queue'[b][i] = queue[b][i + 1]
      BY <1>2, <2>1
    <2>6. \A c \in Brokers : c # b => queue'[c] = queue[c] /\ current'[c] = current[c]
      BY <1>2, <2>1
    <2> QED BY <2>4, <2>5, <2>6 DEF RequestInv
  <1>7. ASSUME NEW b \in Brokers, HashRemote(b) \/ CopyOne(b) \/ CopyFails(b)
        PROVE  RequestInv'
    <2>1. UNCHANGED queue /\ \A c \in Brokers : c # b => current'[c] = current[c]
      BY <1>2, <1>7 DEF HashRemote, CopyOne, CopyFails
    <2>2. current'[b].kind = current[b].kind /\ current'[b].call = current[b].call
      BY <1>2, <1>7 DEF HashRemote, CopyOne, CopyFails, Request
    <2>3. CallOf(current'[b])
      BY <2>2 DEF RequestInv, CallOf
    <2> QED BY <2>1, <2>3 DEF RequestInv
  <1>8. ASSUME NEW b \in Brokers, current' = [current EXCEPT ![b] = NoRequest],
               UNCHANGED queue \/ queue' = [queue EXCEPT ![b] = <<>>]
        PROVE  RequestInv'
    BY <1>1, <1>2, <1>8 DEF RequestInv
  <1>9. ASSUME NEW b \in Brokers,
               \/ Uploaded(b) \/ List(b) \/ RemoteManifest(b) \/ Fetch(b) \/ RefuseSubmit(b)
               \/ RequestFails(b) \/ Launch(b) \/ LaunchUnanswered(b) \/ BrokerDies(b)
        PROVE  RequestInv'
    BY <1>8, <1>9 DEF Uploaded, List, RemoteManifest, Fetch, RefuseSubmit, RequestFails, Launch,
                      LaunchUnanswered, BrokerDies, Answer
  <1>10. ASSUME NEW s \in Servers, BeginCall(s) \/ Proceed(s) \/ ServerDies(s)
         PROVE  RequestInv'
    BY <1>3, <1>4, <1>10 DEF BeginCall, Proceed, HashLocal, Send, GiveUp, Conclude, Record, ServerDies, brokers
  <1>11. CASE Edit \/ JobWrites \/ UNCHANGED vars
    BY <1>3, <1>11 DEF Edit, JobWrites, vars, brokers
  <1>12. ASSUME NEW b \in Brokers, CheckPath(b) \/ Bind(b) \/ BindFails(b) \/ RemoveSocket(b)
         PROVE  RequestInv'
    BY <1>3, <1>12 DEF CheckPath, Bind, BindFails, RemoveSocket
  <1> QED BY <1>5, <1>6, <1>7, <1>9, <1>10, <1>11, <1>12 DEF Next, Serve, BrokerFaults

\* No step takes a variable out of its type.
LEMMA NextType ==
    ASSUME TypeInv, CallInv, RequestInv, [Next]_vars
    PROVE  TypeInv' /\ CallInv'
  <1>1. CASE Edit \/ JobWrites
    BY <1>1, WorldType
  <1>2. ASSUME NEW s \in Servers, BeginCall(s) \/ Proceed(s) \/ ServerDies(s)
        PROVE  TypeInv' /\ CallInv'
    BY <1>2, BeginType, ProceedType, DiesType
  <1>3. ASSUME NEW b \in Brokers,
               CheckPath(b) \/ Bind(b) \/ BindFails(b) \/ RemoveSocket(b) \/ Serve(b) \/ BrokerFaults(b)
        PROVE  TypeInv' /\ CallInv'
    <2>1. CallOf(current[b])
      BY DEF RequestInv
    <2> QED BY <1>3, <2>1, BrokersType, RequestType, ServeType, BrokerDiesType DEF Serve, BrokerFaults
  <1>4. CASE UNCHANGED vars
    BY <1>4 DEF vars, world, files, servers, brokers, TypeInv, TypeOK, CallInv
  <1> QED BY <1>1, <1>2, <1>3, <1>4 DEF Next

-----------------------------------------------------------------------------
(* One job for one submit.                                                 *)

\* Where a submit for the call c can be: in a queue, with a broker, or done.
Queued(b, i, c) == i \in DOMAIN queue[b] /\ queue[b][i].kind = "submit" /\ queue[b][i].call = c
Served(b, c) == current[b].kind = "submit" /\ current[b].call = c
JobOf(i, c) == i \in DOMAIN jobs /\ jobs[i].call = c

\* It has yet to be sent.
Unsent(s, c) == pc[s] = "send" /\ call[s] = c /\ c.op = "submit"

\* It is in one of these places ...
Asked(c) ==
    \/ \E b \in Brokers, i \in Nat : Queued(b, i, c)
    \/ \E b \in Brokers : Served(b, c)
    \/ \E i \in Nat : JobOf(i, c)

\* ... once.
OnceFor(c) ==
    /\ \A b, d \in Brokers, i, j \in Nat : Queued(b, i, c) /\ Queued(d, j, c) => b = d /\ i = j
    /\ \A b, d \in Brokers : Served(b, c) /\ Served(d, c) => b = d
    /\ \A i, j \in Nat : JobOf(i, c) /\ JobOf(j, c) => i = j
    /\ \A b, d \in Brokers, i \in Nat : ~(Queued(b, i, c) /\ Served(d, c))
    /\ \A b \in Brokers, i, j \in Nat : ~(Queued(b, i, c) /\ JobOf(j, c))
    /\ \A b \in Brokers, i \in Nat : ~(Served(b, c) /\ JobOf(i, c))
    /\ (\E s \in Servers : Unsent(s, c)) => ~Asked(c)

OnceInv == \A c \in CallIds : OnceFor(c)

\* No call has been given the next id.
FreshInv ==
    /\ \A s \in Servers : pc[s] # "idle" => call[s].id <= used.calls
    /\ \A s, t \in Servers : pc[s] # "idle" /\ pc[t] # "idle" /\ call[s] = call[t] => s = t
    /\ \A c \in CallIds : Asked(c) => c.id <= used.calls

\* Of a call that has asked for a submit its server still knows, or there is
\* a record, or the server died.
Known(c) == c \in deserted \/ (\E r \in records : r.call = c) \/ \E s \in Servers : call[s] = c

KnownInv ==
    \A c \in CallIds : Asked(c) => Known(c)

\* A submit that counts as done has started its job.
OkInv ==
    /\ \A s \in Servers : call[s].op = "submit" /\ mem[s].ok => \E i \in Nat : JobOf(i, call[s])
    /\ \A r \in records : r.call.op = "submit" /\ r.ok => \E i \in Nat : JobOf(i, r.call)

Base == TypeInv /\ CallInv /\ RequestInv
JobsInv == OnceInv /\ FreshInv /\ KnownInv /\ OkInv

\* Nothing new is asked for.
LEMMA OnceKept ==
    ASSUME NEW c \in CallIds, OnceFor(c),
           \A b \in Brokers, i \in Nat : Queued(b, i, c)' => Queued(b, i, c),
           \A b \in Brokers : Served(b, c)' => Served(b, c),
           \A i \in Nat : JobOf(i, c)' => JobOf(i, c),
           \A s \in Servers : Unsent(s, c)' => Unsent(s, c)
    PROVE  OnceFor(c)'
  BY DEF OnceFor, Asked

\* What a sent request adds.
LEMMA SendPlaces ==
    ASSUME Base, NEW s \in Servers, NEW b \in Brokers, pc[s] = "send",
           queue' = [queue EXCEPT ![b] = Append(@,
                    [NoRequest EXCEPT !.kind = Head(mem[s].todo), !.from = s, !.call = call[s]])],
           NEW c \in CallIds, NEW d \in Brokers, NEW i \in Nat, Queued(d, i, c)'
    PROVE  Queued(d, i, c) \/ (d = b /\ i = Len(queue[b]) + 1 /\ Unsent(s, c))
  <1> DEFINE r == [NoRequest EXCEPT !.kind = Head(mem[s].todo), !.from = s, !.call = call[s]]
  <1>1. queue \in [Brokers -> Seq(Request)] /\ queue[b] \in Seq(Request)
    BY DEF Base, TypeInv, TypeOK
  <1>2. r.kind = Head(mem[s].todo) /\ r.call = call[s]
    BY DEF NoRequest
  <1>3. call[s] \in CallIds /\ mem[s].todo \in Todos(call[s].op) /\ mem[s].todo # <<>>
    BY DEF Base, CallInv
  <1>4. Head(mem[s].todo) \in KindOf(call[s].op) /\ call[s].op \in Ops
    BY <1>3, TodosStep DEF CallIds
  <1>5. r.kind = "submit" => call[s].op = "submit"
    BY <1>2, <1>4 DEF KindOf, Ops
  <1> HIDE DEF r
  <1>6. queue' = [queue EXCEPT ![b] = Append(@, r)]
    BY DEF r
  <1>7. CASE d # b
    BY <1>1, <1>6, <1>7 DEF Queued
  <1>8. CASE d = b
    <2>1. \/ i \in DOMAIN queue[b] /\ queue'[b][i] = queue[b][i]
          \/ i = Len(queue[b]) + 1 /\ queue'[b][i] = r
      BY <1>1, <1>6, <1>8 DEF Queued
    <2> QED BY <1>2, <1>5, <1>8, <2>1 DEF Queued, Unsent
  <1> QED BY <1>7, <1>8

\* A request that is accepted leaves the queue.
LEMMA AcceptPlaces ==
    ASSUME Base, NEW b \in Brokers, Accept(b), NEW c \in CallIds
    PROVE  /\ \A d \in Brokers, i \in Nat : Queued(d, i, c)' =>
                    IF d = b THEN i # 0 /\ Queued(b, i + 1, c) ELSE Queued(d, i, c)
           /\ \A d \in Brokers : Served(d, c)' => IF d = b THEN Queued(b, 1, c) ELSE Served(d, c)
  <1>1. /\ queue \in [Brokers -> Seq(Request)] /\ queue[b] \in Seq(Request)
        /\ current \in [Brokers -> Request]
    BY DEF Base, TypeInv, TypeOK
  <1>2. /\ queue[b] # <<>> /\ queue' = [queue EXCEPT ![b] = Tail(@)]
        /\ current' = [current EXCEPT ![b] = [Head(queue[b]) EXCEPT !.todo = ToDo(Head(queue[b]))]]
    BY DEF Accept
  <1>3. 1 \in DOMAIN queue[b] /\ Head(queue[b]) = queue[b][1] /\ Head(queue[b]) \in Request
    BY <1>1, <1>2
  <1>4. current'[b].kind = Head(queue[b]).kind /\ current'[b].call = Head(queue[b]).call
    BY <1>1, <1>2, <1>3 DEF Request
  <1>5. \A i \in DOMAIN queue'[b] : i # 0 /\ i + 1 \in DOMAIN queue[b] /\ queue'[b][i] = queue[b][i + 1]
    BY <1>1, <1>2
  <1>6. \A d \in Brokers : d # b => queue'[d] = queue[d] /\ current'[d] = current[d]
    BY <1>1, <1>2
  <1> QED BY <1>3, <1>4, <1>5, <1>6 DEF Queued, Served

\* The job of the request that is served.
LEMMA LaunchPlaces ==
    ASSUME Base, NEW b \in Brokers, Started(b), Serving(b, "submit"), NEW c \in CallIds
    PROVE  /\ \A i \in Nat : JobOf(i, c)' => JobOf(i, c) \/ (i = Len(jobs) + 1 /\ Served(b, c))
           /\ \A i \in Nat : JobOf(i, c) => JobOf(i, c)'
           /\ Len(jobs) + 1 \in Nat
           /\ Served(b, c) => \E i \in Nat : JobOf(i, c)'
  <1> DEFINE job == [call |-> current[b].call, ran |-> [f \in InputFiles |-> remote[f]]]
  <1>1. jobs \in Seq([call : CallIds, ran : [InputFiles -> Content]])
    BY DEF Base, TypeInv, TypeOK
  <1>2. job \in [call : CallIds, ran : [InputFiles -> Content]]
    <2>1. current[b].call \in CallIds
      BY DEF Base, RequestInv, CallOf, Serving, Kinds
    <2>2. [f \in InputFiles |-> remote[f]] \in [InputFiles -> Content]
      BY DEF Base, TypeInv, TypeOK
    <2> QED BY <2>1, <2>2
  <1>3. jobs' = Append(jobs, job) /\ job.call = current[b].call
    BY DEF Started
  <1> HIDE DEF job
  <1>4. /\ Len(jobs) \in Nat /\ DOMAIN jobs = 1..Len(jobs) /\ DOMAIN jobs' = 1..Len(jobs) + 1
        /\ \A i \in DOMAIN jobs : jobs'[i] = jobs[i]
        /\ jobs'[Len(jobs) + 1] = job
    BY <1>1, <1>2, <1>3, AppendProperties, LenProperties
  <1>5. ASSUME NEW i \in Nat PROVE JobOf(i, c) => JobOf(i, c)'
    BY <1>4 DEF JobOf
  <1>6. ASSUME NEW i \in Nat, JobOf(i, c)' PROVE JobOf(i, c) \/ (i = Len(jobs) + 1 /\ Served(b, c))
    <2>1. i \in 1..Len(jobs) + 1 /\ jobs'[i].call = c
      BY <1>4, <1>6 DEF JobOf
    <2> QED BY <1>3, <1>4, <2>1 DEF JobOf, Served, Serving
  <1>7. ASSUME Served(b, c) PROVE \E i \in Nat : JobOf(i, c)'
    <2>1. PICK i \in Nat : i = Len(jobs) + 1
      BY <1>4
    <2>2. JobOf(i, c)'
      BY <1>3, <1>4, <1>7, <2>1 DEF JobOf, Served
    <2> QED BY <2>2
  <1> QED BY <1>4, <1>5, <1>6, <1>7

\* What the end of a request leaves in the queues, with the brokers, and at
\* the servers.
LEMMA EndPlaces ==
    ASSUME Base, NEW b \in Brokers, NEW ok \in BOOLEAN, NEW found \in Seq(Content), Answer(b, ok, found),
           NEW c \in CallIds
    PROVE  /\ \A d \in Brokers, i \in Nat : Queued(d, i, c)' <=> Queued(d, i, c)
           /\ \A d \in Brokers : Served(d, c)' <=> d # b /\ Served(d, c)
           /\ \A s \in Servers : Unsent(s, c)' => Unsent(s, c)
  <1>1. /\ current' = [current EXCEPT ![b] = NoRequest] /\ UNCHANGED <<call, queue>>
        /\ current \in [Brokers -> Request] /\ pc \in [Servers -> {"idle", "hash", "send", "wait", "conclude", "record"}]
    BY AnswerSteps DEF Base, TypeInv, TypeOK
  <1>2. ASSUME NEW s \in Servers, Unsent(s, c)' PROVE Unsent(s, c)
    <2>1. pc'[s] = "send" /\ call[s] = c /\ c.op = "submit"
      BY <1>1, <1>2 DEF Unsent
    <2>2. CASE Waits(b) /\ s = current[b].from
      <3>1. /\ mem[s].todo \in Todos(c.op) /\ pc[s] = "wait"
            /\ pc'[s] = IF ok /\ Len(mem[s].todo) > 1 THEN "send" ELSE "conclude"
        BY <1>1, <2>1, <2>2, AnswerSteps DEF Base, CallInv, Waits
      <3>3. ~(Len(mem[s].todo) > 1)
        BY <2>1, <3>1, TodosStep DEF Ops
      <3> QED BY <2>1, <3>1, <3>3
    <2>3. CASE ~(Waits(b) /\ s = current[b].from)
      <3>1. pc'[s] = pc[s]
        BY <1>1, <2>3, AnswerSteps DEF Base
      <3> QED BY <2>1, <3>1 DEF Unsent
    <2> QED BY <2>2, <2>3
  <1>3. NoRequest.kind # "submit"
    BY DEF NoRequest
  <1>4. \A d \in Brokers : Served(d, c)' <=> d # b /\ Served(d, c)
    BY <1>1, <1>3 DEF Served
  <1> QED BY <1>1, <1>2, <1>4 DEF Queued

\* A broker that dies leaves nothing; its servers give up.
LEMMA DeadPlaces ==
    ASSUME Base, NEW b \in Brokers, BrokerDies(b), NEW c \in CallIds
    PROVE  /\ \A d \in Brokers, i \in Nat : Queued(d, i, c)' => Queued(d, i, c)
           /\ \A d \in Brokers : Served(d, c)' => Served(d, c)
           /\ \A s \in Servers : pc'[s] # pc[s] => pc[s] = "wait" /\ pc'[s] = "conclude"
           /\ \A s \in Servers : mem'[s].ok => mem[s].ok
           /\ UNCHANGED <<call, jobs, records, deserted>> /\ used'.calls = used.calls
  <1>1. /\ current' = [current EXCEPT ![b] = NoRequest]
        /\ queue' = [queue EXCEPT ![b] = <<>>]
        /\ UNCHANGED <<call, jobs, records, deserted>>
        /\ queue \in [Brokers -> Seq(Request)] /\ current \in [Brokers -> Request] /\ mem \in [Servers -> Mem]
        /\ pc \in [Servers -> {"idle", "hash", "send", "wait", "conclude", "record"}]
    BY DEF BrokerDies, world, files, Base, TypeInv, TypeOK
  <1>2. NoRequest.kind # "submit" /\ DOMAIN <<>> = {}
    BY DEF NoRequest
  <1>3. PICK waiting \in SUBSET Servers :
            /\ \A s \in waiting : pc[s] = "wait"
            /\ pc' = [s \in Servers |-> IF s \in waiting THEN "conclude" ELSE pc[s]]
            /\ mem' = [s \in Servers |-> IF s \in waiting THEN [mem[s] EXCEPT !.ok = FALSE] ELSE mem[s]]
    BY DEF BrokerDies
  <1>4. \A s \in Servers : ~[mem[s] EXCEPT !.ok = FALSE].ok
    BY <1>1 DEF Mem
  <1>5. used'.calls = used.calls
    BY DEF BrokerDies, Use, Base, TypeInv
  <1>6. \A d \in Brokers, i \in Nat : Queued(d, i, c)' => Queued(d, i, c)
    BY <1>1, <1>2 DEF Queued
  <1>7. \A d \in Brokers : Served(d, c)' => Served(d, c)
    BY <1>1, <1>2 DEF Served
  <1> QED BY <1>1, <1>3, <1>4, <1>5, <1>6, <1>7

\* Every other request that ends leaves the jobs alone.
LEMMA ServedAnswers ==
    ASSUME Base, NEW b \in Brokers,
           Uploaded(b) \/ List(b) \/ RemoteManifest(b) \/ Fetch(b) \/ RefuseSubmit(b) \/ RequestFails(b)
    PROVE  /\ \E ok \in BOOLEAN, found \in Seq(Content) :
                 /\ Answer(b, ok, found)
                 /\ ok => current[b].kind # "submit"
           /\ UNCHANGED <<jobs, records, deserted>> /\ used'.calls = used.calls
  <1>1. /\ current[b].ok \in BOOLEAN /\ current[b].found \in Seq(Content) /\ <<>> \in Seq(Content)
        /\ remote["out"] \in Content /\ used \in [{"calls", "edits", "faults"} -> Nat]
    BY DEF Base, TypeInv, TypeOK, Request
  <1>2. <<remote["out"]>> \in Seq(Content) /\ (remote["out"] # Nothing) \in BOOLEAN
    BY <1>1
  <1>3. UNCHANGED <<jobs, records, deserted>> /\ used'.calls = used.calls
    BY <1>1 DEF Uploaded, List, RemoteManifest, Fetch, RefuseSubmit, RequestFails, Answer, Use, world, files
  <1>4. CASE Uploaded(b)
    BY <1>1, <1>3, <1>4 DEF Uploaded, Serving
  <1>5. CASE List(b)
    BY <1>1, <1>2, <1>3, <1>5 DEF List, Serving
  <1>6. CASE RemoteManifest(b)
    BY <1>1, <1>3, <1>6 DEF RemoteManifest, Serving
  <1>7. CASE Fetch(b)
    BY <1>2, <1>3, <1>7 DEF Fetch, Serving
  <1>8. CASE RefuseSubmit(b) \/ RequestFails(b)
    BY <1>1, <1>3, <1>8 DEF RefuseSubmit, RequestFails
  <1> QED BY <1>4, <1>5, <1>6, <1>7, <1>8

\* A request that makes progress stays the same.
LEMMA ProgressKeeps ==
    ASSUME Base, NEW b \in Brokers, CopyOne(b) \/ CopyFails(b) \/ HashRemote(b), NEW d \in Brokers
    PROVE  current'[d].kind = current[d].kind /\ current'[d].call = current[d].call
  <1>1. current \in [Brokers -> Request] /\ current[b] \in Request
    BY DEF Base, TypeInv, TypeOK
  <1>2. CASE d = b
    BY <1>1, <1>2 DEF CopyOne, CopyFails, HashRemote, Request
  <1>3. CASE d # b
    <2>1. current'[d] = current[d]
      BY <1>1, <1>3 DEF CopyOne, CopyFails, HashRemote
    <2> QED BY <2>1
  <1> QED BY <1>2, <1>3

\* A line that never comes is no submit.
LEMMA HangPlaces ==
    ASSUME Base, NEW b \in Brokers, Hang(b), NEW c \in CallIds, NEW d \in Brokers, NEW i \in Nat,
           Queued(d, i, c)'
    PROVE  Queued(d, i, c)
  <1> DEFINE r == [NoRequest EXCEPT !.kind = "hung"]
  <1>1. r.kind # "submit"
    BY DEF NoRequest
  <1> HIDE DEF r
  <1>2. queue' = [queue EXCEPT ![b] = Append(@, r)] /\ queue \in [Brokers -> Seq(Request)]
    BY DEF Hang, r, Base, TypeInv, TypeOK
  <1>3. \A j \in DOMAIN queue'[b] : (j \in DOMAIN queue[b] /\ queue'[b][j] = queue[b][j]) \/ queue'[b][j] = r
    BY <1>2
  <1>4. d # b => queue'[d] = queue[d]
    BY <1>2
  <1> QED BY <1>1, <1>3, <1>4 DEF Queued

\* A job is started for the one request there is.
LEMMA LaunchOnce ==
    ASSUME Base, NEW b \in Brokers, Launch(b) \/ LaunchUnanswered(b), NEW c \in CallIds, OnceFor(c)
    PROVE  OnceFor(c)'
  <1>1. Started(b) /\ Serving(b, "submit") /\ \E ok \in BOOLEAN : Answer(b, ok, <<>>)
    BY DEF Launch, LaunchUnanswered
  <1>2. <<>> \in Seq(Content)
    OBVIOUS
  <1>3. /\ \A d \in Brokers, i \in Nat : Queued(d, i, c)' <=> Queued(d, i, c)
        /\ \A d \in Brokers : Served(d, c)' <=> d # b /\ Served(d, c)
        /\ \A s \in Servers : Unsent(s, c)' => Unsent(s, c)
    BY <1>1, <1>2, EndPlaces
  <1>4. \A i \in Nat : JobOf(i, c)' => JobOf(i, c) \/ (i = Len(jobs) + 1 /\ Served(b, c))
    BY <1>1, LaunchPlaces
  <1>5. CASE Served(b, c)
    <2>1. \A i \in Nat : ~JobOf(i, c)
      BY <1>5 DEF OnceFor
    <2>2. \A i \in Nat : JobOf(i, c)' => i = Len(jobs) + 1
      BY <1>4, <2>1
    <2>3. \A d \in Brokers, i \in Nat : ~Queued(d, i, c)'
      BY <1>3, <1>5 DEF OnceFor
    <2>4. \A d \in Brokers : ~Served(d, c)'
      BY <1>3, <1>5 DEF OnceFor
    <2>5. \A s \in Servers : ~Unsent(s, c)'
      BY <1>3, <1>5 DEF OnceFor, Asked
    <2> QED BY <2>2, <2>3, <2>4, <2>5 DEF OnceFor, Asked
  <1>6. CASE ~Served(b, c)
    BY <1>3, <1>4, <1>6, OnceKept
  <1> QED BY <1>5, <1>6

\* No step asks for a job twice.
LEMMA NextOnce ==
    ASSUME Base, OnceInv, FreshInv, [Next]_vars
    PROVE  OnceInv'
  <1> SUFFICES ASSUME NEW c \in CallIds, OnceFor(c) PROVE OnceFor(c)'
    BY DEF OnceInv
  <1>t. /\ pc \in [Servers -> {"idle", "hash", "send", "wait", "conclude", "record"}]
        /\ call \in [Servers -> CallIds \cup {NoCall}]
        /\ queue \in [Brokers -> Seq(Request)]
    BY DEF Base, TypeInv, TypeOK
  <1>1. ASSUME UNCHANGED <<queue, current, jobs>>, \A s \in Servers : Unsent(s, c)' => Unsent(s, c)
        PROVE  OnceFor(c)'
    BY <1>1, OnceKept DEF Queued, Served, JobOf
  <1>2. CASE Edit \/ JobWrites \/ UNCHANGED vars
    BY <1>1, <1>2 DEF Edit, JobWrites, vars, world, servers, brokers, Unsent
  <1>3. ASSUME NEW s \in Servers, BeginCall(s) PROVE OnceFor(c)'
    <2>1. /\ UNCHANGED <<queue, current, jobs>>
          /\ \A t \in Servers : t # s => pc'[t] = pc[t] /\ call'[t] = call[t]
          /\ call'[s].id = used.calls + 1 /\ used.calls \in Nat
      BY <1>3, <1>t DEF BeginCall, Go, brokers, world, Base, TypeInv
    <2>2. CASE ~Unsent(s, c)'
      <3>1. \A t \in Servers : Unsent(t, c)' => Unsent(t, c)
        BY <2>1, <2>2 DEF Unsent
      <3> QED BY <1>1, <2>1, <3>1
    <2>3. CASE Unsent(s, c)'
      <3>1. c.id = used.calls + 1 /\ used.calls \in Nat
        BY <2>1, <2>3 DEF Unsent
      <3>2. ~Asked(c)
        BY <3>1 DEF FreshInv
      <3>3. ~Asked(c)'
        BY <2>1, <3>2 DEF Asked, Queued, Served, JobOf
      <3> QED BY <3>3 DEF OnceFor, Asked
    <2> QED BY <2>2, <2>3
  <1>4. ASSUME NEW s \in Servers, NEW b \in Brokers, pc[s] = "send", Go(s, "wait"), UNCHANGED <<call, current, jobs>>,
               queue' = [queue EXCEPT ![b] = Append(@,
                    [NoRequest EXCEPT !.kind = Head(mem[s].todo), !.from = s, !.call = call[s]])]
        PROVE  OnceFor(c)'
    <2>1. \A d \in Brokers, i \in Nat :
            Queued(d, i, c)' => Queued(d, i, c) \/ (d = b /\ i = Len(queue[b]) + 1 /\ Unsent(s, c))
      BY <1>4, SendPlaces
    <2>2. /\ \A d \in Brokers : Served(d, c)' <=> Served(d, c)
          /\ \A i \in Nat : JobOf(i, c)' <=> JobOf(i, c)
          /\ \A t \in Servers : Unsent(t, c)' => Unsent(t, c) /\ t # s
      BY <1>4, <1>t DEF Served, JobOf, Unsent, Go
    <2>3. CASE Unsent(s, c)
      <3>1. ~Asked(c)
        BY <2>3 DEF OnceFor
      <3>2. \A t \in Servers : ~Unsent(t, c)'
        BY <1>4, <2>2, <2>3 DEF FreshInv, Unsent
      <3> QED BY <2>1, <2>2, <3>1, <3>2 DEF OnceFor, Asked
    <2>4. CASE ~Unsent(s, c)
      BY <2>1, <2>2, <2>4, OnceKept
    <2> QED BY <2>3, <2>4
  <1>5. ASSUME NEW s \in Servers, Proceed(s) PROVE OnceFor(c)'
    <2>1. CASE Send(s)
      <3>1. CASE Failed(s) /\ UNCHANGED queue
        <4>1. UNCHANGED <<queue, current, jobs, call>>
          BY <2>1, <3>1 DEF Send, world
        <4>2. \A t \in Servers : Unsent(t, c)' => Unsent(t, c)
          BY <1>t, <3>1, <4>1 DEF Failed, Go, Unsent
        <4> QED BY <1>1, <4>1, <4>2
      <3>2. CASE ~(Failed(s) /\ UNCHANGED queue)
        BY <1>4, <2>1, <3>2 DEF Send, world
      <3> QED BY <3>1, <3>2
    <2>2. CASE GiveUp(s) \/ Conclude(s) \/ Record(s)
      BY <1>1, <1>t, <2>2 DEF GiveUp, Failed, Conclude, Record, Go, world, brokers, Unsent
    <2>3. CASE HashLocal(s)
      <3>1. call[s].op # "submit"
        BY <2>3 DEF HashLocal, Base, CallInv
      <3>2. UNCHANGED <<queue, current, jobs, call>> /\ \A t \in Servers : t # s => pc'[t] = pc[t]
        BY <1>t, <2>3 DEF HashLocal, Go, world, brokers
      <3> QED BY <1>1, <3>1, <3>2 DEF Unsent
    <2> QED BY <1>5, <2>1, <2>2, <2>3 DEF Proceed
  <1>6. ASSUME NEW s \in Servers, ServerDies(s) PROVE OnceFor(c)'
    BY <1>1, <1>6, <1>t DEF ServerDies, Go, world, brokers, Unsent
  <1>7. ASSUME NEW b \in Brokers, CheckPath(b) \/ Bind(b) \/ BindFails(b) \/ RemoveSocket(b) PROVE OnceFor(c)'
    BY <1>1, <1>7 DEF CheckPath, Bind, BindFails, RemoveSocket, world, servers, Unsent
  <1>8. ASSUME NEW b \in Brokers, Accept(b) PROVE OnceFor(c)'
    <2>1. /\ \A d \in Brokers, i \in Nat : Queued(d, i, c)' =>
                    IF d = b THEN i # 0 /\ Queued(b, i + 1, c) ELSE Queued(d, i, c)
          /\ \A d \in Brokers : Served(d, c)' => IF d = b THEN Queued(b, 1, c) ELSE Served(d, c)
      BY <1>8, AcceptPlaces
    <2>2. /\ \A i \in Nat : JobOf(i, c)' <=> JobOf(i, c)
          /\ \A s \in Servers : Unsent(s, c)' <=> Unsent(s, c)
      BY <1>8 DEF Accept, world, servers, JobOf, Unsent
    <2> QED BY <2>1, <2>2 DEF OnceFor, Asked
  <1>9. ASSUME NEW b \in Brokers, CopyOne(b) \/ CopyFails(b) \/ HashRemote(b) PROVE OnceFor(c)'
    <2>1. UNCHANGED <<queue, jobs, pc, call>>
      BY <1>9 DEF CopyOne, CopyFails, HashRemote, world, servers
    <2>2. \A d \in Brokers : current'[d].kind = current[d].kind /\ current'[d].call = current[d].call
      BY <1>9, ProgressKeeps
    <2> QED BY <2>1, <2>2, OnceKept DEF Queued, Served, JobOf, Unsent
  <1>10. ASSUME NEW b \in Brokers, Hang(b) PROVE OnceFor(c)'
    <2>1. UNCHANGED <<current, jobs, pc, call>>
      BY <1>10 DEF Hang, world, servers
    <2> QED BY <1>10, <2>1, HangPlaces, OnceKept DEF Served, JobOf, Unsent
  <1>11. ASSUME NEW b \in Brokers, BrokerDies(b) PROVE OnceFor(c)'
    BY <1>11, DeadPlaces, OnceKept DEF JobOf, Unsent
  <1>12. ASSUME NEW b \in Brokers, Launch(b) \/ LaunchUnanswered(b) PROVE OnceFor(c)'
    BY <1>12, LaunchOnce
  <1>13. ASSUME NEW b \in Brokers,
                Uploaded(b) \/ List(b) \/ RemoteManifest(b) \/ Fetch(b) \/ RefuseSubmit(b) \/ RequestFails(b)
         PROVE  OnceFor(c)'
    <2>1. /\ \E ok \in BOOLEAN, found \in Seq(Content) : Answer(b, ok, found)
          /\ UNCHANGED jobs
      BY <1>13, ServedAnswers
    <2> QED BY <2>1, EndPlaces, OnceKept DEF JobOf
  <1> QED BY <1>2, <1>3, <1>5, <1>6, <1>7, <1>8, <1>9, <1>10, <1>11, <1>12, <1>13 DEF Next, Serve, BrokerFaults

\* Only what was about to be sent is asked for anew.
LEMMA AskedStep ==
    ASSUME Base, [Next]_vars, NEW c \in CallIds, Asked(c)'
    PROVE  Asked(c) \/ \E s \in Servers : Unsent(s, c)
  <1> USE DEF Asked
  <1>1. CASE UNCHANGED <<queue, current, jobs>>
    BY <1>1 DEF Queued, Served, JobOf
  <1>2. CASE Edit \/ JobWrites \/ UNCHANGED vars
    BY <1>1, <1>2 DEF Edit, JobWrites, vars, world, brokers
  <1>3. ASSUME NEW s \in Servers, BeginCall(s) \/ Proceed(s) \/ ServerDies(s)
        PROVE  Asked(c) \/ \E t \in Servers : Unsent(t, c)
    <2>1. CASE Send(s)
      <3>1. UNCHANGED <<current, jobs>> /\ pc[s] = "send"
        BY <2>1 DEF Send, world
      <3>2. CASE UNCHANGED queue
        BY <1>1, <3>1, <3>2
      <3>3. ASSUME NEW b \in Brokers,
                   queue' = [queue EXCEPT ![b] = Append(@,
                        [NoRequest EXCEPT !.kind = Head(mem[s].todo), !.from = s, !.call = call[s]])]
            PROVE  Asked(c) \/ \E t \in Servers : Unsent(t, c)
        <4>1. \A d \in Brokers, i \in Nat : Queued(d, i, c)' => Queued(d, i, c) \/ Unsent(s, c)
          BY <3>1, <3>3, SendPlaces
        <4>2. /\ \A d \in Brokers : Served(d, c)' <=> Served(d, c)
              /\ \A i \in Nat : JobOf(i, c)' <=> JobOf(i, c)
          BY <3>1 DEF Served, JobOf
        <4> QED BY <4>1, <4>2
      <3> QED BY <2>1, <3>2, <3>3 DEF Send
    <2>2. CASE BeginCall(s) \/ HashLocal(s) \/ GiveUp(s) \/ Conclude(s) \/ Record(s) \/ ServerDies(s)
      <3>1. UNCHANGED <<queue, current, jobs>>
        BY <2>2 DEF BeginCall, HashLocal, GiveUp, Conclude, Record, ServerDies, world, brokers
      <3> QED BY <1>1, <3>1
    <2> QED BY <1>3, <2>1, <2>2 DEF Proceed
  <1>4. ASSUME NEW b \in Brokers, CheckPath(b) \/ Bind(b) \/ BindFails(b) \/ RemoveSocket(b)
        PROVE  Asked(c) \/ \E s \in Servers : Unsent(s, c)
    <2>1. UNCHANGED <<queue, current, jobs>>
      BY <1>4 DEF CheckPath, Bind, BindFails, RemoveSocket, world
    <2> QED BY <1>1, <2>1
  <1>5. ASSUME NEW b \in Brokers, Accept(b) PROVE Asked(c)
    <2>1. /\ \A d \in Brokers, i \in Nat : Queued(d, i, c)' =>
                    IF d = b THEN i # 0 /\ Queued(b, i + 1, c) ELSE Queued(d, i, c)
          /\ \A d \in Brokers : Served(d, c)' => IF d = b THEN Queued(b, 1, c) ELSE Served(d, c)
      BY <1>5, AcceptPlaces
    <2>2. \A i \in Nat : JobOf(i, c)' <=> JobOf(i, c)
      BY <1>5 DEF Accept, world, JobOf
    <2>3. \A d \in Brokers, i \in Nat : Queued(d, i, c)' => \E j \in Nat : Queued(d, j, c)
      BY <2>1
    <2>4. \A d \in Brokers : Served(d, c)' => Served(d, c) \/ \E j \in Nat : Queued(d, j, c)
      BY <2>1
    <2> QED BY <2>2, <2>3, <2>4
  <1>6. ASSUME NEW b \in Brokers, CopyOne(b) \/ CopyFails(b) \/ HashRemote(b) PROVE Asked(c)
    <2>1. UNCHANGED <<queue, jobs>>
      BY <1>6 DEF CopyOne, CopyFails, HashRemote, world
    <2>2. \A d \in Brokers : current'[d].kind = current[d].kind /\ current'[d].call = current[d].call
      BY <1>6, ProgressKeeps
    <2> QED BY <2>1, <2>2 DEF Queued, Served, JobOf
  <1>7. ASSUME NEW b \in Brokers, Hang(b) PROVE Asked(c)
    <2>1. \A d \in Brokers, i \in Nat : Queued(d, i, c)' => Queued(d, i, c)
      BY <1>7, HangPlaces
    <2>2. UNCHANGED <<current, jobs>>
      BY <1>7 DEF Hang, world
    <2> QED BY <2>1, <2>2 DEF Served, JobOf
  <1>8. ASSUME NEW b \in Brokers, BrokerDies(b) PROVE Asked(c)
    <2>1. /\ \A d \in Brokers, i \in Nat : Queued(d, i, c)' => Queued(d, i, c)
          /\ \A d \in Brokers : Served(d, c)' => Served(d, c)
          /\ UNCHANGED jobs
      BY <1>8, DeadPlaces
    <2> QED BY <2>1 DEF JobOf
  <1>9. ASSUME NEW b \in Brokers, Launch(b) \/ LaunchUnanswered(b) PROVE Asked(c)
    <2>1. Started(b) /\ Serving(b, "submit") /\ \E ok \in BOOLEAN : Answer(b, ok, <<>>)
      BY <1>9 DEF Launch, LaunchUnanswered
    <2>2. <<>> \in Seq(Content)
      OBVIOUS
    <2>3. /\ \A d \in Brokers, i \in Nat : Queued(d, i, c)' => Queued(d, i, c)
          /\ \A d \in Brokers : Served(d, c)' => Served(d, c)
      BY <2>1, <2>2, EndPlaces
    <2>4. \A i \in Nat : JobOf(i, c)' => JobOf(i, c) \/ Served(b, c)
      BY <2>1, LaunchPlaces
    <2> QED BY <2>3, <2>4
  <1>10. ASSUME NEW b \in Brokers,
                Uploaded(b) \/ List(b) \/ RemoteManifest(b) \/ Fetch(b) \/ RefuseSubmit(b) \/ RequestFails(b)
         PROVE  Asked(c)
    <2>1. /\ \E ok \in BOOLEAN, found \in Seq(Content) : Answer(b, ok, found)
          /\ UNCHANGED jobs
      BY <1>10, ServedAnswers
    <2> QED BY <2>1, EndPlaces DEF JobOf
  <1> QED BY <1>2, <1>3, <1>4, <1>5, <1>6, <1>7, <1>8, <1>9, <1>10 DEF Next, Serve, BrokerFaults

\* Which calls there are, and what is known of them, changes only at a server.
LEMMA CallsStep ==
    ASSUME Base, [Next]_vars
    PROVE  \/ UNCHANGED <<call, records, deserted>> /\ used'.calls = used.calls
              /\ \A s \in Servers : pc[s] = "idle" <=> pc'[s] = "idle"
           \/ \E s \in Servers : BeginCall(s) \/ Record(s) \/ ServerDies(s)
  <1> DEFINE Same == UNCHANGED <<call, records, deserted>> /\ used'.calls = used.calls
                     /\ \A s \in Servers : pc[s] = "idle" <=> pc'[s] = "idle"
  <1>1. /\ pc \in [Servers -> {"idle", "hash", "send", "wait", "conclude", "record"}]
        /\ used \in [{"calls", "edits", "faults"} -> Nat]
    BY DEF Base, TypeInv, TypeOK
  <1>2. CASE Edit \/ JobWrites \/ UNCHANGED vars
    BY <1>1, <1>2 DEF Edit, JobWrites, Use, vars, files, servers
  <1>3. ASSUME NEW s \in Servers, HashLocal(s) \/ Send(s) \/ GiveUp(s) \/ Conclude(s) PROVE Same
    BY <1>1, <1>3 DEF HashLocal, Send, GiveUp, Conclude, Failed, Go, files
  <1>4. ASSUME NEW b \in Brokers, CheckPath(b) \/ Bind(b) \/ BindFails(b) \/ RemoveSocket(b)
        PROVE  Same
    BY <1>1, <1>4 DEF CheckPath, Bind, BindFails, RemoveSocket, Use, files, servers
  <1>5. ASSUME NEW b \in Brokers, Accept(b) \/ CopyOne(b) \/ CopyFails(b) \/ HashRemote(b) \/ Hang(b) PROVE Same
    BY <1>1, <1>5 DEF Accept, CopyOne, CopyFails, HashRemote, Hang, Use, files, servers
  <1>6. ASSUME NEW b \in Brokers, BrokerDies(b) PROVE Same
    <2>1. UNCHANGED <<call, records, deserted>> /\ used'.calls = used.calls
      BY <1>1, <1>6 DEF BrokerDies, Use, files
    <2>2. PICK waiting \in SUBSET Servers :
            /\ \A s \in waiting : pc[s] = "wait"
            /\ pc' = [s \in Servers |-> IF s \in waiting THEN "conclude" ELSE pc[s]]
      BY <1>6 DEF BrokerDies
    <2> QED BY <2>1, <2>2
  <1>7. ASSUME NEW b \in Brokers, NEW ok \in BOOLEAN, NEW found, Answer(b, ok, found)
        PROVE  UNCHANGED <<call, records, deserted>> /\ \A s \in Servers : pc[s] = "idle" <=> pc'[s] = "idle"
    <2>1. UNCHANGED <<call, files>>
      BY <1>7, AnswerSteps DEF Base
    <2>2. CASE Waits(b)
      <3>1. /\ pc[current[b].from] = "wait"
            /\ \E at \in {"send", "conclude"} : pc' = [pc EXCEPT ![current[b].from] = at]
        BY <1>7, <2>2, AnswerSteps DEF Base, Waits
      <3> QED BY <1>1, <2>1, <3>1 DEF files
    <2>3. CASE ~Waits(b)
      BY <1>7, <2>1, <2>3, AnswerSteps DEF Base, files
    <2> QED BY <2>2, <2>3
  <1>8. ASSUME NEW b \in Brokers, Launch(b) \/ LaunchUnanswered(b) PROVE Same
    <2>1. used'.calls = used.calls
      BY <1>1, <1>8 DEF Launch, LaunchUnanswered, Use
    <2> QED BY <1>7, <1>8, <2>1 DEF Launch, LaunchUnanswered
  <1>9. ASSUME NEW b \in Brokers,
               Uploaded(b) \/ List(b) \/ RemoteManifest(b) \/ Fetch(b) \/ RefuseSubmit(b) \/ RequestFails(b)
        PROVE  Same
    <2>1. /\ \E ok \in BOOLEAN, found \in Seq(Content) : Answer(b, ok, found)
          /\ used'.calls = used.calls
      BY <1>9, ServedAnswers
    <2> QED BY <1>7, <2>1
  <1> QED BY <1>2, <1>3, <1>4, <1>5, <1>6, <1>8, <1>9 DEF Next, Proceed, Serve, BrokerFaults

\* Ids stay fresh.
LEMMA NextFresh ==
    ASSUME Base, FreshInv, [Next]_vars
    PROVE  FreshInv'
  <1>1. /\ pc \in [Servers -> {"idle", "hash", "send", "wait", "conclude", "record"}]
        /\ call \in [Servers -> CallIds \cup {NoCall}]
        /\ used.calls \in Nat
    BY DEF Base, TypeInv, TypeOK
  <1>2. used'.calls \in Nat /\ used'.calls >= used.calls
    <2>1. ASSUME NEW s \in Servers, BeginCall(s) \/ Record(s) \/ ServerDies(s)
          PROVE  used'.calls \in {used.calls, used.calls + 1}
      BY <2>1 DEF BeginCall, Record, ServerDies, Use, Base, TypeInv
    <2> QED BY <1>1, <2>1, CallsStep
  <1>3. ASSUME NEW c \in CallIds, Asked(c)' PROVE c.id <= used'.calls
    <2>1. Asked(c) => c.id <= used.calls
      BY DEF FreshInv
    <2>2. ASSUME NEW s \in Servers, Unsent(s, c) PROVE c.id <= used.calls
      BY <2>2 DEF Unsent, FreshInv
    <2>3. c.id <= used.calls
      BY <1>3, <2>1, <2>2, AskedStep
    <2>4. c.id \in Int
      BY DEF CallIds
    <2> QED BY <1>1, <1>2, <2>3, <2>4
  <1>4. /\ \A s \in Servers : pc'[s] # "idle" => call'[s].id <= used'.calls
        /\ \A s, t \in Servers : pc'[s] # "idle" /\ pc'[t] # "idle" /\ call'[s] = call'[t] => s = t
    <2>1. CASE UNCHANGED call /\ used'.calls = used.calls /\ \A s \in Servers : pc[s] = "idle" <=> pc'[s] = "idle"
      BY <2>1 DEF FreshInv
    <2>2. ASSUME NEW s \in Servers, BeginCall(s)
          PROVE  /\ \A t \in Servers : pc'[t] # "idle" => call'[t].id <= used'.calls
                 /\ \A t, u \in Servers : pc'[t] # "idle" /\ pc'[u] # "idle" /\ call'[t] = call'[u] => t = u
      <3>1. /\ \A t \in Servers : t # s => pc'[t] = pc[t] /\ call'[t] = call[t]
            /\ call'[s].id = used.calls + 1 /\ used'.calls = used.calls + 1
        BY <1>1, <2>2 DEF BeginCall, Go, Use, Base, TypeInv
      <3>2. \A t \in Servers : t # s /\ pc'[t] # "idle" => call'[t] \in CallIds /\ call'[t].id <= used.calls
        BY <3>1 DEF FreshInv, Base, CallInv
      <3>3. \A t \in Servers : t # s /\ pc'[t] # "idle" => call'[t].id \in Nat
        BY <3>2 DEF CallIds
      <3>4. \A t \in Servers : t # s /\ pc'[t] # "idle" => call'[t] # call'[s]
        BY <1>1, <3>1, <3>2, <3>3
      <3> QED BY <1>1, <3>1, <3>2, <3>3, <3>4 DEF FreshInv
    <2>3. ASSUME NEW s \in Servers, Record(s) \/ ServerDies(s)
          PROVE  /\ \A t \in Servers : pc'[t] # "idle" => call'[t].id <= used'.calls
                 /\ \A t, u \in Servers : pc'[t] # "idle" /\ pc'[u] # "idle" /\ call'[t] = call'[u] => t = u
      <3>1. /\ \A t \in Servers : t # s => pc'[t] = pc[t] /\ call'[t] = call[t]
            /\ pc'[s] = "idle" /\ used'.calls = used.calls
        BY <1>1, <2>3 DEF Record, ServerDies, Go, Use, Base, TypeInv
      <3> QED BY <3>1 DEF FreshInv
    <2> QED BY <2>1, <2>2, <2>3, CallsStep
  <1> QED BY <1>3, <1>4 DEF FreshInv

\* What is known of a call stays known.
LEMMA KnownStays ==
    ASSUME Base, [Next]_vars, NEW c \in CallIds, Known(c)
    PROVE  Known(c)'
  <1>1. call \in [Servers -> CallIds \cup {NoCall}]
    BY DEF Base, TypeInv, TypeOK
  <1>2. CASE UNCHANGED <<call, records, deserted>>
    BY <1>2 DEF Known
  <1>3. ASSUME NEW s \in Servers, BeginCall(s) PROVE Known(c)'
    <2>1. call[s] = NoCall /\ c # NoCall
      BY <1>3, NoCallIsNone DEF BeginCall, Base, CallInv
    <2>2. UNCHANGED <<records, deserted>> /\ \A t \in Servers : t # s => call'[t] = call[t]
      BY <1>1, <1>3 DEF BeginCall, files
    <2> QED BY <2>1, <2>2 DEF Known
  <1>4. ASSUME NEW s \in Servers, Record(s) PROVE Known(c)'
    <2>1. /\ records' = records \cup {[call |-> call[s], ok |-> Verified(s)]}
          /\ UNCHANGED deserted /\ \A t \in Servers : t # s => call'[t] = call[t]
      BY <1>1, <1>4 DEF Record, NewRecords
    <2>2. \E r \in records' : r.call = call[s]
      <3>1. [call |-> call[s], ok |-> Verified(s)] \in records'
        BY <2>1
      <3> QED BY <3>1
    <2>3. records \subseteq records'
      BY <2>1
    <2> QED BY <2>1, <2>2, <2>3 DEF Known
  <1>5. ASSUME NEW s \in Servers, ServerDies(s) PROVE Known(c)'
    <2>1. /\ deserted' = deserted \cup {call[s]}
          /\ UNCHANGED records /\ \A t \in Servers : t # s => call'[t] = call[t]
      BY <1>1, <1>5 DEF ServerDies
    <2> QED BY <2>1 DEF Known
  <1> QED BY <1>2, <1>3, <1>4, <1>5, CallsStep

\* No step forgets a call whose job may start.
LEMMA NextKnown ==
    ASSUME Base, KnownInv, [Next]_vars
    PROVE  KnownInv'
  <1> SUFFICES ASSUME NEW c \in CallIds, Asked(c)' PROVE Known(c)'
    BY DEF KnownInv
  <1>1. CASE Asked(c)
    BY <1>1, KnownStays DEF KnownInv
  <1>2. ASSUME NEW s \in Servers, Unsent(s, c) PROVE Known(c)'
    <2>1. Known(c)
      BY <1>2 DEF Unsent, Known
    <2> QED BY <2>1, KnownStays
  <1> QED BY <1>1, <1>2, AskedStep

\* A job is not undone.
LEMMA JobStays ==
    ASSUME Base, [Next]_vars, NEW c \in CallIds, NEW i \in Nat, JobOf(i, c)
    PROVE  JobOf(i, c)'
  <1>1. CASE UNCHANGED jobs
    BY <1>1 DEF JobOf
  <1>2. ASSUME NEW b \in Brokers, Launch(b) \/ LaunchUnanswered(b) PROVE JobOf(i, c)'
    <2>1. Started(b) /\ Serving(b, "submit")
      BY <1>2 DEF Launch, LaunchUnanswered
    <2> QED BY <2>1, LaunchPlaces
  <1>3. CASE Edit \/ JobWrites \/ UNCHANGED vars
    BY <1>1, <1>3 DEF Edit, JobWrites, vars, world
  <1>4. ASSUME NEW s \in Servers, BeginCall(s) \/ Proceed(s) \/ ServerDies(s) PROVE JobOf(i, c)'
    <2>1. UNCHANGED jobs
      BY <1>4 DEF BeginCall, Proceed, HashLocal, Send, GiveUp, Conclude, Record, ServerDies, world
    <2> QED BY <1>1, <2>1
  <1>5. ASSUME NEW b \in Brokers,
               \/ CheckPath(b) \/ Bind(b) \/ BindFails(b) \/ RemoveSocket(b) \/ Accept(b)
               \/ CopyOne(b) \/ CopyFails(b) \/ HashRemote(b) \/ Hang(b) \/ BrokerDies(b)
        PROVE  JobOf(i, c)'
    <2>1. UNCHANGED jobs
      BY <1>5 DEF CheckPath, Bind, BindFails, RemoveSocket, Accept, CopyOne, CopyFails, HashRemote, Hang,
                  BrokerDies, world
    <2> QED BY <1>1, <2>1
  <1>6. ASSUME NEW b \in Brokers,
               Uploaded(b) \/ List(b) \/ RemoteManifest(b) \/ Fetch(b) \/ RefuseSubmit(b) \/ RequestFails(b)
        PROVE  JobOf(i, c)'
    <2>1. UNCHANGED jobs
      BY <1>6, ServedAnswers
    <2> QED BY <1>1, <2>1
  <1> QED BY <1>2, <1>3, <1>4, <1>5, <1>6 DEF Next, Serve, BrokerFaults

\* What a server is told of a submit.
LEMMA OkStep ==
    ASSUME Base, [Next]_vars, NEW s \in Servers, call'[s].op = "submit", mem'[s].ok
    PROVE  /\ call'[s] = call[s] /\ call[s] \in CallIds
           /\ mem[s].ok \/ \E i \in Nat : JobOf(i, call[s])'
  <1>1. /\ mem \in [Servers -> Mem] /\ call \in [Servers -> CallIds \cup {NoCall}]
        /\ mem' \in [Servers -> Mem] /\ call' \in [Servers -> CallIds \cup {NoCall}]
    BY NextType DEF Base, TypeInv, TypeOK
  <1>2. call'[s] \in CallIds
    BY <1>1 DEF NoCall
  <1>3. CASE UNCHANGED <<call, mem>>
    BY <1>2, <1>3
  <1>4. ASSUME NEW t \in Servers, BeginCall(t) PROVE call'[s] = call[s] /\ mem[s].ok
    <2>1. CASE t = s
      <3>1. PICK op \in Ops : mem'[s] = [NoMem EXCEPT !.todo = Requests(op)]
        BY <1>1, <1>4, <2>1 DEF BeginCall, Ops
      <3>2. ~mem'[s].ok
        BY <3>1 DEF NoMem
      <3> QED BY <3>2
    <2>2. CASE t # s
      BY <1>1, <1>4, <2>2 DEF BeginCall
    <2> QED BY <2>1, <2>2
  <1>5. ASSUME NEW t \in Servers, Proceed(t) PROVE call'[s] = call[s] /\ mem[s].ok
    <2>1. CASE t # s
      BY <1>1, <1>5, <2>1 DEF Proceed, HashLocal, Send, GiveUp, Conclude, Record, Failed
    <2>2. CASE t = s
      <3>1. CASE HashLocal(s)
        BY <1>1, <3>1 DEF HashLocal, Mem
      <3>2. CASE Send(s) \/ GiveUp(s) \/ Conclude(s)
        BY <1>1, <3>2 DEF Send, GiveUp, Failed, Conclude, Mem
      <3>3. CASE Record(s)
        <4>1. call'[s] = NoCall
          BY <1>1, <3>3 DEF Record
        <4> QED BY <4>1 DEF NoCall
      <3> QED BY <1>5, <2>2, <3>1, <3>2, <3>3 DEF Proceed
    <2> QED BY <2>1, <2>2
  <1>6. ASSUME NEW t \in Servers, ServerDies(t) PROVE call'[s] = call[s] /\ mem[s].ok
    <2>1. CASE t # s
      BY <1>1, <1>6, <2>1 DEF ServerDies
    <2>2. CASE t = s
      <3>1. call'[s] = NoCall
        BY <1>1, <1>6, <2>2 DEF ServerDies
      <3> QED BY <3>1 DEF NoCall
    <2> QED BY <2>1, <2>2
  <1>7. ASSUME NEW b \in Brokers,
               \/ CheckPath(b) \/ Bind(b) \/ BindFails(b) \/ RemoveSocket(b) \/ Accept(b)
               \/ CopyOne(b) \/ CopyFails(b) \/ HashRemote(b) \/ Hang(b)
        PROVE  UNCHANGED <<call, mem>>
    BY <1>7 DEF CheckPath, Bind, BindFails, RemoveSocket, Accept, CopyOne, CopyFails, HashRemote, Hang, servers
  <1>8. ASSUME NEW b \in Brokers, BrokerDies(b) PROVE call'[s] = call[s] /\ mem[s].ok
    BY <1>2, <1>8, DeadPlaces
  <1>9. ASSUME NEW b \in Brokers, NEW ok \in BOOLEAN, NEW found, Answer(b, ok, found)
        PROVE  /\ call'[s] = call[s]
               /\ mem'[s] = mem[s] \/ (ok /\ call[s] = current[b].call)
    <2>1. UNCHANGED call
      BY <1>9, AnswerSteps DEF Base
    <2>2. CASE Waits(b) /\ current[b].from = s
      <3>1. mem'[s] = Answered(mem[s], current[b], ok, found) /\ call[s] = current[b].call
        BY <1>1, <1>9, <2>2, AnswerSteps DEF Base, Waits
      <3>2. mem'[s].ok = ok
        BY <3>1 DEF Answered
      <3> QED BY <2>1, <3>1, <3>2
    <2>3. CASE ~(Waits(b) /\ current[b].from = s)
      <3>1. mem'[s] = mem[s]
        BY <1>1, <1>9, <2>3, AnswerSteps DEF Base
      <3> QED BY <2>1, <3>1
    <2> QED BY <2>2, <2>3
  <1>10. ASSUME NEW b \in Brokers, Launch(b) \/ LaunchUnanswered(b)
         PROVE  call'[s] = call[s] /\ (mem[s].ok \/ \E i \in Nat : JobOf(i, call[s])')
    <2>1. Started(b) /\ Serving(b, "submit") /\ \E ok \in BOOLEAN : Answer(b, ok, <<>>)
      BY <1>10 DEF Launch, LaunchUnanswered
    <2>2. CASE mem'[s] = mem[s]
      BY <1>9, <2>1, <2>2
    <2>3. CASE call'[s] = call[s] /\ call[s] = current[b].call
      <3>1. Served(b, call[s]) /\ call[s] \in CallIds
        BY <1>2, <2>1, <2>3 DEF Served, Serving
      <3> QED BY <2>1, <2>3, <3>1, LaunchPlaces
    <2> QED BY <1>9, <2>1, <2>2, <2>3
  <1>11. ASSUME NEW b \in Brokers,
                Uploaded(b) \/ List(b) \/ RemoteManifest(b) \/ Fetch(b) \/ RefuseSubmit(b) \/ RequestFails(b)
         PROVE  call'[s] = call[s] /\ mem[s].ok
    <2>1. PICK ok \in BOOLEAN, found \in Seq(Content) : Answer(b, ok, found) /\ (ok => current[b].kind # "submit")
      BY <1>11, ServedAnswers
    <2>2. CASE mem'[s] = mem[s]
      BY <1>9, <2>1, <2>2
    <2>3. CASE ok /\ call[s] = current[b].call /\ call'[s] = call[s]
      <3>1. current[b].kind # "submit" /\ current[b].call.op = "submit" /\ current[b].call # NoCall
        BY <1>2, <2>1, <2>3, NoCallIsNone
      <3> QED BY <3>1 DEF Base, RequestInv, CallOf, KindOf
    <2> QED BY <1>9, <2>1, <2>2, <2>3
  <1>12. CASE Edit \/ JobWrites \/ UNCHANGED vars
    BY <1>2, <1>3, <1>12 DEF Edit, JobWrites, vars, servers
  <1> QED BY <1>2, <1>3, <1>4, <1>5, <1>6, <1>7, <1>8, <1>10, <1>11, <1>12 DEF Next, Serve, BrokerFaults

\* No step claims a job that was not started.
LEMMA NextOk ==
    ASSUME Base, OkInv, [Next]_vars
    PROVE  OkInv'
  <1> DEFINE Has(c) == \E i \in Nat : i \in DOMAIN jobs' /\ jobs'[i].call = c
  <1>0. ASSUME NEW c \in CallIds, \E i \in Nat : JobOf(i, c) PROVE Has(c)
    <2>1. PICK i \in Nat : JobOf(i, c)
      BY <1>0
    <2>2. JobOf(i, c)'
      BY <2>1, JobStays
    <2> QED BY <2>2 DEF JobOf
  <1>1. ASSUME NEW s \in Servers, call'[s].op = "submit", mem'[s].ok
        PROVE  Has(call'[s])
    <2>1. call'[s] = call[s] /\ call[s] \in CallIds /\ (mem[s].ok \/ \E i \in Nat : JobOf(i, call[s])')
      BY <1>1, OkStep
    <2>2. CASE mem[s].ok
      BY <1>0, <1>1, <2>1, <2>2 DEF OkInv
    <2>3. CASE \E i \in Nat : JobOf(i, call[s])'
      BY <2>1, <2>3 DEF JobOf
    <2> QED BY <2>1, <2>2, <2>3
  <1>2. ASSUME NEW r \in records', r.call.op = "submit", r.ok
        PROVE  Has(r.call)
    <2>1. CASE r \in records
      <3>1. r.call \in CallIds
        BY <2>1 DEF Base, TypeInv, TypeOK
      <3> QED BY <1>0, <1>2, <2>1, <3>1 DEF OkInv
    <2>2. CASE r \notin records
      <3>1. ASSUME NEW s \in Servers, BeginCall(s) \/ ServerDies(s) PROVE UNCHANGED records
        BY <3>1 DEF BeginCall, ServerDies, files
      <3>2. PICK s \in Servers : Record(s)
        BY <2>2, <3>1, CallsStep
      <3>3. r = [call |-> call[s], ok |-> Verified(s)] /\ call[s] \in CallIds
        BY <2>2, <3>2 DEF Record, NewRecords, Base, CallInv
      <3>4. r.call = call[s] /\ mem[s].ok
        BY <1>2, <3>3 DEF Verified
      <3> QED BY <1>0, <1>2, <3>3, <3>4 DEF OkInv
    <2> QED BY <2>1, <2>2
  <1> QED BY <1>1, <1>2 DEF OkInv, JobOf

\* The jobs of the initial state, and of every later one.
LEMMA JobsInductive == (Init => Base /\ JobsInv) /\ (Base /\ JobsInv /\ [Next]_vars => (Base /\ JobsInv)')
  <1>1. ASSUME Init PROVE Base /\ JobsInv
    <2>1. TypeInv /\ CallInv
      BY <1>1, InitType
    <2>2. \A b \in Brokers : current[b] = NoRequest /\ DOMAIN queue[b] = {}
      BY <1>1 DEF Init
    <2>3. RequestInv
      BY <2>2 DEF RequestInv, CallOf, NoRequest, Kinds
    <2>4. \A c : ~Asked(c)
      BY <1>1, <2>2 DEF Init, Asked, Queued, Served, JobOf, NoRequest
    <2>5. OnceInv
      BY <2>4 DEF OnceInv, OnceFor, Asked
    <2>6. FreshInv /\ KnownInv
      BY <1>1, <2>4 DEF Init, FreshInv, KnownInv
    <2>7. OkInv
      BY <1>1 DEF Init, OkInv, NoCall
    <2> QED BY <2>1, <2>3, <2>5, <2>6, <2>7 DEF Base, JobsInv
  <1>2. ASSUME Base, JobsInv, [Next]_vars PROVE (Base /\ JobsInv)'
    <2>1. Base'
      BY <1>2, NextType, NextRequest DEF Base
    <2>2. JobsInv'
      BY <1>2, NextOnce, NextFresh, NextKnown, NextOk DEF JobsInv
    <2> QED BY <2>1, <2>2
  <1> QED BY <1>1, <1>2

\* Every variable keeps its type in every behaviour.
THEOREM RemoteTypeOK == Spec => []TypeOK
  <1>1. Base => TypeOK
    BY DEF Base, TypeInv
  <1> QED BY <1>1, JobsInductive, PTL DEF Spec

\* handle_submit, SSHConnector.submit: one submit starts at most one job, it
\* is recorded as submitted only if it did, and no job is left without a record
\* by a server that lives, for any number of brokers that come and go, requests that
\* are answered too late and commands that fail.
THEOREM RemoteJobsAsRecorded == Spec => []JobsAsRecorded
  <1>1. ASSUME Base, JobsInv PROVE JobsAsRecorded
    <2>1. \A i \in DOMAIN jobs : i \in Nat /\ jobs[i].call \in CallIds /\ JobOf(i, jobs[i].call)
      <3>1. jobs \in Seq([call : CallIds, ran : [InputFiles -> Content]])
        BY <1>1 DEF Base, TypeInv, TypeOK
      <3>2. ASSUME NEW i \in DOMAIN jobs PROVE i \in Nat /\ jobs[i].call \in CallIds /\ JobOf(i, jobs[i].call)
        <4>1. i \in 1..Len(jobs) /\ jobs[i] \in [call : CallIds, ran : [InputFiles -> Content]] /\ Len(jobs) \in Nat
          BY <3>1, Item, LenProperties
        <4> QED BY <4>1 DEF JobOf
      <3> QED BY <3>2
    <2>2. \A i, j \in DOMAIN jobs : jobs[i].call = jobs[j].call => i = j
      BY <1>1, <2>1 DEF JobsInv, OnceInv, OnceFor
    <2>3. \A r \in records : r.call.op = "submit" /\ r.ok => \E i \in DOMAIN jobs : jobs[i].call = r.call
      BY <1>1 DEF JobsInv, OkInv, JobOf
    <2>4. ASSUME NEW i \in DOMAIN jobs PROVE Known(jobs[i].call)
      BY <1>1, <2>1 DEF JobsInv, KnownInv, Asked
    <2> QED BY <2>2, <2>3, <2>4 DEF JobsAsRecorded, Known
  <1> QED BY <1>1, JobsInductive, PTL DEF Spec

-----------------------------------------------------------------------------
(* What was uploaded.                                                      *)

\* One broker executes a request at a time.
OneServes == \A b, c \in Brokers : broker[b] = "busy" /\ broker[c] = "busy" => b = c

\* The files of an upload that are in the remote directory.
Held == <<remote["input"], remote["script"]>>

\* While a manifest of an upload is made the files stay as they are.
ManifestInv ==
    \A b \in Brokers : Serving(b, "manifest") /\ current[b].call.op = "upload" =>
        \/ current[b].todo = Inputs /\ current[b].found = <<>>
        \/ current[b].todo = <<"script">> /\ current[b].found = <<remote["input"]>>
        \/ current[b].todo = <<>> /\ current[b].found = Held

\* What a server has of an upload is nothing yet, or was in the directory at once.
FoundInv ==
    \A s \in Servers : call[s].op = "upload" =>
        /\ mem[s].found = <<>> \/ mem[s].found \in past
        /\ pc[s] # "hash" => mem[s].expected # <<>>

UploadInv == Held \in past /\ ManifestInv /\ FoundInv /\ VerifiedWasThere

\* The remote directory changes under a job, or under the request that copies.
LEMMA DirectoryStep ==
    ASSUME Base, [Next]_vars, Held \in past
    PROVE  /\ Held' \in past' /\ past \subseteq past'
           /\ Held' = Held \/ \E b \in Brokers : CopyOne(b) \/ CopyFails(b)
  <1>1. CASE UNCHANGED <<remote, past>>
    BY <1>1 DEF Held
  <1>2. ASSUME NEW file, NEW content, RemotePut(file, content)
        PROVE  Held' \in past' /\ past \subseteq past'
    BY <1>2 DEF RemotePut, Held, Inputs
  <1>3. CASE JobWrites
    <2>1. PICK content : RemotePut("out", content)
      BY <1>3 DEF JobWrites
    <2>2. remote'["input"] = remote["input"] /\ remote'["script"] = remote["script"]
      BY <2>1 DEF RemotePut, Base, TypeInv, TypeOK, InputFiles
    <2> QED BY <1>2, <2>1, <2>2 DEF Held
  <1>4. ASSUME NEW b \in Brokers, CopyOne(b) \/ CopyFails(b) PROVE Held' \in past' /\ past \subseteq past'
    BY <1>1, <1>2, <1>4 DEF CopyOne, CopyFails
  <1>5. CASE Edit \/ UNCHANGED vars
    BY <1>1, <1>5 DEF Edit, vars, world
  <1>6. ASSUME NEW s \in Servers, BeginCall(s) \/ Proceed(s) \/ ServerDies(s)
        PROVE  UNCHANGED <<remote, past>>
    BY <1>6 DEF BeginCall, Proceed, HashLocal, Send, GiveUp, Conclude, Record, ServerDies, world
  <1>7. ASSUME NEW b \in Brokers,
               \/ CheckPath(b) \/ Bind(b) \/ BindFails(b) \/ RemoveSocket(b) \/ Accept(b) \/ HashRemote(b) \/ Hang(b)
               \/ BrokerDies(b) \/ Uploaded(b) \/ List(b) \/ RemoteManifest(b) \/ Fetch(b) \/ RefuseSubmit(b)
               \/ RequestFails(b) \/ Launch(b) \/ LaunchUnanswered(b)
        PROVE  UNCHANGED <<remote, past>>
    BY <1>7 DEF CheckPath, Bind, BindFails, RemoveSocket, Accept, HashRemote, Hang, BrokerDies, Uploaded, List,
                RemoteManifest, Fetch, RefuseSubmit, RequestFails, Launch, LaunchUnanswered, world
  <1> QED BY <1>1, <1>3, <1>4, <1>5, <1>6, <1>7 DEF Next, Serve, BrokerFaults

\* A request is executed by its broker alone.
LEMMA BrokerStep ==
    ASSUME Base, [Next]_vars, NEW b \in Brokers, broker'[b] = "busy"
    PROVE  \/ broker[b] = "busy" /\ current'[b] = current[b]
           \/ Accept(b) \/ HashRemote(b) \/ CopyOne(b) \/ CopyFails(b)
  <1>1. /\ current \in [Brokers -> Request]
        /\ broker \in [Brokers -> {"down", "binding", "up", "busy", "dead"}]
    BY DEF Base, TypeInv, TypeOK
  <1>2. CASE UNCHANGED <<broker, current>>
    BY <1>2
  <1>3. CASE Edit \/ JobWrites \/ UNCHANGED vars
    BY <1>2, <1>3 DEF Edit, JobWrites, vars, brokers
  <1>4. ASSUME NEW s \in Servers, BeginCall(s) \/ Proceed(s) \/ ServerDies(s)
        PROVE  UNCHANGED <<broker, current>>
    BY <1>4 DEF BeginCall, Proceed, HashLocal, Send, GiveUp, Conclude, Record, ServerDies, brokers
  <1>5. ASSUME NEW d \in Brokers,
               CheckPath(d) \/ Bind(d) \/ BindFails(d) \/ RemoveSocket(d) \/ Hang(d) \/ BrokerDies(d)
        PROVE  broker[b] = "busy" /\ current'[b] = current[b]
    BY <1>1, <1>5 DEF CheckPath, Bind, BindFails, RemoveSocket, Hang, BrokerDies
  <1>6. ASSUME NEW d \in Brokers, Accept(d) \/ HashRemote(d) \/ CopyOne(d) \/ CopyFails(d), d # b
        PROVE  broker[b] = "busy" /\ current'[b] = current[b]
    BY <1>1, <1>6 DEF Accept, HashRemote, CopyOne, CopyFails
  <1>7. ASSUME NEW d \in Brokers, NEW ok, NEW found, Answer(d, ok, found)
        PROVE  broker[b] = "busy" /\ current'[b] = current[b]
    BY <1>1, <1>7 DEF Answer
  <1>8. ASSUME NEW d \in Brokers,
               \/ Uploaded(d) \/ List(d) \/ RemoteManifest(d) \/ Fetch(d) \/ RefuseSubmit(d)
               \/ RequestFails(d) \/ Launch(d) \/ LaunchUnanswered(d)
        PROVE  broker[b] = "busy" /\ current'[b] = current[b]
    BY <1>7, <1>8 DEF Uploaded, List, RemoteManifest, Fetch, RefuseSubmit, RequestFails, Launch, LaunchUnanswered
  <1> QED BY <1>2, <1>3, <1>4, <1>5, <1>6, <1>8 DEF Next, Serve, BrokerFaults

\* While one broker makes a manifest nobody copies.
LEMMA NextManifest ==
    ASSUME Base, OneServes, Held \in past, ManifestInv, [Next]_vars
    PROVE  ManifestInv'
  <1> SUFFICES ASSUME NEW b \in Brokers, broker'[b] = "busy", current'[b].kind = "manifest",
                      current'[b].call.op = "upload"
               PROVE  \/ current'[b].todo = Inputs /\ current'[b].found = <<>>
                      \/ current'[b].todo = <<"script">> /\ current'[b].found = <<remote'["input"]>>
                      \/ current'[b].todo = <<>> /\ current'[b].found = Held'
    BY DEF ManifestInv, Serving
  <1>1. current \in [Brokers -> Request] /\ current[b] \in Request /\ queue[b] \in Seq(Request)
    BY DEF Base, TypeInv, TypeOK
  <1>2. CASE broker[b] = "busy" /\ current'[b] = current[b]
    <2>1. ~\E d \in Brokers : CopyOne(d) \/ CopyFails(d)
      BY <1>2 DEF OneServes, CopyOne, CopyFails, Serving
    <2>2. Held' = Held
      BY <2>1, DirectoryStep
    <2>3. remote'["input"] = remote["input"]
      BY <2>2 DEF Held
    <2> QED BY <1>2, <2>2, <2>3 DEF ManifestInv, Serving
  <1>3. CASE Accept(b)
    <2>1. /\ queue[b] # <<>>
          /\ current'[b] = [Head(queue[b]) EXCEPT !.todo = ToDo(Head(queue[b]))]
      BY <1>1, <1>3 DEF Accept
    <2>2. 1 \in DOMAIN queue[b] /\ Head(queue[b]) = queue[b][1] /\ Head(queue[b]) \in Request
      BY <1>1, <2>1
    <2>3. /\ current'[b].kind = Head(queue[b]).kind /\ current'[b].call = Head(queue[b]).call
          /\ current'[b].found = Head(queue[b]).found /\ current'[b].todo = ToDo(Head(queue[b]))
      BY <2>1, <2>2 DEF Request
    <2>4. current'[b].found = <<>>
      BY <2>2, <2>3 DEF Base, RequestInv
    <2>5. current'[b].todo = Inputs
      BY <2>3 DEF ToDo
    <2> QED BY <2>4, <2>5
  <1>4. CASE HashRemote(b)
    <2>1. /\ Serving(b, "manifest") /\ current[b].todo # <<>> /\ current[b].call.op = "upload"
          /\ current'[b].todo = Tail(current[b].todo)
          /\ current'[b].found = Append(current[b].found, remote[Head(current[b].todo)])
          /\ UNCHANGED remote
      BY <1>1, <1>4 DEF HashRemote, Request, world
    <2>2. CASE current[b].todo = Inputs /\ current[b].found = <<>>
      <3>1. Tail(Inputs) = <<"script">> /\ Head(Inputs) = "input" /\ Append(<<>>, remote["input"]) = <<remote["input"]>>
        BY DEF Inputs
      <3> QED BY <2>1, <2>2, <3>1
    <2>3. CASE current[b].todo = <<"script">> /\ current[b].found = <<remote["input"]>>
      <3>1. Tail(<<"script">>) = <<>> /\ Head(<<"script">>) = "script"
        OBVIOUS
      <3>2. Append(<<remote["input"]>>, remote["script"]) = <<remote["input"], remote["script"]>>
        BY AppendedPair DEF Base, TypeInv, TypeOK, InputFiles
      <3> QED BY <2>1, <2>3, <3>1, <3>2 DEF Held
    <2> QED BY <2>1, <2>2, <2>3 DEF ManifestInv
  <1>5. CASE CopyOne(b) \/ CopyFails(b)
    <2>1. current'[b].kind = "upload"
      BY <1>5, ProgressKeeps DEF CopyOne, CopyFails, Serving
    <2> QED BY <2>1
  <1> QED BY <1>2, <1>3, <1>4, <1>5, BrokerStep

\* What an upload is compared with was in the directory at once.
LEMMA NextFound ==
    ASSUME Base, Held \in past, ManifestInv, FoundInv, [Next]_vars
    PROVE  FoundInv'
  <1> DEFINE Good(s) == call'[s].op = "upload" =>
                            /\ mem'[s].found = <<>> \/ mem'[s].found \in past'
                            /\ pc'[s] # "hash" => mem'[s].expected # <<>>
  <1> SUFFICES ASSUME NEW s \in Servers PROVE Good(s)
    BY DEF FoundInv
  <1>1. /\ mem \in [Servers -> Mem] /\ call \in [Servers -> CallIds \cup {NoCall}]
        /\ pc \in [Servers -> {"idle", "hash", "send", "wait", "conclude", "record"}]
        /\ mem[s] \in Mem
    BY DEF Base, TypeInv, TypeOK
  <1>2. past \subseteq past' /\ NoCall.op = "none"
    BY DirectoryStep DEF NoCall
  <1>3. ASSUME call'[s] = call[s], mem'[s].found = mem[s].found, mem'[s].expected = mem[s].expected,
               pc'[s] # "hash" => pc[s] # "hash"
        PROVE  Good(s)
    BY <1>2, <1>3 DEF FoundInv
  <1>4. CASE Edit \/ JobWrites \/ UNCHANGED vars
    BY <1>3, <1>4 DEF Edit, JobWrites, vars, servers
  <1>5. ASSUME NEW t \in Servers, BeginCall(t) PROVE Good(s)
    <2>1. CASE t # s
      BY <1>1, <1>3, <1>5, <2>1 DEF BeginCall, Go
    <2>2. CASE t = s
      <3>1. PICK op \in Ops :
                /\ call'[s].op = op
                /\ mem'[s] = [NoMem EXCEPT !.todo = Requests(op)]
                /\ pc'[s] = IF op = "upload" THEN "hash" ELSE "send"
        BY <1>1, <1>5, <2>2 DEF BeginCall, Go, Ops
      <3>2. mem'[s].found = <<>>
        BY <3>1 DEF NoMem
      <3> QED BY <3>1, <3>2
    <2> QED BY <2>1, <2>2
  <1>6. ASSUME NEW t \in Servers, Proceed(t) PROVE Good(s)
    <2>1. CASE t # s
      BY <1>1, <1>3, <1>6, <2>1 DEF Proceed, HashLocal, Send, GiveUp, Conclude, Record, Failed, Go
    <2>2. CASE HashLocal(s)
      <3>1. /\ mem'[s].found = mem[s].found /\ mem'[s].expected = Append(mem[s].expected, local)
            /\ UNCHANGED call
        BY <1>1, <2>2 DEF HashLocal, Mem
      <3>2. Append(mem[s].expected, local) # <<>>
        <4>1. mem[s].expected \in Seq(Content)
          BY <1>1 DEF Mem
        <4>2. local \in Content
          BY DEF Base, TypeInv, TypeOK, Content
        <4> QED BY <4>1, <4>2, AppendProperties
      <3> QED BY <1>2, <3>1, <3>2 DEF FoundInv
    <2>3. CASE Send(s) \/ GiveUp(s)
      <3>1. /\ UNCHANGED call /\ pc[s] # "hash"
            /\ mem'[s].found = mem[s].found /\ mem'[s].expected = mem[s].expected
        BY <1>1, <2>3 DEF Send, GiveUp, Failed, Mem
      <3> QED BY <1>3, <3>1
    <2>4. CASE Conclude(s)
      BY <1>3, <2>4 DEF Conclude
    <2>5. CASE Record(s)
      BY <1>1, <1>2, <2>5 DEF Record
    <2> QED BY <1>6, <2>1, <2>2, <2>3, <2>4, <2>5 DEF Proceed
  <1>7. ASSUME NEW t \in Servers, ServerDies(t) PROVE Good(s)
    <2>1. CASE t # s
      BY <1>1, <1>3, <1>7, <2>1 DEF ServerDies, Go
    <2>2. CASE t = s
      BY <1>1, <1>2, <1>7, <2>2 DEF ServerDies
    <2> QED BY <2>1, <2>2
  <1>8. ASSUME NEW b \in Brokers,
               \/ CheckPath(b) \/ Bind(b) \/ BindFails(b) \/ RemoveSocket(b) \/ Accept(b)
               \/ CopyOne(b) \/ CopyFails(b) \/ HashRemote(b) \/ Hang(b)
        PROVE  Good(s)
    <2>1. UNCHANGED <<pc, call, mem>>
      BY <1>8 DEF CheckPath, Bind, BindFails, RemoveSocket, Accept, CopyOne, CopyFails, HashRemote, Hang, servers
    <2> QED BY <1>3, <2>1
  <1>9. ASSUME NEW b \in Brokers, BrokerDies(b) PROVE Good(s)
    <2>1. PICK waiting \in SUBSET Servers :
            /\ \A t \in waiting : pc[t] = "wait"
            /\ pc' = [t \in Servers |-> IF t \in waiting THEN "conclude" ELSE pc[t]]
            /\ mem' = [t \in Servers |-> IF t \in waiting THEN [mem[t] EXCEPT !.ok = FALSE] ELSE mem[t]]
      BY <1>9 DEF BrokerDies
    <2>2. mem'[s].found = mem[s].found /\ mem'[s].expected = mem[s].expected /\ (pc'[s] # "hash" => pc[s] # "hash")
      BY <1>1, <2>1 DEF Mem
    <2>3. UNCHANGED call
      BY <1>9 DEF BrokerDies
    <2> QED BY <1>3, <2>2, <2>3
  <1>10. ASSUME NEW b \in Brokers, NEW ok \in BOOLEAN, NEW found \in Seq(Content), Answer(b, ok, found),
                ok /\ current[b].call.op = "upload" => found = <<>> \/ found \in past
         PROVE  Good(s)
    <2>1. UNCHANGED call
      BY <1>10, AnswerSteps DEF Base
    <2>2. CASE Waits(b) /\ current[b].from = s
      <3>1. /\ mem'[s] = Answered(mem[s], current[b], ok, found) /\ call[s] = current[b].call
            /\ pc[s] = "wait"
        BY <1>1, <1>10, <2>2, AnswerSteps DEF Base, Waits
      <3>2. /\ mem'[s].found = IF ok THEN found ELSE mem[s].found
            /\ call[s].op = "upload" => mem'[s].expected = mem[s].expected
        BY <3>1 DEF Answered
      <3> QED BY <1>2, <1>10, <2>1, <3>1, <3>2 DEF FoundInv
    <2>3. CASE ~(Waits(b) /\ current[b].from = s)
      <3>1. mem'[s] = mem[s] /\ pc'[s] = pc[s]
        BY <1>1, <1>10, <2>3, AnswerSteps DEF Base
      <3> QED BY <1>3, <2>1, <3>1
    <2> QED BY <2>2, <2>3
  <1>11. ASSUME NEW b \in Brokers,
                \/ Uploaded(b) \/ List(b) \/ RefuseSubmit(b) \/ RequestFails(b) \/ Launch(b) \/ LaunchUnanswered(b)
         PROVE  Good(s)
    <2>1. <<>> \in Seq(Content) /\ current[b].ok \in BOOLEAN /\ (remote["out"] # Nothing) \in BOOLEAN
      BY DEF Base, TypeInv, TypeOK, Request
    <2> QED BY <1>10, <1>11, <2>1 DEF Uploaded, List, RefuseSubmit, RequestFails, Launch, LaunchUnanswered
  <1>12. ASSUME NEW b \in Brokers, RemoteManifest(b) PROVE Good(s)
    <2>1. Answer(b, TRUE, current[b].found) /\ current[b].found \in Seq(Content)
      BY <1>12 DEF RemoteManifest, Base, TypeInv, TypeOK, Request
    <2>2. current[b].call.op = "upload" => current[b].found = Held
      <3>1. Serving(b, "manifest") /\ current[b].todo = <<>>
        BY <1>12 DEF RemoteManifest
      <3>2. Inputs # <<>> /\ <<"script">> # <<>>
        BY DEF Inputs
      <3> QED BY <3>1, <3>2 DEF ManifestInv
    <2> QED BY <1>10, <2>1, <2>2
  <1>13. ASSUME NEW b \in Brokers, Fetch(b) PROVE Good(s)
    <2>1. Answer(b, TRUE, <<remote["out"]>>) /\ remote["out"] \in Content
      BY <1>13 DEF Fetch, Base, TypeInv, TypeOK
    <2>2. <<remote["out"]>> \in Seq(Content)
      BY <2>1
    <2>3. current[b].call.op # "upload"
      BY <1>13 DEF Fetch, Serving, Base, RequestInv, CallOf, KindOf, Kinds
    <2> QED BY <1>10, <2>1, <2>2, <2>3
  <1> QED BY <1>4, <1>5, <1>6, <1>7, <1>8, <1>9, <1>11, <1>12, <1>13 DEF Next, Serve, BrokerFaults

\* What is reported as verified was there.
LEMMA NextVerified ==
    ASSUME Base, Held \in past, FoundInv, VerifiedWasThere, [Next]_vars
    PROVE  VerifiedWasThere'
  <1>1. past \subseteq past'
    BY DirectoryStep
  <1>2. CASE UNCHANGED reports
    BY <1>1, <1>2 DEF VerifiedWasThere
  <1>3. ASSUME NEW s \in Servers, Conclude(s) PROVE VerifiedWasThere'
    <2> DEFINE report == [op |-> call[s].op, plan |-> call[s].plan,
                          manifest |-> mem[s].expected, verified |-> Verified(s)]
    <2>1. reports' \subseteq reports \cup {report}
      BY <1>3 DEF Conclude
    <2>2. pc[s] = "conclude"
      BY <1>3 DEF Conclude
    <2>3. call[s].op = "upload" /\ Verified(s) => mem[s].expected \in past
      BY <2>2 DEF Verified, FoundInv
    <2>4. report.op = "upload" /\ report.verified => report.manifest \in past
      BY <2>3
    <2> HIDE DEF report
    <2> QED BY <1>1, <2>1, <2>4 DEF VerifiedWasThere
  <1>4. ASSUME NEW s \in Servers,
               \/ BeginCall(s) \/ HashLocal(s) \/ Send(s) \/ GiveUp(s) \/ Record(s) \/ ServerDies(s)
        PROVE  UNCHANGED reports
    BY <1>4 DEF BeginCall, HashLocal, Send, GiveUp, Record, ServerDies, files
  <1>5. ASSUME NEW b \in Brokers,
               \/ CheckPath(b) \/ Bind(b) \/ BindFails(b) \/ RemoveSocket(b) \/ Accept(b) \/ HashRemote(b)
               \/ CopyOne(b) \/ CopyFails(b) \/ Hang(b) \/ BrokerDies(b)
        PROVE  UNCHANGED reports
    BY <1>5 DEF CheckPath, Bind, BindFails, RemoveSocket, Accept, HashRemote, CopyOne, CopyFails, Hang,
                BrokerDies, files
  <1>6. ASSUME NEW b \in Brokers,
               \/ Uploaded(b) \/ List(b) \/ RemoteManifest(b) \/ Fetch(b) \/ RefuseSubmit(b)
               \/ RequestFails(b) \/ Launch(b) \/ LaunchUnanswered(b)
        PROVE  UNCHANGED reports
    BY <1>6 DEF Uploaded, List, RemoteManifest, Fetch, RefuseSubmit, RequestFails, Launch, LaunchUnanswered,
                Answer, files
  <1>7. CASE Edit \/ JobWrites \/ UNCHANGED vars
    BY <1>2, <1>7 DEF Edit, JobWrites, vars, files
  <1> QED BY <1>2, <1>3, <1>4, <1>5, <1>6, <1>7 DEF Next, Proceed, Serve, BrokerFaults

\* The initial state satisfies the invariant.
LEMMA InitUpload == Init => UploadInv
  <1> SUFFICES ASSUME Init PROVE UploadInv
    OBVIOUS
  <1>1. Held = <<Nothing, Nothing>>
    BY DEF Init, Held, InputFiles
  <1>2. Held \in past
    BY <1>1 DEF Init
  <1>3. ManifestInv
    BY DEF Init, ManifestInv, Serving
  <1>4. FoundInv /\ VerifiedWasThere
    BY DEF Init, FoundInv, VerifiedWasThere, NoCall
  <1> QED BY <1>2, <1>3, <1>4 DEF UploadInv

\* handle_transfer, remote_file_manifest: an upload that is reported as verified
\* was in the remote directory, all its files at once, as long as no two brokers
\* execute a request at the same time, whatever users, other servers and failing
\* commands do meanwhile.
THEOREM RemoteVerifiedWasThere == Spec /\ []OneServes => []VerifiedWasThere
  <1>1. ASSUME Base, UploadInv, OneServes, [Next]_vars PROVE UploadInv'
    BY <1>1, DirectoryStep, NextManifest, NextFound, NextVerified DEF UploadInv
  <1>2. Init => Base /\ UploadInv
    BY JobsInductive, InitUpload
  <1>3. UploadInv => VerifiedWasThere
    BY DEF UploadInv
  <1>4. Spec => []Base
    BY JobsInductive, PTL DEF Spec
  <1> QED BY <1>1, <1>2, <1>3, <1>4, PTL DEF Spec

\* With one broker process that is so.
COROLLARY RemoteOneBroker ==
    ASSUME NEW b, Brokers = {b}
    PROVE  Spec => []VerifiedWasThere
  <1>1. OneServes
    BY DEF OneServes
  <1> QED BY <1>1, RemoteVerifiedWasThere, PTL
=============================================================================
