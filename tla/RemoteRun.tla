------------------------------ MODULE RemoteRun ------------------------------
(***************************************************************************)
(* A run on a remote host: hpc/transfer and hpc/submit over SSH. A server  *)
(* (mcp/servers/hpc/server.py) checks the plan and asks a broker, through  *)
(* its Unix socket (broker.py); the broker (broker_server.py) has the      *)
(* credentials and executes one request after the other by ssh and scp     *)
(* (connectors/ssh.py). The server waits 30 s and gives up; the broker     *)
(* does not learn of it.                                                   *)
(*                                                                         *)
(* A plan is the content its files had when it was made, so the files of   *)
(* the project are "at" one plan and a user edits them to another. All     *)
(* plans name one remote directory. Plans and approvals are HpcSubmit's:   *)
(* here every plan is approved.                                            *)
(***************************************************************************)
EXTENDS Naturals, Sequences, FiniteSets

CONSTANTS
    Servers,      \* hpc server processes
    Brokers,      \* broker processes
    Plans,        \* run plans, and the contents of the files they are made for
    Start,        \* the contents the project starts with
    Nothing,      \* no file, no broker, no answer
    Part,         \* the content of a file that scp has not finished
    MaxCalls,     \* bound: tool calls
    MaxEdits,     \* bound: changes to the files of the project
    MaxFaults     \* bound: ssh and scp commands that fail, servers or brokers that die,
                 \* and clients that connect to the broker and never send a line

ASSUME StartAssumption == Start \in Plans
ASSUME BoundsAssumption == {MaxCalls, MaxEdits, MaxFaults} \subseteq Nat

Inputs == <<"input", "script">>      \* what an upload plan transfers, in the order of names
Outputs == <<"out">>                \* what a download plan transfers
InputFiles == {"input", "script"}
Content == Plans \cup {Nothing, Part}

VARIABLES
    local,     \* the plan whose contents the input files have
    copy,      \* the output file in the project
    remote,    \* the input files and the output in the remote directory
    past,      \* history: every content the input files of the remote directory had
    jobs,      \* the jobs at the remote host, in the order of their start
    reports,   \* transfer reports on disk
    records,   \* the run records of transfers and submits
    deserted,  \* history: the calls whose server died
    pc, call,  \* each server: its step and its call
    mem,       \* what a server has in memory
    path,      \* the broker whose socket file is at the path, or Nothing
    broker,    \* each broker: its state
    current,   \* the request it executes
    queue,     \* its listen queue, a line for each connection
    used       \* how much of each bound is used up

world == <<local, copy, remote, past, jobs>>
files == <<reports, records, deserted>>
servers == <<pc, call, mem>>
brokers == <<path, broker, current, queue>>
vars == <<world, files, servers, brokers, used>>

-----------------------------------------------------------------------------
NoCall == [op |-> "none", plan |-> Nothing, id |-> 0]
NoMem == [todo |-> <<>>, expected |-> <<>>, found |-> <<>>, ok |-> FALSE]
NoRequest == [kind |-> "none", from |-> Nothing, call |-> NoCall, todo |-> <<>>, found |-> <<>>, ok |-> TRUE]

Init ==
    /\ local = Start
    /\ copy = Nothing
    \* An earlier job has left its output; its inputs are gone.
    /\ remote = [f \in InputFiles \cup {"out"} |-> IF f = "out" THEN Start ELSE Nothing]
    /\ past = {<<Nothing, Nothing>>}
    /\ jobs = <<>>
    /\ reports = {} /\ records = {} /\ deserted = {}
    /\ pc = [s \in Servers |-> "idle"]
    /\ call = [s \in Servers |-> NoCall]
    /\ mem = [s \in Servers |-> NoMem]
    /\ path = Nothing
    /\ broker = [b \in Brokers |-> "down"]
    /\ current = [b \in Brokers |-> NoRequest]
    /\ queue = [b \in Brokers |-> <<>>]
    /\ used = [calls |-> 0, edits |-> 0, faults |-> 0]

\* One more of what is bounded.
Use(what, max) ==
    /\ used[what] < max
    /\ used' = [used EXCEPT ![what] = @ + 1]

\* The remote directory changes.
RemotePut(file, content) ==
    /\ remote' = [remote EXCEPT ![file] = content]
    /\ past' = past \cup {<<remote'[Inputs[1]], remote'[Inputs[2]]>>}

Edit ==
    /\ Use("edits", MaxEdits)
    /\ local' \in Plans \ {local}
    /\ UNCHANGED <<copy, remote, past, jobs, files, servers, brokers>>

\* A job at work writes its output.
JobWrites ==
    /\ \E i \in DOMAIN jobs : RemotePut("out", jobs[i].ran.input)
    /\ remote' # remote
    /\ UNCHANGED <<local, copy, jobs, files, servers, brokers, used>>

-----------------------------------------------------------------------------
(* The server.                                                             *)

Go(s, step) == pc' = [pc EXCEPT ![s] = step]

\* What a call asks the broker for, one after the other.
Requests(op) ==
    CASE op = "upload" -> <<"upload", "manifest">>
      [] op = "download" -> <<"list", "manifest", "fetch">>
      [] op = "submit" -> <<"submit">>

\* validate_run_plan_current: the inputs are the plan's.
BeginCall(s) ==
    /\ pc[s] = "idle"
    /\ Use("calls", MaxCalls)
    /\ \E op \in {"upload", "download", "submit"}, plan \in Plans :
        /\ local = plan
        /\ call' = [call EXCEPT ![s] = [op |-> op, plan |-> plan, id |-> used.calls + 1]]
        /\ mem' = [mem EXCEPT ![s] = [NoMem EXCEPT !.todo = Requests(op)]]
        /\ Go(s, IF op = "upload" THEN "hash" ELSE "send")
    /\ UNCHANGED <<world, files, brokers>>

\* file_manifest over the files that will be sent, one after the other.
HashLocal(s) ==
    /\ pc[s] = "hash"
    /\ mem' = [mem EXCEPT ![s].expected = Append(@, local)]
    /\ Go(s, IF Len(mem[s].expected) + 1 = Len(Inputs) THEN "send" ELSE "hash")
    /\ UNCHANGED <<world, files, call, brokers, used>>

Reachable(b) == path = b /\ broker[b] \in {"up", "busy"}

Failed(s) == mem' = [mem EXCEPT ![s].ok = FALSE] /\ Go(s, "conclude")

\* SSHBrokerClient._request up to sendall. Without a broker at the socket the
\* request fails closed.
Send(s) ==
    /\ pc[s] = "send"
    /\ \/ /\ \A b \in Brokers : ~Reachable(b)
          /\ Failed(s)
          /\ UNCHANGED queue
       \/ \E b \in Brokers :
          /\ Reachable(b)
          /\ queue' = [queue EXCEPT ![b] = Append(@,
                [NoRequest EXCEPT !.kind = Head(mem[s].todo), !.from = s, !.call = call[s]])]
          /\ Go(s, "wait")
          /\ UNCHANGED mem
    /\ UNCHANGED <<world, files, call, path, broker, current, used>>

\* Mutant: client.settimeout is forgotten.
GiveUpNever(s) == pc[s] = "wait" /\ UNCHANGED vars

\* The answer is not there after 30 s. The request stays where it is.
GiveUp(s) ==
    /\ pc[s] = "wait"
    /\ Failed(s)
    /\ UNCHANGED <<world, files, call, brokers, used>>

\* Mutant: an upload that scp reports as done is verified.
VerifiedUnread(s) == mem[s].ok

\* manifests_match, of what was sent or fetched and what was to be.
Verified(s) ==
    mem[s].ok /\ (call[s].op # "submit" => mem[s].found = mem[s].expected)

\* The report file of a transfer; a submit has none. (A torn report is no JSON
\* and counts like none.)
Conclude(s) ==
    /\ pc[s] = "conclude"
    /\ reports' = IF call[s].op = "submit" THEN reports
                  ELSE reports \cup {[op |-> call[s].op, plan |-> call[s].plan,
                                      manifest |-> mem[s].expected, verified |-> Verified(s)]}
    /\ Go(s, "record")
    /\ UNCHANGED <<world, records, deserted, call, mem, brokers, used>>

\* Mutant: nothing is recorded of what has failed.
NewRecordsIfOk(s) == IF Verified(s) THEN {[call |-> call[s], ok |-> TRUE]} ELSE {}

NewRecords(s) == {[call |-> call[s], ok |-> Verified(s)]}

\* _record_transfer, record_submit_job
Record(s) ==
    /\ pc[s] = "record"
    /\ records' = records \cup NewRecords(s)
    /\ Go(s, "idle")
    /\ call' = [call EXCEPT ![s] = NoCall]
    /\ mem' = [mem EXCEPT ![s] = NoMem]
    /\ UNCHANGED <<world, reports, deserted, brokers, used>>

ServerDies(s) ==
    /\ pc[s] # "idle"
    /\ Use("faults", MaxFaults)
    /\ Go(s, "idle")
    /\ call' = [call EXCEPT ![s] = NoCall]
    /\ mem' = [mem EXCEPT ![s] = NoMem]
    /\ deserted' = deserted \cup {call[s]}
    /\ UNCHANGED <<world, reports, records, brokers>>

-----------------------------------------------------------------------------
(* The broker.                                                             *)

\* start: whatever is at the path, it is not replaced.
CheckPath(b) ==
    /\ broker[b] = "down"
    /\ path = Nothing
    /\ broker' = [broker EXCEPT ![b] = "binding"]
    /\ UNCHANGED <<world, files, servers, path, current, queue, used>>

Bind(b) ==
    /\ broker[b] = "binding"
    /\ path = Nothing
    /\ path' = b
    /\ broker' = [broker EXCEPT ![b] = "up"]
    /\ UNCHANGED <<world, files, servers, current, queue, used>>

\* Another broker has bound the path since, or chmod or listen fail: the handler
\* unlinks the socket that is there.
BindFails(b) ==
    /\ broker[b] = "binding"
    /\ IF path = Nothing THEN Use("faults", MaxFaults) ELSE UNCHANGED used
    /\ path' = Nothing
    /\ broker' = [broker EXCEPT ![b] = "down"]
    /\ UNCHANGED <<world, files, servers, current, queue>>

\* Its connections end; the servers that wait are answered with an error. The
\* socket file stays.
BrokerDies(b) ==
    /\ broker[b] \in {"up", "busy"}
    /\ Use("faults", MaxFaults)
    /\ broker' = [broker EXCEPT ![b] = "dead"]
    /\ current' = [current EXCEPT ![b] = NoRequest]
    /\ queue' = [queue EXCEPT ![b] = <<>>]
    /\ LET waiting == {s \in Servers : pc[s] = "wait"
                        /\ \E r \in {current[b]} \cup {queue[b][i] : i \in DOMAIN queue[b]} :
                               r.from = s /\ r.call = call[s]}
       IN  /\ pc' = [s \in Servers |-> IF s \in waiting THEN "conclude" ELSE pc[s]]
           /\ mem' = [s \in Servers |-> IF s \in waiting THEN [mem[s] EXCEPT !.ok = FALSE] ELSE mem[s]]
    /\ UNCHANGED <<world, files, call, path>>

\* Whoever runs the host removes the socket of a dead broker.
RemoveSocket(b) ==
    /\ broker[b] = "dead"
    /\ broker' = [broker EXCEPT ![b] = "down"]
    /\ path' = IF path = b THEN Nothing ELSE path
    /\ UNCHANGED <<world, files, servers, current, queue, used>>

\* Some process connects and never sends its line, nor closes.
Hang(b) ==
    /\ Reachable(b)
    /\ Use("faults", MaxFaults)
    /\ queue' = [queue EXCEPT ![b] = Append(@, [NoRequest EXCEPT !.kind = "hung"])]
    /\ UNCHANGED <<world, files, servers, path, broker, current>>

\* The files that a request is about, one command or one line for each.
ToDo(request) ==
    CASE request.kind \in {"upload", "manifest"} /\ request.call.op = "upload" -> Inputs
      [] request.kind \in {"manifest", "fetch"} /\ request.call.op = "download" -> Outputs
      [] OTHER -> <<>>

\* serve_once: accept, and _receive_request, which waits for the line.
Accept(b) ==
    /\ broker[b] = "up"
    /\ queue[b] # <<>>
    /\ current' = [current EXCEPT ![b] = [Head(queue[b]) EXCEPT !.todo = ToDo(Head(queue[b]))]]
    /\ queue' = [queue EXCEPT ![b] = Tail(@)]
    /\ broker' = [broker EXCEPT ![b] = "busy"]
    /\ UNCHANGED <<world, files, servers, path, used>>

Serving(b, kind) == broker[b] = "busy" /\ current[b].kind = kind

\* The memory of a server after an answer: a download is to have what its
\* manifest says, and what was found last is compared with that.
Answered(m, request, ok, found) ==
    [todo     |-> Tail(m.todo),
     expected |-> IF ok /\ request.kind = "manifest" /\ request.call.op = "download"
                  THEN found ELSE m.expected,
     found    |-> IF ok THEN found ELSE m.found,
     ok       |-> ok]

\* The answer reaches the server if it still waits for this request.
Answer(b, ok, found) ==
    LET s == current[b].from
    IN  /\ broker' = [broker EXCEPT ![b] = "up"]
        /\ current' = [current EXCEPT ![b] = NoRequest]
        /\ IF s \in Servers /\ pc[s] = "wait" /\ call[s] = current[b].call
              /\ Head(mem[s].todo) = current[b].kind
           THEN /\ mem' = [mem EXCEPT ![s] = Answered(mem[s], current[b], ok, found)]
                /\ Go(s, IF ok /\ Len(mem[s].todo) > 1 THEN "send" ELSE "conclude")
           ELSE UNCHANGED <<mem, pc>>
        /\ UNCHANGED <<call, files, path, queue>>

\* upload_files: one scp for each file, and the others though one fails.
CopyOne(b) ==
    /\ Serving(b, "upload")
    /\ current[b].todo # <<>>
    /\ RemotePut(Head(current[b].todo), local)
    /\ current' = [current EXCEPT ![b].todo = Tail(@)]
    /\ UNCHANGED <<local, copy, jobs, files, servers, path, broker, queue, used>>

\* A scp that fails, or is killed after 60 s, may leave a part of the file.
CopyFails(b) ==
    /\ Serving(b, "upload")
    /\ current[b].todo # <<>>
    /\ Use("faults", MaxFaults)
    /\ RemotePut(Head(current[b].todo), Part) \/ UNCHANGED <<remote, past>>
    /\ current' = [current EXCEPT ![b].todo = Tail(@), ![b].ok = FALSE]
    /\ UNCHANGED <<local, copy, jobs, files, servers, path, broker, queue>>

Uploaded(b) ==
    /\ Serving(b, "upload")
    /\ current[b].todo = <<>>
    /\ Answer(b, current[b].ok, <<>>)
    /\ UNCHANGED <<world, used>>

\* list_remote_files: the output of a download plan exists.
List(b) ==
    /\ Serving(b, "list")
    /\ Answer(b, remote["out"] # Nothing, <<>>)
    /\ UNCHANGED <<world, used>>

\* remote_file_manifest: one ssh command hashes the files, one after the other.
HashRemote(b) ==
    /\ Serving(b, "manifest")
    /\ current[b].todo # <<>>
    /\ current' = [current EXCEPT ![b].todo = Tail(@), ![b].found = Append(@, remote[Head(current[b].todo)])]
    /\ UNCHANGED <<world, files, servers, path, broker, queue, used>>

RemoteManifest(b) ==
    /\ Serving(b, "manifest")
    /\ current[b].todo = <<>>
    /\ Answer(b, TRUE, current[b].found)
    /\ UNCHANGED <<world, used>>

\* download_files, and file_manifest over what has come.
Fetch(b) ==
    /\ Serving(b, "fetch")
    /\ copy' = remote["out"]
    /\ Answer(b, TRUE, <<remote["out"]>>)
    /\ UNCHANGED <<local, remote, past, jobs, used>>

\* A request that ends in an error: ssh or scp fails or is killed.
RequestFails(b) ==
    /\ broker[b] = "busy" /\ current[b].kind \in {"list", "manifest", "fetch", "submit"}
    /\ Use("faults", MaxFaults)
    /\ Answer(b, FALSE, <<>>)
    /\ copy' \in IF current[b].kind = "fetch" THEN {copy, Part} ELSE {copy}
    /\ UNCHANGED <<local, remote, past, jobs>>

\* SSHConnector.submit before it launches: the plan is current and there is a
\* verified upload for it, to the same directory.
Submittable(b, plan) ==
    local = plan /\ \E r \in reports : r.op = "upload" /\ r.plan = plan /\ r.verified

RefuseSubmit(b) ==
    /\ Serving(b, "submit")
    /\ ~Submittable(b, current[b].call.plan)
    /\ Answer(b, FALSE, <<>>)
    /\ UNCHANGED <<world, used>>

Started(b) ==
    jobs' = Append(jobs, [call |-> current[b].call, ran |-> [f \in InputFiles |-> remote[f]]])

\* sbatch, or nohup bash.
Launch(b) ==
    /\ Serving(b, "submit")
    /\ Submittable(b, current[b].call.plan)
    /\ Started(b)
    /\ Answer(b, TRUE, <<>>)
    /\ UNCHANGED <<local, copy, remote, past, used>>

\* ssh is killed after 30 s, when the job was already started.
LaunchUnanswered(b) ==
    /\ Serving(b, "submit")
    /\ Submittable(b, current[b].call.plan)
    /\ Use("faults", MaxFaults)
    /\ Started(b)
    /\ Answer(b, FALSE, <<>>)
    /\ UNCHANGED <<local, copy, remote, past>>

-----------------------------------------------------------------------------
Serve(b) ==
    \/ Accept(b) \/ CopyOne(b) \/ Uploaded(b) \/ List(b) \/ HashRemote(b) \/ RemoteManifest(b) \/ Fetch(b)
    \/ RefuseSubmit(b) \/ Launch(b)

BrokerFaults(b) ==
    \/ CopyFails(b) \/ RequestFails(b) \/ LaunchUnanswered(b) \/ BrokerDies(b) \/ Hang(b)

Proceed(s) == HashLocal(s) \/ Send(s) \/ GiveUp(s) \/ Conclude(s) \/ Record(s)

Next ==
    \/ Edit \/ JobWrites
    \/ \E s \in Servers : BeginCall(s) \/ Proceed(s) \/ ServerDies(s)
    \/ \E b \in Brokers :
        CheckPath(b) \/ Bind(b) \/ BindFails(b) \/ RemoveSocket(b) \/ Serve(b) \/ BrokerFaults(b)

Spec == Init /\ [][Next]_vars

\* A server goes on with its call, and its clock runs; the broker, which may wait
\* for a line for ever, is not relied on.
FairSpec == Spec /\ \A s \in Servers : WF_vars(Proceed(s))
-----------------------------------------------------------------------------
(* Properties.                                                             *)

Ops == {"upload", "download", "submit"}
CallIds == [op : Ops, plan : Plans, id : 1..MaxCalls]
Request == [kind : {"none", "hung", "upload", "manifest", "list", "fetch", "submit"},
            from : Servers \cup {Nothing}, call : CallIds \cup {NoCall},
            todo : Seq({"input", "script", "out"}), found : Seq(Content), ok : BOOLEAN]

TypeOK ==
    /\ local \in Plans /\ copy \in Content
    /\ remote \in [InputFiles \cup {"out"} -> Content]
    /\ jobs \in Seq([call : CallIds, ran : [InputFiles -> Content]])
    /\ \A r \in reports : r.op \in Ops \ {"submit"} /\ r.plan \in Plans /\ r.verified \in BOOLEAN
    /\ records \subseteq [call : CallIds, ok : BOOLEAN]
    /\ pc \in [Servers -> {"idle", "hash", "send", "wait", "conclude", "record"}]
    /\ call \in [Servers -> CallIds \cup {NoCall}]
    /\ \A s \in Servers : pc[s] \in {"send", "wait"} => mem[s].todo # <<>>
    /\ path \in Brokers \cup {Nothing}
    /\ broker \in [Brokers -> {"down", "binding", "up", "busy", "dead"}]
    /\ current \in [Brokers -> Request]
    /\ queue \in [Brokers -> Seq(Request)]

\* An upload is reported as verified only if the remote directory had all the
\* files of its manifest at once, though both manifests are made file by file while
\* users edit, other servers upload to the same directory and scp leaves parts of
\* files (handle_transfer, remote_file_manifest): it is the one request at a time of
\* the broker that keeps the directory still.
VerifiedWasThere ==
    \A r \in reports : r.op = "upload" /\ r.verified => r.manifest \in past

\* One submit starts at most one job, it is recorded as submitted only if it did,
\* and a job is not without a record once its call has ended, whatever the server
\* was told (handle_submit, _request). A server that dies leaves none.
JobsAsRecorded ==
    /\ \A i, j \in DOMAIN jobs : jobs[i].call = jobs[j].call => i = j
    /\ \A r \in records : r.call.op = "submit" /\ r.ok => \E i \in DOMAIN jobs : jobs[i].call = r.call
    /\ \A i \in DOMAIN jobs :
            \/ jobs[i].call \in deserted
            \/ \E r \in records : r.call = jobs[i].call
            \/ \E s \in Servers : call[s] = jobs[i].call

\* Every call ends, though the broker dies, or reads for ever from a client that
\* sends nothing: it is the server's own clock that ends it (client.settimeout).
CallsEnd == \A s \in Servers : pc[s] # "idle" ~> pc[s] = "idle"

\* "refusing to replace it": a broker that cannot start leaves the one that runs
\* reachable (the message of SSHBrokerServer.start).
RunningIsReachable ==
    \A b \in Brokers : broker[b] \in {"up", "busy"} => path = b
=============================================================================
