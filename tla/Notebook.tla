------------------------------ MODULE Notebook ------------------------------
(***************************************************************************)
(* The Experiment notebooks of a project as several simflow_state servers  *)
(* use them: runtime/simflow_core/experiment_notebook.py behind the        *)
(* experiment channel of the record tool.                                  *)
(*                                                                         *)
(* For every experiment id there is at most one Markdown file:             *)
(*   present   the file exists                                             *)
(*   headed    its header marker is complete and the file decodes          *)
(*   entries   its complete entry markers, in order                        *)
(*   open      it ends in an entry marker that was never closed            *)
(*   holder    the process that holds the flock on it                      *)
(*                                                                         *)
(* create_experiment tests, opens (exclusively), locks and writes; an      *)
(* append locks, parses, validates and writes. Both then rebuild the       *)
(* project summary, which parses every notebook of the project, and only   *)
(* answer when that worked. The flock is assumed to work.                  *)
(***************************************************************************)
EXTENDS Naturals, Sequences, FiniteSets

CONSTANTS
    Procs,        \* server processes that share the project
    Exps,         \* experiment ids the callers use
    Attempts,     \* attempt ids the callers use
    Keys,         \* idempotency keys the callers use
    Updates,      \* statuses the callers give an experiment later
    NoAttempt, NoKey, NoProc,   \* the absent attempt, key and lock holder,
    NoExp,                      \* and experiment id
    Broken,       \* an entry marker whose content is no JSON
    MaxShown,     \* the entries inspect shows at most (200)
    MaxCalls,     \* bound: calls that are started
    MaxCrashes,   \* bound: processes that die during a call
    MaxTorn,      \* bound: writes that stop part-way
    MaxErrors     \* bound: writes or fsyncs that raise OSError

ASSUME NotebookAssumption ==
    /\ NoAttempt \notin Attempts
    /\ NoKey \notin Keys
    /\ NoProc \notin Procs
    /\ NoExp \notin Exps
    /\ Exps # {}
    /\ MaxShown \in Nat \ {0}
    /\ MaxCalls \in Nat
    /\ MaxCrashes \in Nat
    /\ MaxTorn \in Nat
    /\ MaxErrors \in Nat

\* Observations and decisions obey the same rules: both are a "note".  Only an
\* experiment entry has a status.
Types == {"experiment", "attempt", "note"}
Statuses == Updates \cup {"active"}

Entry == [id : Nat, type : Types, attempt : Attempts \cup {NoAttempt},
          key : Keys \cup {NoKey}, status : Statuses \cup {"none"}]

ASSUME BrokenIsNoEntry == Broken \notin Entry

VARIABLES
    present, headed, entries, open,   \* the notebook files
    holder,                           \* the flock on each of them
    pc, req, todo,                    \* each process: where it is, the entry it
                                      \* writes, the notebooks it has yet to parse
    nextId,                           \* fresh entry ids (uuid4 in the code)
    acked,                            \* history: entries returned to a caller
    crashes, torn, errors             \* history: faults so far

books == <<present, headed, entries, open>>
local == <<pc, req, todo>>
faults == <<crashes, torn, errors>>
vars == <<books, holder, local, nextId, acked, faults>>

-----------------------------------------------------------------------------
(* Parsing.                                                                *)

\* _validate_entry: an attempt is new, and whatever else names an attempt
\* names one that came before it.
Valid(e, prior) ==
    LET known == {i \in 1..Len(prior) :
                    prior[i] # Broken /\ prior[i].type = "attempt" /\ prior[i].attempt = e.attempt}
    IN  IF e.type = "attempt" THEN e.attempt # NoAttempt /\ known = {}
        ELSE e.attempt # NoAttempt => known # {}

\* The body of parse_experiment_notebook: it raises unless this holds.
Parses(es) ==
    /\ Len(es) > 0
    /\ \A i \in 1..Len(es) : es[i] # Broken
    /\ \A i \in 1..Len(es) : Valid(es[i], SubSeq(es, 1, i - 1))
    /\ \A i, j \in 1..Len(es) :
        i # j => /\ es[i].id # es[j].id
                 /\ es[i].key # NoKey => es[i].key # es[j].key
    /\ es[1].type = "experiment"

\* A file without its header is refused; an entry marker that is not closed is
\* not seen.
Readable(x) == x \in headed /\ Parses(entries[x])

\* The entries of x that carry the key.
Existing(x, k) == {i \in 1..Len(entries[x]) : entries[x][i] # Broken /\ entries[x][i].key = k}

-----------------------------------------------------------------------------
(* What inspect shows (project_summary.py).                                *)

\* _current_experiment: the status the last experiment entry left, and every
\* attempt that an entry names.
CurrentExperiment(es) ==
    LET updates == {i \in 1..Len(es) : es[i].type = "experiment" /\ es[i].status # "none"}
    IN  [status   |-> es[CHOOSE i \in updates : \A j \in updates : j <= i].status,
         attempts |-> {es[i].attempt : i \in 1..Len(es)} \ {NoAttempt}]

\* The experiments inspect_experiment_context chooses: the one that is asked
\* for, or else the only active one whose scope holds the working directory, or
\* the only one of these that a word of the query matches.
Selected(current, asked, scoped, matched) ==
    LET active == {x \in DOMAIN current : current[x].status = "active"}
        Only(xs) == IF Cardinality(xs) = 1 THEN xs ELSE {}
    IN  IF asked \in DOMAIN current THEN {asked}
        ELSE IF Only(active \cap scoped) # {} THEN active \cap scoped
        ELSE Only(active \cap scoped \cap matched)

\* Its entries: of one attempt, of one type, and the last few of these, by their
\* positions.
Shown(es, attempt, type, limit) ==
    LET found == {i \in 1..Len(es) : attempt \in {NoAttempt, es[i].attempt} /\ type \in {"any", es[i].type}}
        Bounded == IF limit < 1 THEN 1 ELSE IF limit > MaxShown THEN MaxShown ELSE limit
    IN  {i \in found : Cardinality({j \in found : j > i}) < Bounded}

-----------------------------------------------------------------------------
NoEntry == [id |-> 0, type |-> "note", attempt |-> NoAttempt, key |-> NoKey, status |-> "none"]

Init ==
    /\ present = {}
    /\ headed = {}
    /\ entries = [x \in Exps |-> <<>>]
    /\ open = {}
    /\ holder = [x \in Exps |-> NoProc]
    /\ pc = [p \in Procs |-> "idle"]
    /\ req = [p \in Procs |-> [exp |-> CHOOSE x \in Exps : TRUE, entry |-> NoEntry]]
    /\ todo = [p \in Procs |-> {}]
    /\ nextId = 1
    /\ acked = {}
    /\ crashes = 0
    /\ torn = 0
    /\ errors = 0

X(p) == req[p].exp
E(p) == req[p].entry

Goto(p, at) == pc' = [pc EXCEPT ![p] = at]

\* The call answers, raises or dies: nothing of it is remembered.
Return(p) ==
    /\ pc' = [pc EXCEPT ![p] = "idle"]
    /\ req' = [req EXCEPT ![p].entry = NoEntry]
    /\ todo' = [todo EXCEPT ![p] = {}]

Release(p) == holder' = [holder EXCEPT ![X(p)] = NoProc]

Call(p, x, type, status, attempt, key, at) ==
    /\ pc[p] = "idle"
    /\ nextId <= MaxCalls
    /\ nextId' = nextId + 1
    /\ req' = [req EXCEPT ![p] =
        [exp |-> x,
         entry |-> [id |-> nextId, type |-> type, attempt |-> attempt, key |-> key, status |-> status]]]
    /\ Goto(p, at)
    /\ UNCHANGED <<books, holder, todo, acked, faults>>

-----------------------------------------------------------------------------
(* create_experiment                                                       *)

CreateExperiment(p) ==
    \E x \in Exps, k \in Keys \cup {NoKey} :
        Call(p, x, "experiment", "active", NoAttempt, k, "check")

\* The file is there and its first entry carries the key: a replay. The tool
\* rebuilds the summary also then.
CreateReplay(p) ==
    /\ pc[p] = "check"
    /\ X(p) \in present
    /\ Readable(X(p))
    /\ E(p).key # NoKey /\ entries[X(p)][1].key = E(p).key
    /\ req' = [req EXCEPT ![p].entry = entries[X(p)][1]]
    /\ Goto(p, "list")
    /\ UNCHANGED <<books, holder, todo, nextId, acked, faults>>

\* The file is there and malformed, or somebody else's.
CreateRefused(p) ==
    /\ pc[p] = "check"
    /\ X(p) \in present
    /\ ~(Readable(X(p)) /\ E(p).key # NoKey /\ entries[X(p)][1].key = E(p).key)
    /\ Return(p)
    /\ UNCHANGED <<books, holder, nextId, acked, faults>>

CreateMissing(p) ==
    /\ pc[p] = "check"
    /\ X(p) \notin present
    /\ Goto(p, "open")
    /\ UNCHANGED <<books, holder, req, todo, nextId, acked, faults>>

\* Mutant: mode "w", which empties a file that is already there.
OpenNewTruncates(p) ==
    /\ pc[p] = "open"
    /\ present' = present \cup {X(p)}
    /\ headed' = headed \ {X(p)}
    /\ entries' = [entries EXCEPT ![X(p)] = <<>>]
    /\ open' = open \ {X(p)}
    /\ Goto(p, "lockNew")
    /\ UNCHANGED <<holder, req, todo, nextId, acked, faults>>

\* open(path, "x"): an empty file, which nobody has locked yet.
OpenNew(p) ==
    /\ pc[p] = "open"
    /\ X(p) \notin present
    /\ present' = present \cup {X(p)}
    /\ Goto(p, "lockNew")
    /\ UNCHANGED <<headed, entries, open, holder, req, todo, nextId, acked, faults>>

\* FileExistsError: somebody was faster. No replay, whatever the key.
OpenExists(p) ==
    /\ pc[p] = "open"
    /\ X(p) \in present
    /\ Return(p)
    /\ UNCHANGED <<books, holder, nextId, acked, faults>>

WriteNew(p) ==
    /\ pc[p] \in {"newLocked", "newPart"}
    /\ headed' = headed \cup {X(p)}
    /\ entries' = [entries EXCEPT ![X(p)] = <<E(p)>>]
    /\ open' = open \ {X(p)}
    /\ Goto(p, "fsync")
    /\ UNCHANGED <<present, holder, req, todo, nextId, acked, faults>>

\* A part of the file is written that a reader can tell from an empty one: the
\* header, perhaps with an entry marker that is not closed.
WriteNewPart(p) ==
    /\ pc[p] = "newLocked"
    /\ torn < MaxTorn
    /\ torn' = torn + 1
    /\ headed' = headed \cup {X(p)}
    /\ open' \in {open, open \cup {X(p)}}
    /\ Goto(p, "newPart")
    /\ UNCHANGED <<present, entries, holder, req, todo, nextId, acked, crashes, errors>>

-----------------------------------------------------------------------------
(* append_experiment_entry                                                 *)

\* The path of an unknown experiment is refused before anything happens.
AppendEntry(p) ==
    \E x \in present, t \in Types, a \in Attempts \cup {NoAttempt}, k \in Keys \cup {NoKey} :
        /\ t = "attempt" => a # NoAttempt
        /\ \E s \in {"none"} \cup IF t = "experiment" THEN Updates ELSE {} : Call(p, x, t, s, a, k, "lock")

\* _locked_file: flock blocks while another process holds the file.
Acquire(p) ==
    /\ pc[p] \in {"lock", "lockNew"}
    /\ holder[X(p)] = NoProc
    /\ holder' = [holder EXCEPT ![X(p)] = p]
    /\ Goto(p, IF pc[p] = "lock" THEN "locked" ELSE "newLocked")
    /\ UNCHANGED <<books, req, todo, nextId, acked, faults>>

\* Mutant: a replay returns the entry that was not written.
AppendReplayOwn(p) ==
    /\ pc[p] = "locked"
    /\ Readable(X(p))
    /\ E(p).key # NoKey
    /\ Existing(X(p), E(p).key) # {}
    /\ Release(p)
    /\ Goto(p, "list")
    /\ UNCHANGED <<books, req, todo, nextId, acked, faults>>

\* The key is already in the notebook, on whatever entry.
AppendReplay(p) ==
    /\ pc[p] = "locked"
    /\ Readable(X(p))
    /\ E(p).key # NoKey
    /\ \E i \in Existing(X(p), E(p).key) :
        req' = [req EXCEPT ![p].entry = entries[X(p)][i]]
    /\ Release(p)
    /\ Goto(p, "list")
    /\ UNCHANGED <<books, todo, nextId, acked, faults>>

IsNew(x, e) == e.key = NoKey \/ Existing(x, e.key) = {}

\* The notebook does not parse, or the entry is not valid in it.
AppendRefused(p) ==
    /\ pc[p] = "locked"
    /\ Readable(X(p)) => IsNew(X(p), E(p)) /\ ~Valid(E(p), entries[X(p)])
    /\ Release(p)
    /\ Return(p)
    /\ UNCHANGED <<books, nextId, acked, faults>>

\* Mutant: the entry is not validated against those that are there.
AppendUnvalidated(p) ==
    /\ pc[p] = "locked"
    /\ Readable(X(p))
    /\ IsNew(X(p), E(p))
    /\ Goto(p, "write")
    /\ UNCHANGED <<books, holder, req, todo, nextId, acked, faults>>

AppendAccepted(p) ==
    /\ pc[p] = "locked"
    /\ Readable(X(p))
    /\ IsNew(X(p), E(p))
    /\ Valid(E(p), entries[X(p)])
    /\ Goto(p, "write")
    /\ UNCHANGED <<books, holder, req, todo, nextId, acked, faults>>

\* What closes a marker in x: after one that was left open, the pattern spans
\* both, and what is between the two ends is no JSON.
Closed(x, e) == Append(entries[x], IF x \in open THEN Broken ELSE e)

WriteEntry(p) ==
    /\ pc[p] = "write"
    /\ entries' = [entries EXCEPT ![X(p)] = Closed(X(p), E(p))]
    /\ open' = open \ {X(p)}
    /\ Goto(p, "fsync")
    /\ UNCHANGED <<present, headed, holder, req, todo, nextId, acked, faults>>

\* A part of the entry is written that a reader can tell from none or all of
\* it: the marker without its end. Where it stops inside a character the file
\* does not decode.
WritePart(p) ==
    /\ pc[p] = "write"
    /\ torn < MaxTorn
    /\ torn' = torn + 1
    /\ open' = open \cup {X(p)}
    /\ headed' \in {headed, headed \ {X(p)}}
    /\ Goto(p, IF X(p) \in open THEN "glued" ELSE "part")
    /\ UNCHANGED <<present, entries, holder, req, todo, nextId, acked, crashes, errors>>

\* The rest of it.
WriteRest(p) ==
    /\ pc[p] \in {"part", "glued"}
    /\ entries' = [entries EXCEPT ![X(p)] = Append(@, IF pc[p] = "part" THEN E(p) ELSE Broken)]
    /\ open' = open \ {X(p)}
    /\ headed' = headed \cup {X(p)}
    /\ Goto(p, "fsync")
    /\ UNCHANGED <<present, holder, req, todo, nextId, acked, faults>>

-----------------------------------------------------------------------------
(* The end of both.                                                        *)

InLock == {"newLocked", "newPart", "locked", "write", "part", "glued", "fsync"}

\* os.fsync returns and the lock is dropped.
Fsync(p) ==
    /\ pc[p] = "fsync"
    /\ Release(p)
    /\ Goto(p, "list")
    /\ UNCHANGED <<books, req, todo, nextId, acked, faults>>

\* The write, or fsync, raises.
WriteFails(p) ==
    /\ pc[p] \in InLock \ {"locked"}
    /\ errors < MaxErrors
    /\ errors' = errors + 1
    /\ Release(p)
    /\ Return(p)
    /\ UNCHANGED <<books, nextId, acked, crashes, torn>>

\* rebuild_project_summary: list_experiment_notebooks globs the directory ...
ListBooks(p) ==
    /\ pc[p] = "list"
    /\ todo' = [todo EXCEPT ![p] = present]
    /\ Goto(p, "parse")
    /\ UNCHANGED <<books, holder, req, nextId, acked, faults>>

\* ... and parses the files it found, one after the other.
ParseBook(p) ==
    /\ pc[p] = "parse"
    /\ \E x \in todo[p] :
        /\ Readable(x)
        /\ todo' = [todo EXCEPT ![p] = @ \ {x}]
    /\ UNCHANGED <<books, holder, pc, req, nextId, acked, faults>>

\* One of them is malformed: the caller gets an error, written or not.
RebuildFails(p) ==
    /\ pc[p] = "parse"
    /\ \E x \in todo[p] : ~Readable(x)
    /\ Return(p)
    /\ UNCHANGED <<books, holder, nextId, acked, faults>>

\* The summary is written and the tool answers with the entry.
Answer(p) ==
    /\ pc[p] = "parse"
    /\ todo[p] = {}
    /\ acked' = acked \cup {req[p]}
    /\ Return(p)
    /\ UNCHANGED <<books, holder, nextId, faults>>

\* Mutant: a lock file that outlives its process.
CrashKeepsLock(p) ==
    /\ pc[p] # "idle"
    /\ crashes < MaxCrashes
    /\ crashes' = crashes + 1
    /\ Return(p)
    /\ UNCHANGED <<books, holder, nextId, acked, torn, errors>>

\* The process dies: the kernel drops its flock, the files stay as they are.
Crash(p) ==
    /\ pc[p] # "idle"
    /\ crashes < MaxCrashes
    /\ crashes' = crashes + 1
    /\ holder' = [x \in Exps |-> IF holder[x] = p THEN NoProc ELSE holder[x]]
    /\ Return(p)
    /\ UNCHANGED <<books, nextId, acked, torn, errors>>

\* The steps a running process takes on its own.
Step(p) ==
    \/ CreateReplay(p) \/ CreateRefused(p) \/ CreateMissing(p)
    \/ OpenNew(p) \/ OpenExists(p) \/ Acquire(p) \/ WriteNew(p) \/ WriteNewPart(p)
    \/ AppendReplay(p) \/ AppendRefused(p) \/ AppendAccepted(p)
    \/ WriteEntry(p) \/ WritePart(p) \/ WriteRest(p) \/ Fsync(p)
    \/ ListBooks(p) \/ ParseBook(p) \/ RebuildFails(p) \/ Answer(p)

\* Every call has returned and no more are made.
Rest ==
    /\ nextId > MaxCalls
    /\ \A p \in Procs : pc[p] = "idle"
    /\ UNCHANGED vars

Next ==
    \/ \E p \in Procs :
        CreateExperiment(p) \/ AppendEntry(p) \/ Step(p) \/ WriteFails(p) \/ Crash(p)
    \/ Rest

Spec == Init /\ [][Next]_vars

\* The operating system keeps running a process that is not blocked.
FairSpec == Spec /\ \A p \in Procs : WF_vars(Step(p))

-----------------------------------------------------------------------------
(* Properties.                                                             *)

PCs == InLock \cup {"idle", "check", "open", "lockNew", "lock", "list", "parse"}

\* The type of every variable.
TypeOK ==
    /\ present \in SUBSET Exps
    /\ headed \in SUBSET Exps
    /\ entries \in [Exps -> Seq(Entry \cup {Broken})]
    /\ open \in SUBSET Exps
    /\ holder \in [Exps -> Procs \cup {NoProc}]
    /\ pc \in [Procs -> PCs]
    /\ req \in [Procs -> [exp : Exps, entry : Entry]]
    /\ todo \in [Procs -> SUBSET Exps]
    /\ nextId \in Nat
    /\ acked \in SUBSET [exp : Exps, entry : Entry]
    /\ crashes \in Nat /\ torn \in Nat /\ errors \in Nat

\* A notebook that has entries can be parsed, whatever servers append to it at
\* once and whichever of them die: no two entries get one key, no attempt is
\* started twice and none is referred to before it is there. Only a write that
\* stopped part-way can break it.
StaysReadable == torn = 0 => \A x \in Exps : entries[x] # <<>> => Readable(x)

\* What a caller was told of is what inspect shows from then on: the entry is
\* found under its attempt and its type, unless there are more entries than are
\* shown, its attempt is one of the experiment's, and an experiment that was closed
\* is not chosen for its directory until an entry opens it again.
AckedIsShown ==
    torn = 0 => \A r \in acked :
        LET e == r.entry
            es == entries[r.exp]
            current == [x \in {r.exp} |-> CurrentExperiment(es)]
        IN  /\ Len(es) <= MaxShown => \E i \in Shown(es, e.attempt, e.type, MaxShown) : es[i] = e
            /\ e.attempt # NoAttempt => e.attempt \in current[r.exp].attempts
            /\ /\ e.type = "experiment" /\ e.status \notin {"active", "none"}
               /\ \A i \in 1..Len(es) : es[i].status = "active" => \E j \in (i + 1)..Len(es) : es[j] = e
               => Selected(current, NoExp, {r.exp}, {r.exp}) = {}

\* Two callers that used the same key for one experiment were told of the same
\* entry, also when one of them is a retry after a crash or an error.
RetryReturnsSame ==
    torn = 0 => \A r, s \in acked :
        r.exp = s.exp /\ r.entry.key = s.entry.key /\ r.entry.key # NoKey => r = s

\* A call ends: no process waits forever for a lock, also not for that of a
\* process that died inside it.
CallsReturn == \A p \in Procs : pc[p] # "idle" ~> pc[p] = "idle"

\* Once every server is idle the project summary can be rebuilt: every notebook
\* of the project parses.
RebuildableAtRest ==
    (\A p \in Procs : pc[p] = "idle") => \A x \in present : Readable(x)

=============================================================================
