----------------------------- MODULE Literature -----------------------------
(***************************************************************************)
(* The literature helpers at work: a search, a search that starts from the  *)
(* local corpus, the check of one identifier, the enrichment of DOIs and    *)
(* the snowball along citations, each over four providers that may fail;    *)
(* and what a reader does with a paper that was found.                      *)
(*                                                                         *)
(* One process asks one request at a time.  A request is tried again after *)
(* an error that may pass; a provider may answer with what cannot be read,  *)
(* or not know the paper.  Connectors live for one call of the adapter, and *)
(* so do their caches.                                                     *)
(***************************************************************************)
EXTENDS Papers

CONSTANTS Worlds,      \* what the providers hold
          Requests,    \* what the helpers are called with
          Offers,      \* full texts a host's adapter offers
          Locators, Claims, Verdicts,  \* of a reader
          MaxRetries,  \* attempts after the first
          MaxExpiries, MaxFaults, MaxMarks  \* bounds

Providers == {"openalex", "crossref", "arxiv", "semantic_scholar"}

ASSUME LiteratureBounds == {MaxRetries, MaxExpiries, MaxFaults, MaxMarks} \subseteq Nat

ASSUME NoneAssumption == None \notin Providers \cup Nat

\* Providers answer with lists: searches, and the neighbours of what they hold.
ASSUME WorldsAssumption ==
    \A w \in Worlds, p \in Providers :
        /\ IsSequence(w.found[p])
        /\ \A id \in DOMAIN w.held[p] :
              /\ p # "arxiv" => IsSequence(w.refs[p][id])
              /\ p \in {"openalex", "semantic_scholar"} => IsSequence(w.cites[p][id])

IsItem(item) ==
    /\ item.type \in {"note", "bibtex", "pdf", "doi"}
    /\ item.type # "note" => item.readable \in BOOLEAN
    /\ (item.type = "bibtex" /\ item.readable) => IsSequence(item.entries)

ASSUME RequestsAssumption ==
    \A r \in Requests :
        /\ r.kind = "corpus" => IsSequence(r.items) /\ \A i \in DOMAIN r.items : IsItem(r.items[i])
        /\ r.kind = "snowball" =>
              /\ IsSequence(r.directions)
              /\ {r.maxEdges, r.maxOperations, r.maxQueries} \subseteq Int

\* Normal forms are normal.
ASSUME SpellingIsNormal ==
    \A v \in DOMAIN Spelling : Spelling[v] \in DOMAIN Spelling
                                 /\ Spelling[Spelling[v]] = Spelling[v]

VARIABLES world,    \* what the providers hold
          order,    \* the connectors, in the order they are asked
          cache,    \* per connector, the replies it keeps
          op,       \* the operation that runs
          answer,   \* what the last one answered
          reading,  \* the paper a reader took from it
          expiries, faults, marks  \* counters for the bounds

litVars == <<world, order, cache, op, answer, reading, expiries, faults, marks>>

\* With a key Semantic Scholar comes first, without one last.
Orders == {<<"semantic_scholar", "openalex", "crossref", "arxiv">>,
           <<"openalex", "crossref", "arxiv", "semantic_scholar">>}

Nothing == [p \in Providers |-> {}]

LitInit ==
    /\ world \in Worlds /\ order \in Orders
    /\ cache = Nothing /\ op = None /\ answer = None /\ reading = None
    /\ expiries = 0 /\ faults = 0 /\ marks = 0

-----------------------------------------------------------------------------
(* One operation of one connector.                                         *)

Call(c, operation, id, limit, paper) ==
    [c |-> c, operation |-> operation, id |-> id, limit |-> limit, paper |-> paper,
     seed |-> FALSE, left |-> <<>>, got |-> <<>>, count |-> 1, attempts |-> 0, failed |-> FALSE]

\* No request runs.
NoCall == [c |-> None]

Graph == {"references", "citations"}

Unsupported(call) ==
    \/ call.c = "arxiv" /\ call.operation \in Graph
    \/ call.c = "crossref" /\ call.operation = "citations"

\* Crossref takes its references from the metadata it holds.
OfMetadata(call) ==
    call.operation = "metadata" \/ (call.c = "crossref" /\ call.operation = "references")

\* Crossref looks up DOIs and arXiv its own numbers; nothing else is asked.
Refused(call) ==
    /\ OfMetadata(call)
    /\ \/ call.c = "crossref" /\ call.id[1] # "doi"
       \/ call.c = "arxiv" /\ call.id[1] # "arxiv"

Key(call) == IF OfMetadata(call) THEN <<"meta", call.id>> ELSE <<"search", call.limit>>
Kept(call) == {e \in cache[call.c] : e.key = Key(call)}
Cached(call) == (call.operation = "search" \/ OfMetadata(call)) /\ Kept(call) # {}

\* References of Crossref, from a paper it found.
Shown(call, records) ==
    IF call.c = "crossref" /\ call.operation = "references" /\ records # <<>>
    THEN FirstOf(world.refs.crossref[call.id], call.limit) ELSE records

Result(call, status, records, count) ==
    [provider |-> call.c, operation |-> call.operation, paper |-> call.paper,
     status |-> status, records |-> records, count |-> count, failed |-> call.failed]

Found(call, records, count) ==
    Result(call, IF records = <<>> THEN "empty" ELSE "success", records, count)

\* What needs no request.
Immediate(call) == Unsupported(call) \/ Refused(call) \/ Cached(call)
AtOnce(call) ==
    IF Unsupported(call) THEN Result(call, "unsupported", <<>>, 0)
    ELSE IF Refused(call) THEN Found(call, <<>>, 0)
    ELSE Found(call, Shown(call, (CHOOSE e \in Kept(call) : TRUE).value), 0)

-----------------------------------------------------------------------------
(* The snowball's bookkeeping.                                             *)

Spent(o) == Queries(o.results, Graph)
OperationsUsed(o) == Len(o.results) >= o.req.maxOperations
QueriesUsed(o) == Spent(o) >= o.req.maxQueries
EdgesUsed(o) == Len(o.edges) >= o.req.maxEdges

\* OpenAlex asks for the seed and then for each reference, or for all
\* citations at once; None when what is left does not reach.
GraphLimit(call, requested, remaining) ==
    IF call.c # "openalex" THEN requested
    ELSE IF call.operation = "references"
         THEN (IF requested < remaining - 1 THEN requested ELSE remaining - 1)
    ELSE IF remaining < 2 THEN None ELSE requested

Edge(o, call, record) ==
    LET here == o.current.id  there == CanonicalId(record)
        cited == call.operation = "references"
    IN  [from |-> IF cited THEN here ELSE there, to |-> IF cited THEN there ELSE here,
         relation |-> IF cited THEN "references" ELSE "cites",
         provider |-> call.c, depth |-> o.current.depth + 1]

\* Mutant: a paper the frontier has no place for is left out in silence.
ReachSilently(call, o, record) ==
    LET id == CanonicalId(record)
        seen == [o EXCEPT !.edges = Append(@, Edge(o, call, record)),
                          !.observations = Append(@, record)]
        node == [record |-> record, id |-> id, depth |-> o.current.depth + 1]
    IN  IF EdgesUsed(o) THEN [o EXCEPT !.reasons = @ \cup {"edge_budget"}]
        ELSE IF id \in o.visited THEN seen
        ELSE [seen EXCEPT !.visited = @ \cup {id},
                          !.queue = IF Len(o.queue) < o.req.maxFrontier
                                    THEN Append(@, node) ELSE @]

\* A record becomes an edge and, the first time, a paper to go on from.
Reach(call, o, record) ==
    LET id == CanonicalId(record)
        new == id \notin o.visited
        room == Cardinality(o.visited) - 1 < o.req.maxPapers
        place == Len(o.queue) < o.req.maxFrontier
        seen == [o EXCEPT !.edges = Append(@, Edge(o, call, record)),
                          !.observations = Append(@, record)]
        node == [record |-> record, id |-> id, depth |-> o.current.depth + 1]
    IN  IF EdgesUsed(o) THEN [o EXCEPT !.reasons = @ \cup {"edge_budget"}]
        ELSE IF ~new THEN seen
        ELSE IF ~room THEN [seen EXCEPT !.reasons = @ \cup {"paper_budget"}]
        ELSE [seen EXCEPT !.visited = @ \cup {id},
                          !.queue = IF place THEN Append(@, node) ELSE @,
                          !.reasons = IF place THEN @ ELSE @ \cup {"frontier_budget"}]

\* The snowball is between two papers.
NoPaper == [depth |-> None]

ReachAll(call, o, records) ==
    LET upTo[n \in 0 .. Len(records)] ==
            IF n = 0 THEN o ELSE Reach(call, upTo[n - 1], records[n])
    IN  upTo[Len(records)]

LeaveNode(o) == [o EXCEPT !.current = NoPaper, !.todo = <<>>]

\* After a connector's turn in a direction: at the last direction of a
\* connector any budget ends the paper, before it the edges alone do.
Settled(o, c, asked) ==
    LET last == o.todo = <<>> \/ Head(o.todo).c # c
        used == OperationsUsed(o) \/ QueriesUsed(o) \/ EdgesUsed(o)
    IN  IF o.todo = <<>> \/ (last /\ used) \/ (asked /\ EdgesUsed(o)) THEN LeaveNode(o) ELSE o

-----------------------------------------------------------------------------
(* Requests, replies and failures.                                         *)

\* The operation goes on with a connector's result.
Took(o, call, result) ==
    LET next == [o EXCEPT !.results = Append(@, result), !.call = NoCall]
    IN  IF o.kind = "snowball"
        THEN Settled(ReachAll(call, next, result.records), call.c, TRUE)
        ELSE [next EXCEPT !.observations = @ \o result.records]

Start(o, call) ==
    IF Immediate(call) THEN Took(o, call, AtOnce(call)) ELSE [o EXCEPT !.call = call]

Asking == op # None /\ op.call # NoCall

\* OpenAlex walks its graph from the seed.
Walks(call) == call.c = "openalex" /\ call.operation \in Graph
AtSeed(call) == Walks(call) /\ ~call.seed
AtReference(call) == Walks(call) /\ call.seed /\ call.operation = "references"

\* A provider that does not hold the paper answers 404; arXiv with an empty
\* feed.
Accepted(call) ==
    CASE call.c = "openalex" -> call.id[1] \in IF Walks(call) THEN {"doi", "openalex"} ELSE {"doi"}
      [] call.c = "semantic_scholar" -> call.id[1] \in {"doi", "arxiv", "semantic_scholar"}
      [] OTHER -> TRUE

Known(call) ==
    (call.operation # "search" /\ call.c # "arxiv" /\ ~call.seed)
      => Accepted(call) /\ call.id \in DOMAIN world.held[call.c]

Reply(call) ==
    CASE call.operation = "search" -> FirstOf(world.found[call.c], call.limit)
      [] OfMetadata(call) -> IF call.id \in DOMAIN world.held[call.c]
                             THEN <<world.held[call.c][call.id]>> ELSE <<>>
      [] call.operation = "references" /\ call.c # "crossref" ->
            FirstOf(world.refs[call.c][call.id], call.limit)
      [] call.operation = "citations" -> FirstOf(world.cites[call.c][call.id], call.limit)

\* Lists are kept even when empty, papers only when there is one.
Keep(call, records) ==
    IF call.operation = "search" \/ (OfMetadata(call) /\ records # <<>>)
    THEN [cache EXCEPT ![call.c] = @ \cup {[key |-> Key(call), value |-> records]}] ELSE cache

Unmoved == UNCHANGED <<world, order, answer, reading, expiries, marks>>

Ends(call, result) == op' = Took(op, call, result)

\* The reply of a request comes.
Replied ==
    LET call == op.call
        walked == [call EXCEPT !.got = Append(@, Head(call.left)), !.left = Tail(@)]
    IN  /\ Asking /\ Known(call)
        /\ IF AtSeed(call)
           THEN LET on == [call EXCEPT !.seed = TRUE, !.left = Reply(call), !.attempts = 0,
                             !.count = @ + IF call.operation = "references"
                                           THEN Len(Reply(call)) ELSE 1]
                IN  IF call.operation = "references" /\ Reply(call) = <<>>
                    THEN Ends(on, Found(on, <<>>, on.count)) ELSE op' = [op EXCEPT !.call = on]
           ELSE IF AtReference(call)
           THEN IF walked.left = <<>> THEN Ends(walked, Found(walked, walked.got, walked.count))
                ELSE op' = [op EXCEPT !.call = [walked EXCEPT !.attempts = 0]]
           ELSE Ends(call, Found(call, Shown(call, Reply(call)), call.count))
        /\ cache' = Keep(call, Reply(call))
        /\ UNCHANGED faults /\ Unmoved

\* An error that may pass, with attempts left.
Retried ==
    /\ Asking /\ faults < MaxFaults /\ op.call.attempts < MaxRetries
    /\ faults' = faults + 1
    /\ op' = [op EXCEPT !.call.attempts = @ + 1]
    /\ UNCHANGED cache /\ Unmoved

\* The request failed: for good, or for the last time.  A reference that
\* could not be had is left out of OpenAlex's list; all else is an error.
Failure(call) ==
    LET rest == [call EXCEPT !.failed = TRUE, !.left = Tail(@), !.attempts = 0]
    IN  IF AtReference(call)
        THEN (IF rest.left = <<>> THEN Ends(rest, Found(rest, rest.got, rest.count))
              ELSE op' = [op EXCEPT !.call = rest])
        ELSE Ends(call, [Result(call, "error", <<>>, call.count) EXCEPT !.failed = TRUE])

\* A permanent error, or one time too many.
Failed ==
    /\ Asking /\ faults < MaxFaults
    /\ faults' = faults + 1 /\ Failure(op.call)
    /\ UNCHANGED cache /\ Unmoved

Unknown ==
    /\ Asking /\ ~Known(op.call) /\ Failure(op.call)
    /\ UNCHANGED <<cache, faults>> /\ Unmoved

\* What comes cannot be read.  OpenAlex's and arXiv's parsers make an empty
\* list of it, which is kept; the others, and OpenAlex on a single work of
\* its graph, an error that is not tried again.
Garbled ==
    LET call == op.call
        silent == call.c = "arxiv"
                  \/ (call.c = "openalex" /\ ~AtSeed(call) /\ ~AtReference(call))
    IN  /\ Asking /\ Known(call) /\ faults < MaxFaults
        /\ faults' = faults + 1
        /\ IF silent THEN Ends(call, [Found(call, <<>>, call.count) EXCEPT !.failed = TRUE])
                     ELSE Failure(call)
        /\ cache' = IF silent THEN Keep(call, <<>>) ELSE cache
        /\ Unmoved

\* A reply that was kept is too old by now.
Expire(p) ==
    /\ op # None /\ cache[p] # {} /\ expiries < MaxExpiries
    /\ expiries' = expiries + 1
    /\ \E e \in cache[p] : cache' = [cache EXCEPT ![p] = @ \ {e}]
    /\ UNCHANGED <<world, order, op, answer, reading, faults, marks>>

-----------------------------------------------------------------------------
(* The operations.                                                         *)

Searches(limit) == [i \in DOMAIN order |-> Call(order[i], "search", None, limit, None)]
Lookups(id) == [i \in DOMAIN order |-> Call(order[i], "metadata", id, None, None)]

\* The fields of r, and more.
With(r, more) ==
    [f \in DOMAIN r \cup DOMAIN more |-> IF f \in DOMAIN r THEN r[f] ELSE more[f]]

Started(kind, r, todo, observations) ==
    [kind |-> kind, req |-> r, call |-> NoCall, results |-> <<>>, todo |-> todo,
     observations |-> observations]

Begins(o) ==
    /\ op = None /\ answer = None /\ op' = o
    /\ cache' = Nothing
    /\ UNCHANGED <<world, order, answer, reading, expiries, faults, marks>>

Goes(o) ==
    /\ op' = o
    /\ UNCHANGED <<world, order, cache, answer, reading, expiries, faults, marks>>

Working(kind) == op # None /\ op.kind = kind /\ op.call = NoCall

\* Papers answers with the papers shown and those counted.
Answers(papers, all, extra) ==
    /\ answer' =
         With([kind |-> op.kind, req |-> op.req, results |-> op.results, papers |-> papers,
               status    |-> OperationStatus(op.results, papers),
               metrics   |-> Metrics(op.results, all, Len(op.observations)),
               providers |-> [p \in {op.results[i].provider : i \in DOMAIN op.results} |->
                                ProviderStatus(op.results, p)]], extra)
    /\ op' = None /\ cache' = Nothing
    /\ UNCHANGED <<world, order, reading, expiries, faults, marks>>

SearchPapers(r) == r.kind = "search" /\ Begins(Started("search", r, Searches(r.max), <<>>))
VerifyMetadata(r) == r.kind = "verify" /\ Begins(Started("verify", r, Lookups(r.id), <<>>))

AskNext ==
    /\ op # None /\ op.kind \in {"search", "verify", "enrich"} /\ op.call = NoCall
    /\ op.todo # <<>>
    /\ Goes(Start([op EXCEPT !.todo = Tail(@)], Head(op.todo)))

FinishSearch ==
    LET papers == Sorted(op.observations)
    IN  /\ Working("search") /\ op.todo = <<>>
        /\ Answers(FirstOf(papers, op.req.max), papers, <<>>)

\* With an expected citation the best match is compared field by field.
FinishVerify ==
    LET papers == MergePaperRecords(op.observations)
        expected == op.req.expected
        differ == IF expected = None \/ papers = <<>> THEN {}
                  ELSE Mismatches(expected, PaperForExpected(expected, papers))
    IN  /\ Working("verify") /\ op.todo = <<>>
        /\ Answers(papers, papers, [mismatches |-> differ])

\* The DOIs of a source bundle, one after the other.
EnrichSources(r) ==
    /\ r.kind = "enrich"
    /\ Begins(With(Started("enrich", r, <<>>, <<>>),
                   [left |-> r.dois, begun |-> FALSE, enriched |-> {}, failing |-> {}]))

NextSource ==
    /\ Working("enrich") /\ op.todo = <<>> /\ op.left # <<>>
    /\ IF ~op.begun
       THEN Goes([op EXCEPT !.begun = TRUE, !.todo = Lookups(Head(op.left))])
       ELSE LET found == MergePaperRecords(op.observations) # <<>>
            IN  Goes([op EXCEPT !.left = Tail(@), !.begun = FALSE, !.observations = <<>>,
                        !.enriched = IF found THEN @ \cup {Head(op.left)} ELSE @,
                        !.failing = IF found THEN @ ELSE @ \cup {Head(op.left)}])

FinishEnrich ==
    /\ Working("enrich") /\ op.left = <<>>
    /\ Answers(<<>>, <<>>, [enriched |-> op.enriched, failing |-> op.failing])

-----------------------------------------------------------------------------
(* The search that starts from the corpus.                                 *)

\* The identifiers of the local records, each once, are looked up first.
CorpusSearch(r) ==
    LET relevant == Relevant(CorpusRecords(r.items), r.query)
        asked == [i \in DOMAIN relevant |-> BestIdentifier(VerificationOrder(relevant)[i])]
        once == Picked(asked, {i \in DOMAIN asked :
                                 asked[i] # None /\ \A j \in 1 .. i - 1 : asked[j] # asked[i]})
    IN  /\ r.kind = "corpus"
        /\ Begins(With(Started("corpus", r, All([i \in DOMAIN once |-> Lookups(once[i])]),
                               relevant),
                       [phase |-> "metadata", local |-> <<>>, rounds |-> 0]))

CheckMetadata ==
    /\ Working("corpus") /\ op.phase = "metadata" /\ op.todo # <<>>
    /\ Queries(op.results, {"metadata"}) < op.req.budget
    /\ Goes(Start([op EXCEPT !.todo = Tail(@)], Head(op.todo)))

\* What the lookups made of the local records is screened once more.
KeepLocal ==
    LET local == Relevant(MergePaperRecords(op.observations), op.req.query)
    IN  /\ Working("corpus") /\ op.phase = "metadata"
        /\ op.todo = <<>> \/ Queries(op.results, {"metadata"}) >= op.req.budget
        /\ Goes([op EXCEPT !.phase = "rounds", !.todo = <<>>, !.local = local,
                           !.observations = Observations(local)])

Gap(o) ==
    LET papers == IF o.rounds = 0 THEN o.local ELSE MergePaperRecords(o.observations)
    IN  IF o.req.max > Len(papers) THEN o.req.max - Len(papers) ELSE 0

AtMost(a, b) == IF a < b THEN a ELSE b
AtLeast(a, b) == IF a > b THEN a ELSE b

\* Each round asks for more.
RoundLimit(o) ==
    AtMost(AtLeast(5, 4 * o.req.max),
           AtLeast(5 * (o.rounds + 1), Gap(o) * 2 ^ (o.rounds + 1)))

NextRound ==
    /\ Working("corpus") /\ op.phase = "rounds" /\ op.todo = <<>>
    /\ Gap(op) > 0 /\ op.rounds < op.req.maxRounds
    /\ Goes([op EXCEPT !.rounds = @ + 1, !.todo = Searches(RoundLimit(op))])

AskRound ==
    /\ Working("corpus") /\ op.phase = "rounds" /\ op.todo # <<>>
    /\ Goes(Start([op EXCEPT !.todo = Tail(@)], Head(op.todo)))

\* Mutant: the order is by the number of sources first.
FinishBySources ==
    LET papers == SortSeq(MergePaperRecords(op.observations),
                          LAMBDA p, q : Cardinality(Sources(p)) > Cardinality(Sources(q)))
    IN  /\ Working("corpus") /\ op.phase = "rounds" /\ op.todo = <<>>
        /\ Gap(op) = 0 \/ op.rounds = op.req.maxRounds
        /\ Answers(FirstOf(papers, op.req.max), papers, [local |-> op.local, rounds |-> op.rounds])

FinishCorpus ==
    LET papers == Sorted(op.observations)
    IN  /\ Working("corpus") /\ op.phase = "rounds" /\ op.todo = <<>>
        /\ Gap(op) = 0 \/ op.rounds = op.req.maxRounds
        /\ Answers(FirstOf(papers, op.req.max), papers, [local |-> op.local, rounds |-> op.rounds])

-----------------------------------------------------------------------------
(* The snowball.                                                           *)

\* Depth above one needs a mode that asks for it.
Allowed(r) ==
    /\ r.depth \in 1 .. 3 /\ (r.depth > 1 => r.mode # "focused")
    /\ \A n \in {r.maxPapers, r.maxEdges, r.maxOperations, r.maxQueries, r.maxFrontier} : n > 0
    /\ ToSet(r.directions) \subseteq {"references", "citations"}

Snowball(r) ==
    /\ r.kind = "snowball" /\ Allowed(r)
    /\ Begins(With(Started("snowball", r, <<>>, <<>>),
                   [queue |-> <<[record |-> r.seed, id |-> CanonicalId(r.seed), depth |-> 0]>>,
                    visited |-> {CanonicalId(r.seed)}, current |-> NoPaper, edges |-> <<>>,
                    reasons |-> {}]))

Turns(id, r, paper) ==
    All([j \in DOMAIN order |->
                   [i \in DOMAIN r.directions |-> Call(order[j], r.directions[i], id, r.perProvider, paper)]])

\* Mutant: a paper at the depth goes back into the queue.
NextPaperRequeued ==
    LET node == Head(op.queue)
        id == BestIdentifier(node.record)
    IN  /\ Working("snowball") /\ op.current = NoPaper /\ op.queue # <<>>
        /\ IF node.depth >= op.req.depth THEN Goes([op EXCEPT !.queue = Append(Tail(@), node)])
           ELSE IF id = None THEN Goes([op EXCEPT !.queue = Tail(@)])
           ELSE Goes([op EXCEPT !.queue = Tail(@), !.current = node,
                                !.todo = Turns(id, op.req, node.id)])

NextPaper ==
    LET node == Head(op.queue)
        popped == [op EXCEPT !.queue = Tail(@)]
        id == BestIdentifier(node.record)
    IN  /\ Working("snowball") /\ op.current = NoPaper /\ op.queue # <<>>
        /\ IF OperationsUsed(op) \/ QueriesUsed(op)
           THEN Goes([op EXCEPT !.queue = <<>>, !.reasons = @ \cup
                        IF OperationsUsed(op) THEN {"provider_operation_budget"}
                                              ELSE {"external_query_budget"}])
           ELSE IF node.depth >= op.req.depth \/ id = None \/ op.req.directions = <<>>
                THEN Goes(popped)
           ELSE Goes([popped EXCEPT !.current = node,
                                    !.todo = Turns(id, op.req, node.id)])

NextTurn ==
    LET call == Head(op.todo)
        limit == GraphLimit(call, call.limit, op.req.maxQueries - Spent(op))
        rest == [op EXCEPT !.todo = Tail(@)]
    IN  /\ Working("snowball") /\ op.current # NoPaper
        /\ IF OperationsUsed(op)
           THEN Goes(LeaveNode([op EXCEPT !.reasons = @ \cup {"provider_operation_budget"}]))
           ELSE IF QueriesUsed(op)
           THEN Goes(LeaveNode([op EXCEPT !.reasons = @ \cup {"external_query_budget"}]))
           ELSE IF limit = None
           THEN Goes(Settled([rest EXCEPT !.reasons = @ \cup {"external_query_budget"}],
                             call.c, FALSE))
           ELSE Goes(Start(rest, [call EXCEPT !.limit = limit]))

FinishSnowball ==
    LET all == Sorted(op.observations)
        reasons == op.reasons \cup IF Len(all) > op.req.maxPapers THEN {"paper_budget"} ELSE {}
    IN  /\ Working("snowball") /\ op.current = NoPaper /\ op.queue = <<>>
        /\ Answers(FirstOf(all, op.req.maxPapers), all,
                   [edges |-> op.edges, reasons |-> reasons, observations |-> op.observations])

-----------------------------------------------------------------------------
(* The reader.                                                             *)

TakePaper ==
    /\ answer # None /\ op = None /\ reading = None
    /\ \E i \in DOMAIN answer.papers, offers \in SUBSET Offers :
          reading' = [evidence   |-> answer.papers[i].evidence,
                      candidates |-> FullTextCandidates(answer.papers[i], offers),
                      file       |-> None]
    /\ UNCHANGED <<world, order, cache, op, answer, expiries, faults, marks>>

Marks(r) ==
    /\ marks < MaxMarks /\ marks' = marks + 1
    /\ reading' = r
    /\ UNCHANGED <<world, order, cache, op, answer, expiries, faults>>

\* A download, of what may be downloaded; what is no PDF is not written,
\* and a failure leaves everything as it was.
Acquire ==
    /\ reading # None
    /\ \E c \in Preferred({c \in reading.candidates : c.basis \in DownloadBases}) :
          Marks([reading EXCEPT !.file = IF c.pdf THEN c ELSE @])

Offer ==
    /\ reading # None /\ reading.candidates # {}
    /\ Marks([reading EXCEPT !.evidence = MarkAvailable(@)])

Inspect ==
    /\ reading # None /\ reading.evidence.text # "unavailable"
    /\ \E l \in Locators : Marks([reading EXCEPT !.evidence = MarkInspected(@, {l})])

Verify ==
    /\ reading # None /\ reading.evidence.text = "inspected"
    /\ \E c \in Claims, v \in Verdicts :
          Marks([reading EXCEPT !.evidence = MarkClaim(@, c, v)])

\* Nothing more need happen.
Answered == answer # None /\ op = None /\ UNCHANGED litVars

-----------------------------------------------------------------------------
Work ==
    \/ Replied \/ Retried \/ Failed \/ Unknown \/ Garbled
    \/ AskNext \/ FinishSearch \/ FinishVerify \/ NextSource \/ FinishEnrich
    \/ CheckMetadata \/ KeepLocal \/ NextRound \/ AskRound \/ FinishCorpus
    \/ NextPaper \/ NextTurn \/ FinishSnowball

LitNext ==
    \/ Work
    \/ \E p \in Providers : Expire(p)
    \/ \E r \in Requests : SearchPapers(r) \/ VerifyMetadata(r) \/ EnrichSources(r)
                           \/ CorpusSearch(r) \/ Snowball(r)
    \/ TakePaper \/ Acquire \/ Offer \/ Inspect \/ Verify
    \/ Answered

\* The helpers are one process whose requests all time out: it goes on.
\* Every step of Work changes op, and Work is enabled while an operation
\* runs (or the run would report a deadlock): this is weak fairness of
\* Work, in a form that TLC evaluates faster than WF_litVars(Work).
WorkGoesOn == []<>(op = None) \/ []<><<Work>>_litVars
LitSpec == LitInit /\ [][LitNext]_litVars /\ WorkGoesOn

-----------------------------------------------------------------------------
(* What must hold.                                                         *)

\* The papers of an answer are different papers: nothing that would have
\* been merged is left in two pieces.
PapersApart ==
    answer # None =>
      \A i, j \in DOMAIN answer.papers :
         i # j => ~Match(answer.papers[i].ids, answer.papers[j].ids)

\* What the corpus holds on the query comes first, and all of it, up to the
\* number that was asked for, however much the providers find.
LocalPapersKept ==
    (answer # None /\ answer.kind = "corpus" /\ Len(answer.local) <= answer.req.max) =>
      \A i \in DOMAIN answer.local : \E j \in DOMAIN answer.papers :
         \A k \in DOMAIN answer.local[i].obs : \E n \in DOMAIN answer.papers[j].obs :
            /\ answer.papers[j].obs[n].source = answer.local[i].obs[k].source
            /\ answer.papers[j].obs[n].ids = answer.local[i].obs[k].ids

\* What a snowball reached: the paper of each edge, and the one it hangs on.
Child(e) == IF e.relation = "references" THEN e.to ELSE e.from
FirstReached(edges, i) == \A j \in 1 .. i - 1 : Child(edges[j]) # Child(edges[i])

\* Every provider was asked for the neighbours of every paper above the
\* depth, unless a budget cut something or was used up to the last.
UncutIsComplete ==
    LET edges == answer.edges
        asked(id) == {<<answer.results[i].provider, answer.results[i].operation>> :
                        i \in {i \in DOMAIN answer.results : answer.results[i].paper = id}}
        all == Providers \X ToSet(answer.req.directions)
    IN  (/\ answer # None /\ answer.kind = "snowball" /\ answer.reasons = {}
         /\ Len(edges) < answer.req.maxEdges
         /\ Len(answer.results) < answer.req.maxOperations
         /\ answer.metrics.graph < answer.req.maxQueries)
        => /\ BestIdentifier(answer.req.seed) # None
                => all \subseteq asked(CanonicalId(answer.req.seed))
           /\ \A i \in DOMAIN edges :
                 (/\ FirstReached(edges, i) /\ edges[i].depth < answer.req.depth
                  /\ Child(edges[i]) # CanonicalId(answer.req.seed)
                  /\ BestIdentifier(answer.observations[i]) # None)
                 => all \subseteq asked(Child(edges[i]))

\* An operation that began answers.
CallsAnswer == (op # None) ~> (answer # None)

\* A paper that counts as cross-checked has one DOI.
CrossCheckedAgrees ==
    answer # None =>
      \A i \in DOMAIN answer.papers : answer.papers[i].evidence.metadata = "cross_checked" =>
         Cardinality({Identifiers(o).doi : o \in ToSet(answer.papers[i].obs)} \ {None}) <= 1

\* A provider's result is empty when the provider has nothing, and not when
\* a request failed.
EmptyMeansNone ==
    answer # None =>
      \A i \in DOMAIN answer.results : answer.results[i].status = "empty" => ~answer.results[i].failed
=============================================================================
