------------------------------- MODULE Papers -------------------------------
(***************************************************************************)
(* What the literature helpers compute of records: the identity of a       *)
(* paper, the merge of what several providers say of it, the evidence      *)
(* state, and the answer of an operation.                                  *)
(*                                                                         *)
(* A record is what one provider or one local file says of one paper.      *)
(* Its identifiers are as written; Spelling is what normalising makes of   *)
(* them.  Titles are values with a similarity in percent, authors a last   *)
(* name with an initial.                                                   *)
(***************************************************************************)
EXTENDS Integers, FiniteSets, SequencesExt

CONSTANTS None,      \* an absent value
          Spelling,  \* the normal form of each DOI and arXiv number as written
          Score      \* the similarity of two different titles, in percent

-----------------------------------------------------------------------------
(* Sequences.                                                              *)

IsSequence(s) == s \in Seq(ToSet(s))

\* The sequences at S, one after the other.
Joined(seqs, S) ==
    LET upTo[n \in 0 .. Len(seqs)] ==
            IF n = 0 THEN <<>>
            ELSE IF n \in S THEN upTo[n - 1] \o seqs[n] ELSE upTo[n - 1]
    IN  upTo[Len(seqs)]

All(seqs) == Joined(seqs, DOMAIN seqs)

\* The elements at S.
Picked(seq, S) == Joined([i \in DOMAIN seq |-> <<seq[i]>>], S)
FirstOf(seq, n) == Picked(seq, {i \in DOMAIN seq : i <= n})

Greatest(S) == IF S = {} THEN -1 ELSE CHOOSE x \in S : \A y \in S : x >= y
Least(S) == CHOOSE x \in S : \A y \in S : x <= y

-----------------------------------------------------------------------------
(* Identity.                                                               *)

\* From the strongest; "pmid" stands for both PubMed numbers.
IdKeys == <<"doi", "arxiv", "openalex", "semantic_scholar", "pmid">>
IdNames == ToSet(IdKeys)

\* What is no DOI or arXiv number is dropped; provider numbers are kept.
Identifiers(record) ==
    [k \in IdNames |->
       IF k \notin DOMAIN record.ids THEN None
       ELSE IF k \in {"openalex", "semantic_scholar", "pmid"} THEN record.ids[k]
       ELSE IF record.ids[k] \in DOMAIN Spelling THEN Spelling[record.ids[k]]
       ELSE None]

Held(ids) == SelectSeq(IdKeys, LAMBDA k : ids[k] # None)

CanonicalId(record) ==
    LET ids == Identifiers(record)
    IN  IF Held(ids) # <<>> THEN <<Held(ids)[1], ids[Held(ids)[1]]>>
        ELSE <<"title", record.title, record.author, record.year>>

\* The one a provider is asked by, when there is one.
BestIdentifier(record) ==
    LET ids == Identifiers(record)
        usable == SelectSeq(<<"doi", "openalex", "semantic_scholar", "arxiv">>,
                            LAMBDA k : ids[k] # None)
    IN  IF usable = <<>> THEN None ELSE <<usable[1], ids[usable[1]]>>

\* Two DOIs or two arXiv numbers that differ keep records apart, whatever
\* else they share; without that one shared identifier is enough.  A title
\* never is.
Apart(a, b) == \E k \in {"doi", "arxiv"} : None \notin {a[k], b[k]} /\ a[k] # b[k]
Match(a, b) == ~Apart(a, b) /\ \E k \in IdNames : a[k] # None /\ a[k] = b[k]

Similarity(t, u) == IF t = u THEN 100 ELSE Score[{t, u}]

Confidence(l, r) ==
    LET a == Identifiers(l)  b == Identifiers(r)
    IN  IF Match(a, b) THEN 100
        ELSE IF Apart(a, b) \/ None \in {l.title, r.title} THEN 0
        ELSE Similarity(l.title, r.title)

AuthorsCompatible(a, b) ==
    /\ a.last = b.last
    /\ None \in {a.initial, b.initial} \/ a.initial = b.initial

YearsCompatible(y, z) == y - z \in -1 .. 1

-----------------------------------------------------------------------------
(* The merge.                                                              *)

Priority == [crossref |-> 100, local_bibtex |-> 95, local_doi |-> 92, local_pdf |-> 90,
             openalex |-> 80, semantic_scholar |-> 70, arxiv |-> 60]

Fields == {"title", "author", "year"}

Agree(field, current, incoming) ==
    CASE field = "title"  -> Similarity(current, incoming) >= 96
      [] field = "year"   -> YearsCompatible(current, incoming)
      [] field = "author" -> AuthorsCompatible(current, incoming)

\* A field goes to the source of the highest priority; a disagreement with
\* what was selected so far is a conflict.
MergeObservation(said, o) ==
    LET fields == {f \in Fields : o[f] # None}
        better(f) == \/ said[f] = None
                     \/ Priority[o.source] > Greatest({Priority[s] : s \in said.sources[f]})
        chosen(f) == IF f \in fields /\ better(f) THEN o[f] ELSE said[f]
    IN  [said EXCEPT
           !.conflicts = @ \cup {f \in fields : said[f] # None /\ ~Agree(f, said[f], o[f])},
           !.sources = [f \in Fields |-> @[f] \cup IF f \in fields THEN {o.source} ELSE {}],
           !.title = chosen("title"), !.author = chosen("author"), !.year = chosen("year")]

Unsaid == [title |-> None, author |-> None, year |-> None,
           conflicts |-> {}, sources |-> [f \in Fields |-> {}]]

\* The first identifier of a kind stays.
IdsOf(obs) ==
    [k \in IdNames |->
       LET known == {i \in DOMAIN obs : Identifiers(obs[i])[k] # None}
       IN  IF known = {} THEN None ELSE Identifiers(obs[Least(known)])[k]]

Matching(groups, o) == {i \in DOMAIN groups : Match(IdsOf(groups[i]), Identifiers(o))}

\* Mutant: of several papers that match, only the first takes the record.
AddToFirst(groups, o) ==
    IF Matching(groups, o) = {} THEN Append(groups, <<o>>)
    ELSE [groups EXCEPT ![Least(Matching(groups, o))] = Append(@, o)]

\* The papers a record matches become one, in the place of the first.
AddRecord(groups, o) ==
    LET found == Matching(groups, o)
        merged == Append(Joined(groups, found), o)
    IN  IF found = {} THEN Append(groups, <<o>>)
        ELSE Picked([groups EXCEPT ![Least(found)] = merged],
                    (DOMAIN groups \ found) \cup {Least(found)})

HasIdentity(record) == record.title # None \/ Held(Identifiers(record)) # <<>>

\* A text is there: a local file with a valid header, or an open PDF.
TextAvailable(obs) == \E i \in DOMAIN obs : obs[i].verified \/ obs[i].openPdf

Sources(paper) == {paper.obs[i].source : i \in DOMAIN paper.obs}

InitialEvidence(conflicts, obs) ==
    [metadata |-> IF conflicts # {} THEN "conflicted"
                  ELSE IF Cardinality({obs[i].source : i \in DOMAIN obs}) >= 2
                       THEN "cross_checked" ELSE "discovered",
     text |-> IF TextAvailable(obs) THEN "available" ELSE "unavailable",
     locators |-> {}, verdicts |-> {}, claims |-> "unverified"]

\* The paper of what was observed of it, in this order.
Paper(obs) ==
    LET said == FoldLeft(MergeObservation, Unsaid, obs)
        ids == IdsOf(obs)
    IN  [id |-> IF ids.doi # None THEN <<"doi", ids.doi>>
                ELSE IF ids.arxiv # None THEN <<"arxiv", ids.arxiv>> ELSE CanonicalId(obs[1]),
         obs |-> obs, ids |-> ids,
         title |-> said.title, author |-> said.author, year |-> said.year,
         conflicts |-> said.conflicts, evidence |-> InitialEvidence(said.conflicts, obs)]

\* Record by record; an observation is ranked by its place in the list.
Groups(records) ==
    LET upTo[n \in 0 .. Len(records)] ==
            IF n = 0 THEN <<>>
            ELSE IF HasIdentity(records[n])
                 THEN AddRecord(upTo[n - 1], [records[n] EXCEPT !.rank = n]) ELSE upTo[n - 1]
    IN  upTo[Len(records)]

MergePaperRecords(records) ==
    LET groups == Groups(records) IN [i \in DOMAIN groups |-> Paper(groups[i])]

BestRank(paper) == Least({paper.obs[i].rank : i \in DOMAIN paper.obs})

\* The papers by their best ranks.
Sorted(records) ==
    LET papers == MergePaperRecords(records)
        ranked(n) == {i \in DOMAIN papers : BestRank(papers[i]) = n}
    IN  All([n \in DOMAIN records |-> Picked(papers, ranked(n))])

Observations(papers) == All([i \in DOMAIN papers |-> papers[i].obs])

-----------------------------------------------------------------------------
(* The local corpus.                                                       *)

\* A query is the set of titles that share enough words with it.  What has
\* no words at all but an identifier or a file is kept, to be looked up.
Relevant(records, query) ==
    LET kept(r) == IF r.title = None /\ r.author = None
                   THEN Held(Identifiers(r)) # <<>> \/ r.file ELSE r.title \in query
    IN  Picked(records, {i \in DOMAIN records : kept(records[i])})

\* The entries of a BibTeX file up to one that never ends; comments are
\* no entries, and an entry that cannot be split is an issue.
BeforeCut(entries) ==
    LET cuts == {i \in DOMAIN entries : entries[i].form = "unterminated"}
    IN  IF cuts = {} THEN entries ELSE FirstOf(entries, Least(cuts) - 1)

Entries(item) ==
    LET whole == BeforeCut(item.entries)
    IN  Picked(whole, {i \in DOMAIN whole : whole[i].form = "entry"})

BibtexIssues(item) ==
    (IF BeforeCut(item.entries) # item.entries THEN {"bibtex_unterminated_entry"} ELSE {})
    \cup {"bibtex_parse_error" : e \in {e \in ToSet(BeforeCut(item.entries)) : e.form = "garbled"}}

\* A PDF is one record whatever its header says, a label that repeats the
\* DOI is no title, and a missing file is an issue.
Ingest(item) ==
    CASE item.type = "note" -> [records |-> <<>>, issues |-> {}, status |-> "ignored"]
      [] item.type # "note" /\ ~item.readable ->
            [records |-> <<>>, issues |-> {"corpus_source_error"}, status |-> "error"]
      [] item.type = "bibtex" /\ item.readable ->
            [records |-> [i \in DOMAIN Entries(item) |-> Entries(item)[i].record],
             issues  |-> BibtexIssues(item),
             status  |-> IF Entries(item) = <<>> THEN "empty" ELSE "success"]
      [] item.type = "pdf" /\ item.readable ->
            [records |-> <<item.record>>,
             issues  |-> IF item.record.verified THEN {} ELSE {"invalid_pdf_header"},
             status  |-> IF item.record.verified THEN "success" ELSE "partial"]
      [] item.type = "doi" /\ item.readable ->
            [records |-> <<item.record>>, issues |-> {}, status |-> "success"]

CorpusRecords(items) == All([i \in DOMAIN items |-> Ingest(items[i]).records])

\* Records without a title first, PDF files before the rest.
VerificationOrder(records) ==
    LET key(r) == (IF r.title = None \/ r.source = "local_doi" THEN 0 ELSE 2)
                  + (IF r.source = "local_pdf" THEN 0 ELSE 1)
        group(n) == SelectSeq(records, LAMBDA r : key(r) = n)
    IN  group(0) \o group(1) \o group(2) \o group(3)

-----------------------------------------------------------------------------
(* Answers.                                                                *)

OperationStatus(results, papers) ==
    LET errors == {i \in DOMAIN results : results[i].status = "error"}
        good == {i \in DOMAIN results : results[i].status = "success"}
    IN  IF papers # <<>> /\ errors # {} THEN "partial"
        ELSE IF papers # <<>> \/ good # {} THEN "success"
        ELSE IF errors # {} /\ errors = DOMAIN results THEN "error"
        ELSE "empty"

\* The queries a list of results cost, by the operations counted.
Queries(results, operations) ==
    LET upTo[n \in 0 .. Len(results)] ==
            IF n = 0 THEN 0
            ELSE upTo[n - 1] + IF results[n].operation \in operations THEN results[n].count ELSE 0
    IN  upTo[Len(results)]

Metrics(results, papers, observations) ==
    [external   |-> Queries(results, {"search", "metadata", "references", "citations"}),
     metadata   |-> Queries(results, {"metadata"}),
     search     |-> Queries(results, {"search"}),
     graph      |-> Queries(results, {"references", "citations"}),
     operations |-> Len(results),
     unique     |-> Len(papers),
     duplicates |-> IF observations > Len(papers) THEN observations - Len(papers) ELSE 0,
     crossChecked |-> Cardinality({i \in DOMAIN papers :
                                     papers[i].evidence.metadata = "cross_checked"})]

\* What one provider did over all its operations.
ProviderStatus(results, provider) ==
    LET seen == {results[i].status : i \in {i \in DOMAIN results :
                                              results[i].provider = provider}}
    IN  IF {"success", "error"} \subseteq seen THEN "partial"
        ELSE IF "success" \in seen THEN "success"
        ELSE IF "error" \in seen THEN "error"
        ELSE IF seen = {"unsupported"} THEN "unsupported" ELSE "empty"

\* The paper an expected citation is compared with, and how it differs.
PaperForExpected(expected, papers) ==
    LET sure(i) == Confidence(expected, papers[i])
    IN  papers[Least({i \in DOMAIN papers : \A j \in DOMAIN papers : sure(i) >= sure(j)})]

Mismatches(expected, paper) ==
    {f \in Fields :
       /\ expected[f] # None
       /\ \/ paper[f] = None
          \/ CASE f = "title"  -> Similarity(expected.title, paper.title) < 90
               [] f = "year"   -> ~YearsCompatible(expected.year, paper.year)
               [] f = "author" -> ~AuthorsCompatible(expected.author, paper.author)}

-----------------------------------------------------------------------------
(* Full text and evidence.                                                 *)

DownloadBases == {"open_access", "institutional_entitlement", "publisher_api"}
BasisOrder == [user_provided |-> 0, open_access |-> 1, publisher_api |-> 2,
               institutional_entitlement |-> 3]

\* The places a text may be had from: the user's files, open locations of
\* sources that are not barred, and what the host's adapter offers under an
\* entitlement; the same place under the same basis counts once.
FullTextCandidates(paper, offers) ==
    {[place |-> paper.obs[i].source, basis |-> "user_provided", pdf |-> TRUE] :
        i \in {i \in DOMAIN paper.obs : paper.obs[i].file /\ paper.obs[i].verified}}
    \cup {[place |-> paper.obs[i].source, basis |-> "open_access", pdf |-> TRUE] :
            i \in {i \in DOMAIN paper.obs : paper.obs[i].openPdf /\ ~paper.obs[i].barred}}
    \cup {[place |-> o.place, basis |-> o.basis, pdf |-> o.pdf] :
            o \in {o \in offers : ~o.barred /\ o.basis \in {"institutional_entitlement",
                                                            "publisher_api"}}}

\* The first of them to try.
Preferred(candidates) ==
    LET rank(c) == 2 * BasisOrder[c.basis] + IF c.pdf THEN 0 ELSE 1
    IN  {c \in candidates : \A d \in candidates : rank(c) <= rank(d)}

MarkAvailable(e) == [e EXCEPT !.text = IF @ = "unavailable" THEN "available" ELSE @]
MarkInspected(e, locators) == [e EXCEPT !.text = "inspected", !.locators = @ \cup locators]

MarkClaim(e, claim, verdict) ==
    LET verdicts == e.verdicts \cup {<<claim, verdict>>}
    IN  [e EXCEPT !.verdicts = verdicts,
                  !.claims = IF \A v \in verdicts : v[2] = "verified" THEN "verified"
                             ELSE "partially_verified"]

=============================================================================
