---------------------------- MODULE MCLiterature ----------------------------
(* Three papers that cite each other in a circle, and one whose preprint    *)
(* has a DOI of its own.                                                    *)
EXTENDS TLC, Literature

MCSpelling == [x \in {"DA", "DB", "DC", "DP", "XP", "XC"} |-> x]
              @@ ("https://doi.org/DA" :> "DA" @@ "XPv2" :> "XP")

MCScore == {"a", "A!"} :> 97 @@ {"a", "b"} :> 20 @@ {"a", "c"} :> 20 @@ {"b", "c"} :> 20
           @@ {"A!", "b"} :> 20 @@ {"A!", "c"} :> 20

Lee == [last |-> "Lee", initial |-> "A"]
Li == [last |-> "Li", initial |-> None]

Record(source, ids, title, author, year, openPdf) ==
    [source |-> source, ids |-> ids, title |-> title, author |-> author, year |-> year,
     rank |-> 0, file |-> FALSE, verified |-> FALSE, openPdf |-> openPdf, barred |-> FALSE]

oaA == Record("openalex", [doi |-> "DA", openalex |-> "WA"], "a", Lee, 2020, TRUE)
crA == Record("crossref", [doi |-> "https://doi.org/DA"], "A!", Lee, 2021, FALSE)
s2A == Record("semantic_scholar", [doi |-> "DA", semantic_scholar |-> "SA"], "a", Li, 2020, FALSE)
oaB == Record("openalex", [doi |-> "DB", openalex |-> "WB"], "b", Li, 2018, FALSE)
crB == Record("crossref", [doi |-> "DB"], "b", None, None, FALSE)
noB == Record("crossref", [doi |-> "garbage"], "b", Li, 2018, FALSE)
oaC == Record("openalex", [openalex |-> "WC", arxiv |-> "XC"], "c", Lee, 2019, FALSE)
axC == Record("arxiv", [arxiv |-> "XC"], "c", Lee, 2019, TRUE)
onlyC == Record("openalex", [openalex |-> "WC"], "c", Lee, 2019, FALSE)
\* The preprint, the published paper, and a record that knows of both.
axP == Record("arxiv", [arxiv |-> "XPv2", doi |-> "DP"], "a", Lee, 2020, TRUE)
oaP == Record("openalex", [doi |-> "DA", openalex |-> "WA", pmid |-> "P"], "a", Lee, 2020, FALSE)
s2P == Record("semantic_scholar", [semantic_scholar |-> "SA", arxiv |-> "XP", pmid |-> "P"],
              "a", Lee, 2020, FALSE)

DA == <<"doi", "DA">>
DB == <<"doi", "DB">>
None4 == [p \in Providers |-> <<>>]

Circle ==
    [found |-> [openalex |-> <<oaA, oaB, oaC>>, crossref |-> <<crA, noB, crB>>, arxiv |-> <<axC>>,
                semantic_scholar |-> <<s2A>>],
     held  |-> [openalex |-> (DA :> oaA @@ DB :> oaB @@ <<"openalex", "WC">> :> oaC),
                crossref |-> (DA :> crA @@ DB :> crB),
                arxiv |-> <<>>, semantic_scholar |-> (DA :> s2A)],
     refs  |-> [openalex |-> (DA :> <<oaB, oaC>> @@ DB :> <<oaA, onlyC>>
                              @@ <<"openalex", "WC">> :> <<oaA>>),
                crossref |-> (DA :> <<crB, noB>> @@ DB :> <<>>),
                arxiv |-> <<>>, semantic_scholar |-> (DA :> <<>>)],
     cites |-> [openalex |-> (DA :> <<oaC>> @@ DB :> <<oaA>> @@ <<"openalex", "WC">> :> <<>>),
                crossref |-> <<>>, arxiv |-> <<>>, semantic_scholar |-> (DA :> <<s2A>>)]]

Preprint ==
    [found |-> [openalex |-> <<oaP>>, crossref |-> <<crA>>, arxiv |-> <<axP>>,
                semantic_scholar |-> <<s2P>>],
     held  |-> [openalex |-> (DA :> oaP), crossref |-> (DA :> crA),
                arxiv |-> (<<"arxiv", "XP">> :> axP),
                semantic_scholar |-> (<<"arxiv", "XP">> :> s2P)],
     refs  |-> [openalex |-> (DA :> <<>>), crossref |-> (DA :> <<>>), arxiv |-> <<>>,
                semantic_scholar |-> (<<"arxiv", "XP">> :> <<>>)],
     cites |-> [openalex |-> (DA :> <<>>), crossref |-> <<>>, arxiv |-> <<>>,
                semantic_scholar |-> (<<"arxiv", "XP">> :> <<>>)]]

MCWorlds == {Circle, Preprint}

Local(source, ids, title) == [Record(source, ids, title, None, None, FALSE) EXCEPT !.rank = 0]
Pdf(ids, title, valid) ==
    [Local("local_pdf", ids, title) EXCEPT !.file = TRUE, !.verified = valid]
Bibtex == [type |-> "bibtex", readable |-> TRUE,
           entries |-> <<[form |-> "comment"], [form |-> "garbled"],
                         [form |-> "entry", record |-> Local("local_bibtex", [arxiv |-> "XP"], "a")],
                         [form |-> "unterminated"],
                         [form |-> "entry", record |-> Local("local_bibtex", [doi |-> "DC"], "c")]>>]
Items == <<Bibtex, [type |-> "note"], [type |-> "doi", readable |-> FALSE],
           [type |-> "pdf", readable |-> TRUE, record |-> Pdf([doi |-> "DB"], "a", TRUE)],
           [type |-> "doi", readable |-> TRUE, record |-> Local("local_doi", [doi |-> "DA"], None)]>>
Corpus(max, budget, rounds) ==
    [kind |-> "corpus", items |-> Items, query |-> {"a", "A!"}, max |-> max, budget |-> budget,
     maxRounds |-> rounds]

Ball(depth, directions, edges, operations, queries, frontier, papers) ==
    [kind |-> "snowball", seed |-> Record("openalex", [doi |-> "DA"], None, None, None, FALSE),
     depth |-> depth, mode |-> IF depth = 1 THEN "focused" ELSE "method_lineage",
     directions |-> directions, perProvider |-> 2, maxEdges |-> edges,
     maxOperations |-> operations, maxQueries |-> queries, maxFrontier |-> frontier,
     maxPapers |-> papers]
Both == <<"references", "citations">>
MCRequests == {
    [kind |-> "search", max |-> 1], [kind |-> "search", max |-> 3],
    [kind |-> "verify", id |-> DA,
     expected |-> [ids |-> [arxiv |-> "XP"], title |-> "a", author |-> Li, year |-> 2023]],
    [kind |-> "enrich", dois |-> <<DA, <<"doi", "DC">>, DA>>],
    Corpus(1, 1, 2), Corpus(2, 3, 2), Corpus(3, 8, 1),
    Ball(1, Both, 20, 20, 20, 5, 5), Ball(2, Both, 20, 30, 30, 5, 5), Ball(3, Both, 9, 30, 30, 5, 5),
    Ball(2, Both, 20, 30, 30, 1, 5), Ball(2, Both, 20, 30, 30, 5, 1),
    Ball(2, <<"references">>, 20, 3, 20, 5, 5),
    Ball(2, Both, 20, 30, 4, 5, 5), Ball(2, Both, 20, 30, 2, 5, 5)}

MCOffers == {[place |-> "library", basis |-> "institutional_entitlement", pdf |-> FALSE, barred |-> FALSE]}
=============================================================================
