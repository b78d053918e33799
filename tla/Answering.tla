------------------------------ MODULE Answering ------------------------------
(***************************************************************************)
(* One request over the chunks that Indexing stores: a search              *)
(* (retrieval/router.py), a question answered at once (generation/         *)
(* service.py) or as a stream of events (generation/streaming.py), from    *)
(* the sub-queries to the sources it names.                                *)
(*                                                                         *)
(* Requests only read, so one of them stands for all.  What it waits for,  *)
(* the embeddings service, the database, the reranker and the language     *)
(* model, answers late, wrongly or not at all, and the chunks may change   *)
(* between any two of its statements.  The answers cached for a question   *)
(* are QueryCache's, quotas and metering are Access's.                     *)
(*                                                                         *)
(* Scores are integers: the score that one method gives to rank k is       *)
(* Unit \div (RRF_K + k), exact for every rank there is.                   *)
(***************************************************************************)
EXTENDS Indexing, Integers

CONSTANTS
  Requests,         \* the requests: [kind, query, mode, limit, offset, threshold, filter,
                    \* cites]; threshold 0 and filter {} stand for none
  Queries,          \* questions and the sub-queries of them
  Complex,          \* the questions for which needs_decomposition holds
  Replies,          \* Replies[q]: the lists of sub-queries the model may answer for q
  LongQueries,      \* those longer than SearchRequest.query may be
  Bm25,             \* Bm25[q][p]: BM25 score of passage p, 0 when it does not match
  Distance,         \* Distance[q][v]: cosine distance to vector v, in thousandths
  TermsIn,          \* TermsIn[q][p]: where the terms of q first occur in p: [at, len]
  HeaderTokens,     \* tokens of "[Source n] title"
  SeparatorTokens,
  Available,        \* Available[q]: context tokens left for the sources of q
  RRF_K, Unit,
  CandidateLimit,   \* CANDIDATE_LIMIT
  MaxSubQueries,    \* the five of decompose
  MaxConcurrent,    \* the semaphore of retrieve
  RerankTop,        \* top_k of rerank
  Window,           \* highlight_max_length
  MaxHighlights,    \* MAX_HIGHLIGHTS
  MaxTokens         \* bound: tokens of a streamed answer

ASSUME AnsweringAssumption ==
  /\ \A r \in Requests : /\ r.kind \in {"search", "ask", "stream"}
                         /\ r.mode \in {"hybrid", "bm25", "vector"}
  /\ \A r \in Requests : r.limit \in Nat \ {0} /\ r.offset \in Nat /\ r.threshold \in Nat
  /\ \A r \in Requests : r.kind # "search" => r.mode = "hybrid" /\ r.offset = 0
  /\ \A r \in Requests : r.query \in Queries
  /\ \A q \in Complex : \A s \in Replies[q] : s \in Seq(Queries) /\ Len(s) > 0
  /\ RRF_K \in Nat /\ Unit \in Nat \ {0}
  /\ \A k \in 1 .. CandidateLimit : Unit % (RRF_K + k) = 0
  /\ \A q \in Queries : Available[q] \in Nat
  /\ CandidateLimit \in Nat /\ MaxSubQueries \in Nat \ {0} /\ RerankTop \in Nat \ {0}
  /\ MaxConcurrent > 0
  /\ \A q \in Queries : \A p \in Passages :
       /\ TermsIn[q][p] \in Seq([at : Nat, len : Nat \ {0}])
       /\ \A i \in DOMAIN TermsIn[q][p] :
            TermsIn[q][p][i].at + TermsIn[q][p][i].len <= Measure[p].chars
  /\ HeaderTokens \in Nat /\ SeparatorTokens \in Nat
  /\ Window \in Nat /\ MaxHighlights \in Nat

VARIABLES
  pc,       \* how far the request is
  req,      \* the request
  mode,     \* the search mode, after a fallback
  queries,  \* sub_queries
  pending,  \* those not searched yet
  found,    \* the results of each
  hits,     \* the results, merged, then reranked
  total,    \* SearchResponse.total
  sources,  \* the sources in the context, then those of the response: [id, row, tokens],
            \* with the tokens of their content in the context
  marks,    \* the citations in the answer
  events,   \* what the client of a stream has received
  reply     \* how the request was answered

askVars == <<pc, req, mode, queries, pending, found, hits, total, sources, marks,
             events, reply>>

Over == {"answered", "empty", "error", "unavailable", "left"}

AskTypeOK ==
  /\ pc \in {"idle", "decompose", "search", "rerank", "assemble", "generate", "finish", "over"}
  /\ pc # "idle" => req \in Requests
  /\ pending \subseteq DOMAIN queries /\ DOMAIN found = DOMAIN queries
  /\ total \in Nat /\ marks \subseteq Nat
  /\ events \in Seq({"start", "sources", "token", "done", "error"})
  /\ reply \in Over \cup {"none"} /\ (pc = "over" <=> reply # "none")

AskInit ==
  /\ pc = "idle" /\ req = <<>> /\ mode = "hybrid" /\ queries = <<>> /\ pending = {}
  /\ found = <<>> /\ hits = <<>> /\ total = 0 /\ sources = <<>> /\ marks = {}
  /\ events = <<>> /\ reply = "none"

Streams == req.kind = "stream"

-----------------------------------------------------------------------------
(***************************************************************************)
(* The three searches: statements of retrieval/search.py.                  *)
(***************************************************************************)

\* ORDER BY: every order of S that agrees with Before; rows that tie come in any order.
Sorted(S, Before(_, _)) ==
  {o \in SetToSeqs(S) : \A j, k \in DOMAIN o : j < k => ~ Before(o[k], o[j])}

Limited(s, n) == SubSeq(s, 1, Min({n, Len(s)}))

\* build_filter_clauses: an empty list filters nothing.
Filtered(S) == {r \in S : req.filter = {} \/ r.doc \in req.filter}

\* A mutant forgets the filter in one of the two branches of the hybrid query.
KeywordOrdersUnfiltered(q, S) ==
  Sorted({r \in rows : Bm25[q][r.content] > 0},
         LAMBDA r, s : Bm25[q][r.content] > Bm25[q][s.content])

KeywordOrders(q, S) ==
  Sorted({r \in S : Bm25[q][r.content] > 0},
         LAMBDA r, s : Bm25[q][r.content] > Bm25[q][s.content])

VectorOrders(q, S) ==
  Sorted(S, LAMBDA r, s : Distance[q][r.vector] < Distance[q][s.vector])

Scored(o, Of(_)) == [k \in DOMAIN o |-> [row |-> o[k], score |-> Of(o[k])]]

\* 1.0 / (rrf_k + rank), nothing for a row that is not among the candidates.
RankScore(o, r) ==
  IF r \in Range(o) THEN Unit \div (RRF_K + (CHOOSE k \in DOMAIN o : o[k] = r)) ELSE 0

MaxScore == 2 * (Unit \div (RRF_K + 1))

\* Reciprocal rank fusion of the candidates of both methods.
Fused(kw, vec) ==
  LET Rrf(r) == RankScore(kw, r) + RankScore(vec, r)
  IN  {Scored(o, Rrf) : o \in Sorted(Range(kw) \cup Range(vec), LAMBDA r, s : Rrf(r) > Rrf(s))}

\* The LIMIT of either branch keeps the order of its window, though only one says ORDER BY.
HybridOrders(q, S) ==
  UNION {Fused(Limited(kw, CandidateLimit), Limited(vec, CandidateLimit)) :
           kw \in KeywordOrders(q, S), vec \in VectorOrders(q, S)}

\* Everything a search in mode m may list, before the page is cut out of it.
Ranked(q, m, S) ==
  CASE m = "hybrid" -> HybridOrders(q, S)
    [] m = "bm25"   -> {Scored(o, LAMBDA r : Bm25[q][r.content]) : o \in KeywordOrders(q, S)}
    [] m = "vector" -> {Scored(o, LAMBDA r : 1000 - Distance[q][r.vector]) :
                          o \in VectorOrders(q, S)}

Page(s) == SubSeq(s, req.offset + 1, Min({req.offset + req.limit, Len(s)}))

\* A mutant takes a full page for the last one.
TotalOfPage(page) == req.offset + Len(page)

Total(page) ==
  IF Len(page) = req.limit THEN req.offset + req.limit + 1 ELSE req.offset + Len(page)

\* The threshold of a question is not handed on to the searches of its sub-queries.
Threshold == IF req.kind = "search" THEN req.threshold ELSE 0

Relevant(page) == Picked(page, {k \in DOMAIN page : page[k].score >= Threshold})

-----------------------------------------------------------------------------
(***************************************************************************)
(* highlight_content: a window around the first occurrence of each term,   *)
(* unless it overlaps a window taken before.                               *)
(***************************************************************************)

\* A mutant compares the beginnings only.
OverlapsAtStart(w, taken) == \E v \in Range(taken) : w.from = v.from

Overlaps(w, taken) == \E v \in Range(taken) : w.from < v.to /\ w.to > v.from

Around(p, t) ==
  LET half == Window \div 2
  IN  [from |-> Max({t.at, half}) - half, to |-> Min({Measure[p].chars, t.at + t.len + half})]

Highlights ==
  [q \in Queries |-> [p \in Passages |->
     LET terms == TermsIn[q][p]
         taken[i \in 0 .. Len(terms)] ==
           IF i = 0 THEN <<>>
           ELSE IF \/ Len(taken[i - 1]) >= MaxHighlights
                   \/ Overlaps(Around(p, terms[i]), taken[i - 1])
                THEN taken[i - 1]
                ELSE Append(taken[i - 1], Around(p, terms[i]))
     IN  taken[Len(terms)]]]

WithHighlights(q, page) ==
  [k \in DOMAIN page |-> [row |-> page[k].row, score |-> page[k].score,
                          windows |-> Highlights[q][page[k].row.content]]]

-----------------------------------------------------------------------------
(***************************************************************************)
(* Receiving and searching.                                                *)
(***************************************************************************)

Ends(how) == pc' = "over" /\ reply' = how

Begin(r) ==
  /\ pc = "idle"
  /\ req' = r
  /\ mode' = r.mode
  /\ IF r.kind = "ask"
     THEN pc' = "decompose" /\ UNCHANGED <<queries, pending, found, events>>
     ELSE /\ pc' = "search"
          /\ queries' = <<r.query>>
          /\ pending' = {1}
          /\ found' = <<(<<>>)>>
          /\ events' = IF r.kind = "stream" THEN <<"start">> ELSE <<>>
  /\ UNCHANGED <<hits, total, sources, marks, reply>>

\* decompose: the model's list, cut to five, for a question that looks complex; the
\* question itself for any other and after any failure.
SubQueries(q) ==
  {<<q>>} \cup (IF q \in Complex THEN {Limited(s, MaxSubQueries) : s \in Replies[q]} ELSE {})

Decompose ==
  /\ pc = "decompose"
  /\ pc' = "search"
  /\ queries' \in SubQueries(req.query)
  /\ pending' = DOMAIN queries'
  /\ found' = [i \in DOMAIN queries' |-> <<>>]
  /\ UNCHANGED <<req, mode, hits, total, sources, marks, events, reply>>

\* What a statement reads, through its filter.  A stream searches after the middleware has
\* ended the transaction that carried its tenant: with row level security it sees nothing.
Visible == {Filtered(S) : S \in IF Streams THEN {rows, {}} ELSE {rows}}

\* The tasks enter the semaphore in the order of gather.
Running == {i \in pending : Cardinality({j \in pending : j < i}) < MaxConcurrent}

\* A sub-query, embedded, runs its statement; one at a time on the connection they share.
SearchOne(i) ==
  /\ pc = "search"
  /\ i \in Running
  /\ queries[i] \notin LongQueries
  /\ pending' = pending \ {i}
  /\ UNCHANGED <<pc, req, mode, queries, hits, sources, marks, events, reply>>
  /\ \E S \in Visible : \E order \in Ranked(queries[i], mode, S) :
       LET page == Page(order)
           list == IF Threshold = 0 THEN page ELSE Relevant(page)
       IN  /\ found' = [found EXCEPT ![i] = WithHighlights(queries[i], list)]
           /\ total' = IF Threshold = 0 THEN Total(page) ELSE req.offset + Len(list)

\* The embeddings service cannot be reached: /search falls back to BM25 (once, for BM25
\* embeds nothing); of a question only a refused connection is told apart.
Unreachable ==
  /\ pc = "search"
  /\ pending # {}
  /\ mode # "bm25"
  /\ CASE req.kind = "search" -> mode' = "bm25" /\ UNCHANGED <<pc, events, reply>>
       [] req.kind = "ask" ->
            /\ \E how \in {"unavailable", "error"} : Ends(how)
            /\ UNCHANGED <<mode, events>>
       [] req.kind = "stream" ->
            /\ Ends("error")
            /\ events' = Append(events, "error")
            /\ UNCHANGED mode
  /\ UNCHANGED <<req, queries, pending, found, hits, total, sources, marks>>

\* A mutant says that a stream is done after an error too.
AskFailsDone ==
  /\ \/ pc = "search" /\ pending # {}
     \/ pc = "generate"
  /\ Ends("error")
  /\ events' = IF Streams THEN events \o <<"error", "done">> ELSE events
  /\ UNCHANGED <<req, mode, queries, pending, found, hits, total, sources, marks>>

\* Any other exception: of a search, of the model or of a query that is too long.
AskFails ==
  /\ \/ pc = "search" /\ pending # {}
     \/ pc = "generate"
  /\ Ends("error")
  /\ events' = IF Streams THEN Append(events, "error") ELSE events
  /\ UNCHANGED <<req, mode, queries, pending, found, hits, total, sources, marks>>

-----------------------------------------------------------------------------
(***************************************************************************)
(* Merging: _merge_results.                                                *)
(***************************************************************************)

RowsIn(list) == {h.row : h \in Range(list)}

FoundRows == UNION {RowsIn(list) : list \in Range(found)}

\* The sub-queries that found r, and where in the results of one of them it is.
Voters(r) == {i \in DOMAIN found : r \in RowsIn(found[i])}

Place(i, r) == CHOOSE k \in DOMAIN found[i] : found[i][k].row = r

TotalScore(r) == MapThenSumSet(LAMBDA i : found[i][Place(i, r)].score, Voters(r))

SeenFirst(r, s) ==
  LET i == Min(Voters(r))
      j == Min(Voters(s))
  IN  i < j \/ (i = j /\ Place(i, r) < Place(i, s))

\* A mutant forgets reverse=True.
EarlierReversed(r, s) ==
  LET less == Cardinality(Voters(s)) - Cardinality(Voters(r)) IN
    \/ less > 0
    \/ less = 0 /\ TotalScore(r) < TotalScore(s)
    \/ less = 0 /\ TotalScore(r) = TotalScore(s) /\ SeenFirst(r, s)

\* Most sub-queries first, then the higher sum of scores; a stable sort.
Earlier(r, s) ==
  LET more == Cardinality(Voters(r)) - Cardinality(Voters(s)) IN
    \/ more > 0
    \/ more = 0 /\ TotalScore(r) > TotalScore(s)
    \/ more = 0 /\ TotalScore(r) = TotalScore(s) /\ SeenFirst(r, s)

\* Each chunk once, with the score it had in the first sub-query that found it.
FirstHit(r) == found[Min(Voters(r))][Place(Min(Voters(r)), r)]

\* A mutant waits for a search that finds something.
RespondFound ==
  /\ pc = "search"
  /\ pending = {}
  /\ req.kind = "search"
  /\ found[1] # <<>>
  /\ Ends("answered")
  /\ hits' = found[1]
  /\ UNCHANGED <<req, mode, queries, pending, found, total, sources, marks, events>>

\* A search is answered with what it found.
Respond ==
  /\ pc = "search"
  /\ pending = {}
  /\ req.kind = "search"
  /\ Ends("answered")
  /\ hits' = found[1]
  /\ UNCHANGED <<req, mode, queries, pending, found, total, sources, marks, events>>

\* All sub-queries are searched, and there is something to answer from.
Gather ==
  /\ pc = "search"
  /\ pending = {}
  /\ req.kind # "search"
  /\ FoundRows # {}
  /\ pc' = "rerank"
  /\ \E order \in Sorted(FoundRows, Earlier) :
       hits' = [k \in 1 .. Min({req.limit, Len(order)}) |-> FirstHit(order[k])]
  /\ UNCHANGED <<req, mode, queries, pending, found, total, sources, marks, events, reply>>

\* Nothing is found: the canned answer, of a stream the one token.
FindNothing ==
  /\ pc = "search"
  /\ pending = {}
  /\ req.kind # "search"
  /\ FoundRows = {}
  /\ IF Streams
     THEN pc' = "finish" /\ events' = Append(events, "token") /\ UNCHANGED reply
     ELSE Ends("empty") /\ UNCHANGED events
  /\ UNCHANGED <<req, mode, queries, pending, found, hits, total, sources, marks>>

-----------------------------------------------------------------------------
(***************************************************************************)
(* Reranking, the context, the answer.                                     *)
(***************************************************************************)

\* The best RerankTop of the passages, which the reranker orders as it likes.
Best(order) == [k \in 1 .. Min({RerankTop, Len(hits)}) |-> hits[order[k]]]

Rerank ==
  /\ pc = "rerank"
  /\ pc' = "assemble"
  /\ \E order \in SetToSeqs(DOMAIN hits) : hits' = Best(order)
  /\ UNCHANGED <<req, mode, queries, pending, found, total, sources, marks, events, reply>>

\* When it fails, the order of the search stays, and so do all results.
RerankFails ==
  /\ pc = "rerank"
  /\ pc' = "assemble"
  /\ UNCHANGED <<req, mode, queries, pending, found, hits, total, sources, marks, events,
                 reply>>

\* The tokens of the k-th source with what separates it from the one before.  A mutant
\* forgets the separator.
CostBare(k) == HeaderTokens + Measure[hits[k].row.content].tokens

Cost(k) ==
  HeaderTokens + Measure[hits[k].row.content].tokens + (IF k > 1 THEN SeparatorTokens ELSE 0)

UsedBy(n) == MapThenSumSet(Cost, 1 .. n)

\* How many results fit in whole.
Fitting == Max({0} \cup {n \in 1 .. Len(hits) : UsedBy(n) <= Available[req.query]})

\* _truncate_chunk: what is left for the content of the next one, when that is worth it.
Rest ==
  Available[req.query] - UsedBy(Fitting) - (IF Fitting > 0 THEN SeparatorTokens ELSE 0)

Truncates ==
  /\ Fitting < Len(hits)
  /\ Rest > 50
  /\ Rest - HeaderTokens > 10

\* The content is cut to the tokens left, and then gets "...".
Ellipsis == 1

\* The k-th result as a source, with t tokens of its content.
SourceOf(k, t) == [id |-> k, row |-> hits[k].row, tokens |-> t]

Assemble ==
  /\ pc = "assemble"
  /\ pc' = "generate"
  /\ UNCHANGED <<req, mode, queries, pending, found, hits, total, marks, reply>>
  /\ LET n == IF Truncates THEN Fitting + 1 ELSE Fitting
         Tokens(k) == IF k <= Fitting THEN Measure[hits[k].row.content].tokens
                      ELSE Rest - HeaderTokens + Ellipsis
     IN  sources' = [k \in 1 .. n |-> SourceOf(k, Tokens(k))]
  /\ events' = IF Streams THEN Append(events, "sources") ELSE events

Ids == {sources[k].id : k \in DOMAIN sources}

\* validate_citations.  A mutant leaves the invalid ones in the answer.
ValidMarksAll(cited) == cited

ValidMarks(cited) == cited \cap Ids

\* filter_used_sources
UsedSources(cited) == Picked(sources, {k \in DOMAIN sources : sources[k].id \in cited})

\* The model cites what it likes, a source that does not exist included.
Answers == SUBSET (1 .. Len(sources) + 1)

\* Without citations the answer and its sources stay as they are.
Generate ==
  /\ pc = "generate"
  /\ ~ Streams
  /\ \E cited \in Answers :
       IF req.cites
       THEN /\ marks' = ValidMarks(cited)
            /\ sources' = UsedSources(cited)
       ELSE /\ marks' = cited
            /\ UNCHANGED sources
  /\ Ends("answered")
  /\ UNCHANGED <<req, mode, queries, pending, found, hits, total, events>>

-----------------------------------------------------------------------------
(***************************************************************************)
(* Streaming.                                                              *)
(***************************************************************************)

StreamToken ==
  /\ pc = "generate"
  /\ Streams
  /\ Cardinality({k \in DOMAIN events : events[k] = "token"}) < MaxTokens
  /\ events' = Append(events, "token")
  /\ UNCHANGED <<pc, req, mode, queries, pending, found, hits, total, sources, marks, reply>>

StreamDone ==
  /\ \/ pc = "generate" /\ Streams
     \/ pc = "finish"
  /\ events' = Append(events, "done")
  /\ Ends(IF pc = "finish" THEN "empty" ELSE "answered")
  /\ UNCHANGED <<req, mode, queries, pending, found, hits, total, sources, marks>>

\* The client goes away, and the generator is closed at its next event.
Leave ==
  /\ pc \notin {"idle", "over"}
  /\ Streams
  /\ Ends("left")
  /\ UNCHANGED <<req, mode, queries, pending, found, hits, total, sources, marks, events>>

AskStep ==
  \/ Decompose
  \/ AskFails
  \/ Unreachable
  \/ \E i \in pending : SearchOne(i)
  \/ Respond
  \/ Gather
  \/ FindNothing
  \/ RerankFails
  \/ Rerank
  \/ Assemble
  \/ Generate
  \/ StreamToken
  \/ StreamDone

AskNext == AskStep \/ Leave \/ \E r \in Requests : Begin(r)

-----------------------------------------------------------------------------
(***************************************************************************)
(* Properties.                                                             *)
(***************************************************************************)

\* The citations left in an answer and the sources returned with it are the same, and no
\* two of them are the same chunk, in however many sub-queries it was found
\* (validate_citations, filter_used_sources, _merge_results).
CitationsResolve ==
  /\ \A j, k \in DOMAIN sources :
       j # k => sources[j].id # sources[k].id /\ sources[j].row # sources[k].row
  /\ (reply = "answered" /\ req.kind = "ask" /\ req.cites) => marks = Ids

\* A chunk that both methods rank first for every sub-query comes out of the merge first,
\* whatever the index did between the sub-queries (_merge_results over RRF scores).
ConsensusFirst ==
  (pc = "rerank" /\ req.kind = "ask") =>
     \A r \in FoundRows :
       (\A i \in DOMAIN found : i \in Voters(r) /\ found[i][Place(i, r)].score = MaxScore)
         => hits[1].row = r

\* The context, with the headers of its sources and what separates them, exceeds its
\* budget at most by the ellipsis of the source that was cut (ContextAssembler.assemble).
ContextBounded ==
  pc = "generate" =>
    MapThenSumSet(LAMBDA k : HeaderTokens + sources[k].tokens, DOMAIN sources)
      + SeparatorTokens * (Len(sources) - 1) <= Available[req.query] + Ellipsis

\* What the client of a stream receives: the start; the sources, once, before every
\* token of the model, or else the one token that says there are none; then either that
\* it is done or an error, and nothing after it (stream_query_response).
StreamGrammar ==
  LET n == Len(events)
      tokens == {k \in DOMAIN events : events[k] = "token"}
  IN  /\ \A k \in DOMAIN events :
           /\ events[k] = "start" <=> k = 1
           /\ events[k] = "sources" => k = 2
           /\ events[k] \in {"done", "error"} => k = n /\ pc = "over"
      /\ tokens # {} => \/ events[2] = "sources"
                        \/ tokens = {2} /\ n <= 3
      /\ (pc = "over" /\ Streams /\ reply # "left") => events[n] \in {"done", "error"}

\* The highlights of a result are at most three, lie within its content and do not
\* overlap (highlight_content).
HighlightsDisjoint ==
  \A list \in Range(found) : \A h \in Range(list) :
    /\ Len(h.windows) <= MaxHighlights
    /\ \A v \in Range(h.windows) : v.from < v.to /\ v.to <= Measure[h.row.content].chars
    /\ \A j, k \in DOMAIN h.windows :
         j < k => \/ h.windows[j].to <= h.windows[k].from
                  \/ h.windows[k].to <= h.windows[j].from

\* When the total of a search without a threshold says that nothing follows its page,
\* nothing does: all that it matches, or in a hybrid search the candidates that it looks
\* at for certain, has been paged through (the estimate of search.py).
NothingLeft ==
  \A i \in pending :
    LET match == {r \in Filtered(rows) : mode = "bm25" => Bm25[queries[i]][r.content] > 0}
        least == IF mode = "hybrid" THEN Min({Cardinality(match), CandidateLimit})
                 ELSE Cardinality(match)
    IN  (/\ req.kind = "search" /\ req.threshold = 0 /\ i \notin pending'
         /\ total' <= req.offset + req.limit)
          => least <= req.offset + req.limit

LastPageIsLast == [][NothingLeft]_askVars
=============================================================================
