------------------------- MODULE KnowledgeBaseProofs -------------------------
(***************************************************************************)
(* Proofs about KnowledgeBase, for every set of files, of passages and of  *)
(* requests and every limit of theirs, with the table rewritten between    *)
(* any two statements of a request.                                        *)
(*                                                                         *)
(*   Received     what the client of a stream has received, by how far     *)
(*                its request is;                                          *)
(*   Grounded     every list of a request is one of rows that were in the  *)
(*                table at some moment of it and pass its filter (Good),   *)
(*                each row once from the merge on (Merged);                *)
(*   Queried      a request searches for its own questions, and what is    *)
(*                marked in its results are places apart in their content; *)
(*   Budgeted     the sources in the context, their headers and what       *)
(*                separates them fit its budget, but for the ellipsis;     *)
(*   FoundRanked  what a question found has reciprocal ranks, the highest  *)
(*                of them at most once in each list.                       *)
(*                                                                         *)
(* Sums and the windows of a passage are recursive functions; what holds   *)
(* of their values follows from the least counterexample (Smallest,        *)
(* StaysIn).                                                               *)
(***************************************************************************)
EXTENDS KnowledgeBase, IndexingProofs

\* A step of the whole is a step of the jobs and uploads, or leaves the index alone.
LEMMA IndexMoves == [Next]_kbVars => [IndexNext]_indexVars
BY DEF Next, kbVars, IndexWork, Managed, AskWork, ClientGoes, ClientComes, IndexNext

\* The knowledge base with its requests implements the specification of the index alone.
THEOREM ImplementsIndexing == Spec => IndexSpec
<1>1. Init => IndexInit
  BY DEF Init
<1>. QED BY <1>1, IndexMoves, PTL DEF Spec, IndexSpec

-----------------------------------------------------------------------------
(***************************************************************************)
(* The events of a stream.                                                 *)
(***************************************************************************)

LEMMA AskMoves == [Next]_kbVars => [AskNext]_askVars
BY DEF Next, kbVars, IndexWork, Managed, AskWork, ClientGoes, ClientComes, AskNext

Event == {"start", "sources", "token", "done", "error"}

\* A stream that goes on: the start, then the sources and tokens, or the one token that
\* says there are none.
Opened(e) ==
  /\ e \in Seq(Event) /\ Len(e) > 0
  /\ \A k \in 1 .. Len(e) : /\ e[k] \notin {"done", "error"}
                            /\ e[k] = "start" <=> k = 1
                            /\ e[k] = "sources" => k = 2
  /\ Len(e) > 1 /\ e[2] # "sources" => Len(e) = 2

\* A stream that has come to its end.
Closed(e) == \E o, x : Opened(o) /\ x \in {"done", "error"} /\ e = Append(o, x)

Received ==
  /\ pc \in {"idle", "decompose", "search", "rerank", "assemble", "generate", "finish", "over"}
  /\ pc # "idle" => req.kind \in {"search", "ask", "stream"}
  /\ (pc = "idle" \/ ~ Streams) => events = <<>>
  /\ pc = "finish" => Streams
  /\ pc = "decompose" => ~ Streams
  /\ (Streams /\ pc \in {"search", "rerank", "assemble"}) => events = <<"start">>
  /\ (Streams /\ pc = "generate") => Opened(events) /\ Len(events) > 1 /\ events[2] = "sources"
  /\ pc = "finish" => Opened(events)
  /\ (Streams /\ pc = "over") => Closed(events) \/ (Opened(events) /\ reply = "left")

LEMMA StartOpens == Opened(<<"start">>)
<1>1. /\ <<"start">> \in Seq(Event) /\ Len(<<"start">>) = 1 /\ <<"start">>[1] = "start"
  BY DEF Event
<1>. QED BY <1>1 DEF Opened

\* What may follow the start.
LEMMA OpenedBy ==
  ASSUME NEW x \in {"sources", "token"}
  PROVE  /\ Opened(Append(<<"start">>, x))
         /\ Len(Append(<<"start">>, x)) = 2
         /\ Append(<<"start">>, x)[2] = x
<1>1. <<"start">> \in Seq(Event) /\ Len(<<"start">>) = 1 /\ <<"start">>[1] = "start" /\ x \in Event
  BY DEF Event
<1> DEFINE e == Append(<<"start">>, x)
<1>2. e \in Seq(Event) /\ Len(e) = 2 /\ e[1] = "start" /\ e[2] = x
  BY <1>1, AppendProperties
<1> HIDE DEF e
<1>. QED BY <1>2 DEF Opened, e

LEMMA TokenKeepsOpen ==
  ASSUME NEW e, Opened(e), Len(e) > 1, e[2] = "sources"
  PROVE  /\ Opened(Append(e, "token"))
         /\ Len(Append(e, "token")) > 1
         /\ Append(e, "token")[2] = "sources"
<1>1. e \in Seq(Event) /\ "token" \in Event /\ Len(e) \in Nat
  BY LenProperties DEF Opened, Event
<1> DEFINE f == Append(e, "token")
<1>2. /\ f \in Seq(Event) /\ Len(f) = Len(e) + 1 /\ f[Len(e) + 1] = "token"
      /\ \A i \in 1 .. Len(e) : f[i] = e[i]
  BY <1>1, AppendProperties
<1> HIDE DEF f
<1>. QED BY <1>1, <1>2 DEF Opened, f

LEMMA ReceivedStep ==
  ASSUME Received, [AskNext]_askVars
  PROVE  Received'
<1> USE DEF Received, Streams
<1>1. CASE UNCHANGED askVars
  BY <1>1 DEF askVars
<1>2. ASSUME NEW r \in Requests, Begin(r) PROVE Received'
  BY <1>2, AnsweringAssumption DEF Begin
<1>3. CASE Decompose
  BY <1>3 DEF Decompose
<1>4. CASE AskFails \/ Unreachable
  <2>1. pc \in {"search", "generate"} /\ req' = req
    BY <1>4 DEF AskFails, Unreachable
  <2>2. CASE Streams /\ pc' = "over" /\ events' = Append(events, "error")
    <3>1. Opened(events)
      BY <2>1, <2>2, StartOpens
    <3>2. Closed(events')
      BY <2>2, <3>1 DEF Closed
    <3>. QED BY <2>1, <2>2, <3>2
  <2>3. CASE ~ Streams /\ pc' \in {"search", "over"} /\ events' = events
    BY <2>1, <2>3
  <2>4. CASE AskFails
    BY <2>2, <2>3, <2>4 DEF AskFails, Ends
  <2>5. CASE Unreachable
    <3>1. req.kind \in {"search", "ask", "stream"}
      BY <2>1
    <3>. QED BY <2>2, <2>3, <2>5, <3>1 DEF Unreachable, Ends
  <2>. QED BY <1>4, <2>4, <2>5
<1>5. ASSUME NEW i \in pending, SearchOne(i) PROVE Received'
  BY <1>5 DEF SearchOne
<1>6. CASE Respond \/ Gather
  BY <1>6 DEF Respond, Gather, Ends
<1>7. CASE FindNothing
  <2>1. Streams => Opened(Append(<<"start">>, "token"))
    BY OpenedBy
  <2>. QED BY <1>7, <2>1 DEF FindNothing, Ends
<1>8. CASE Rerank \/ RerankFails
  BY <1>8 DEF Rerank, RerankFails
<1>9. CASE Assemble
  <2>1. /\ pc = "assemble" /\ pc' = "generate" /\ req' = req
        /\ events' = IF Streams THEN Append(events, "sources") ELSE events
    BY <1>9 DEF Assemble
  <2>2. /\ Opened(Append(<<"start">>, "sources"))
        /\ Len(Append(<<"start">>, "sources")) = 2
        /\ Append(<<"start">>, "sources")[2] = "sources"
    BY OpenedBy
  <2>. QED BY <2>1, <2>2
<1>10. CASE Generate
  BY <1>10 DEF Generate, Ends
<1>11. CASE StreamToken
  BY <1>11, TokenKeepsOpen DEF StreamToken
<1>12. CASE StreamDone
  <2>1. Streams /\ Opened(events) /\ pc' = "over" /\ req' = req /\ events' = Append(events, "done")
    BY <1>12 DEF StreamDone, Ends
  <2>2. Closed(events')
    BY <2>1 DEF Closed
  <2>. QED BY <2>1, <2>2
<1>13. CASE Leave
  <2>1. pc \notin {"idle", "over", "decompose"} /\ Streams /\ pc' = "over" /\ reply' = "left"
        /\ req' = req /\ events' = events
    BY <1>13 DEF Leave, Ends
  <2>2. Opened(events)
    BY <2>1, StartOpens
  <2>. QED BY <2>1, <2>2
<1>. QED
  BY <1>1, <1>2, <1>3, <1>4, <1>5, <1>6, <1>7, <1>8, <1>9, <1>10, <1>11, <1>12, <1>13
     DEF AskNext, AskStep

LEMMA ReceivedHolds == Spec => []Received
<1>1. Init => Received
  BY DEF Init, AskInit, Received
<1>2. Received /\ [Next]_kbVars => Received'
  BY AskMoves, ReceivedStep
<1>. QED BY <1>1, <1>2, PTL DEF Spec

\* The parts of StreamGrammar.
LEMMA GrammarOfOpened ==
  ASSUME Opened(events), pc # "over" \/ reply = "left"
  PROVE  StreamGrammar
<1>1. DOMAIN events = 1 .. Len(events) /\ Len(events) \in Nat
  BY LenProperties DEF Opened
<1>2. \A k \in DOMAIN events : events[k] = "token" =>
        events[2] = "sources" \/ (k = 2 /\ Len(events) = 2)
  BY <1>1 DEF Opened
<1>. QED BY <1>1, <1>2 DEF Opened, StreamGrammar

LEMMA GrammarOfClosed ==
  ASSUME Closed(events), pc = "over"
  PROVE  StreamGrammar
<1>1. PICK o, x : Opened(o) /\ x \in {"done", "error"} /\ events = Append(o, x)
  BY DEF Closed
<1>2. o \in Seq(Event) /\ x \in Event /\ Len(o) \in Nat
  BY <1>1, LenProperties DEF Opened, Event
<1>3. /\ Len(events) = Len(o) + 1 /\ DOMAIN events = 1 .. Len(o) + 1
      /\ events[Len(o) + 1] = x
      /\ \A k \in 1 .. Len(o) : events[k] = o[k]
  BY <1>1, <1>2, AppendProperties, LenProperties
<1>4. \A k \in DOMAIN events : events[k] = "token" =>
        events[2] = "sources" \/ (k = 2 /\ Len(events) = 3)
  BY <1>1, <1>2, <1>3 DEF Opened
<1>5. \A k \in DOMAIN events :
        /\ events[k] = "start" <=> k = 1
        /\ events[k] = "sources" => k = 2
        /\ events[k] \in {"done", "error"} => k = Len(events)
  BY <1>1, <1>2, <1>3 DEF Opened
<1>6. events[Len(events)] \in {"done", "error"}
  BY <1>1, <1>3
<1>. QED BY <1>3, <1>4, <1>5, <1>6 DEF StreamGrammar

\* What the client of a stream receives begins with the start, has the sources before
\* every token of the model, and ends, once, with done or an error.
THEOREM StreamsAreWellFormed == Spec => []StreamGrammar
<1>1. Received => StreamGrammar
  <2> SUFFICES ASSUME Received PROVE StreamGrammar
    OBVIOUS
  <2>1. CASE events = <<>> /\ (pc = "idle" \/ ~ Streams)
    <3>1. DOMAIN events = {}
      BY <2>1
    <3>. QED BY <2>1, <3>1 DEF StreamGrammar
  <2>2. CASE Opened(events) /\ (pc # "over" \/ reply = "left")
    BY <2>2, GrammarOfOpened
  <2>3. CASE Closed(events) /\ pc = "over"
    BY <2>3, GrammarOfClosed
  <2>. QED BY <2>1, <2>2, <2>3, StartOpens DEF Received
<1>. QED BY <1>1, ReceivedHolds, PTL

-----------------------------------------------------------------------------
(***************************************************************************)
(* What a statement lists.                                                 *)
(***************************************************************************)

ListOf(o, S) == IsList(o) /\ \A k \in DOMAIN o : o[k] \in S

HitsOf(list, S) == IsList(list) /\ \A k \in DOMAIN list : list[k].row \in S

LEMMA ListDomain ==
  ASSUME NEW s, IsList(s)
  PROVE  DOMAIN s = 1 .. Len(s) /\ Len(s) \in Nat
BY LenProperties DEF IsList

\* Cutting a list at both ends.
LEMMA CutFacts ==
  ASSUME NEW s, IsList(s), NEW m \in Nat, NEW n \in Nat, n <= Len(s)
  PROVE  LET cut == SubSeq(s, m + 1, n)
         IN  /\ IsList(cut) /\ Len(cut) = IF m < n THEN n - m ELSE 0
             /\ \A k \in 1 .. Len(cut) : m + k \in DOMAIN s /\ cut[k] = s[m + k]
<1> DEFINE S == {s[i] : i \in DOMAIN s}
           cut == SubSeq(s, m + 1, n)
<1>1. DOMAIN s = 1 .. Len(s) /\ Len(s) \in Nat
  BY ListDomain
<1>2. \A i \in m + 1 .. n : s[i] \in S
  BY <1>1
<1> HIDE DEF S
<1>3. /\ cut \in Seq(S)
      /\ Len(cut) = IF m + 1 <= n THEN n - (m + 1) + 1 ELSE 0
      /\ \A k \in 1 .. n - (m + 1) + 1 : cut[k] = s[m + 1 + k - 1]
  BY <1>2, SubSeqProperties
<1> HIDE DEF cut
<1>4. Len(cut) = IF m < n THEN n - m ELSE 0
  BY <1>3
<1>5. \A k \in 1 .. Len(cut) : m + k \in DOMAIN s /\ cut[k] = s[m + k]
  <2> TAKE k \in 1 .. Len(cut)
  <2>1. m < n /\ k \in 1 .. n - m
    BY <1>4
  <2>2. k \in 1 .. n - (m + 1) + 1 /\ m + 1 + k - 1 = m + k /\ m + k \in 1 .. Len(s)
    BY <1>1, <2>1
  <2>. QED BY <1>1, <1>3, <2>2
<1>6. IsList(cut)
  <2>1. DOMAIN cut = 1 .. Len(cut) /\ Len(cut) \in Nat
        /\ cut = [k \in 1 .. Len(cut) |-> cut[k]]
    BY <1>3, LenProperties
  <2>. QED BY <2>1, FunctionIsList
<1>. QED BY <1>4, <1>5, <1>6 DEF cut

LEMMA SmallerOf ==
  ASSUME NEW x \in Nat, NEW y \in Nat
  PROVE  Min({x, y}) = IF x <= y THEN x ELSE y
<1>1. \E z \in {x, y} : \A w \in {x, y} : z =< w
  OBVIOUS
<1>2. Min({x, y}) \in {x, y} /\ \A w \in {x, y} : Min({x, y}) =< w
  BY <1>1 DEF Min
<1>. QED BY <1>2

LEMMA LimitedFacts ==
  ASSUME NEW s, IsList(s), NEW n \in Nat
  PROVE  /\ IsList(Limited(s, n)) /\ Len(Limited(s, n)) = IF n <= Len(s) THEN n ELSE Len(s)
         /\ \A k \in 1 .. Len(Limited(s, n)) : k \in DOMAIN s /\ Limited(s, n)[k] = s[k]
<1>1. Len(s) \in Nat
  BY ListDomain
<1> DEFINE m == Min({n, Len(s)})
<1>2. m = IF n <= Len(s) THEN n ELSE Len(s)
  BY <1>1, SmallerOf
<1>3. m \in Nat /\ m <= Len(s) /\ 0 \in Nat
  BY <1>1, <1>2
<1> DEFINE cut == SubSeq(s, 0 + 1, m)
<1> HIDE DEF m
<1>4. /\ IsList(cut) /\ Len(cut) = IF 0 < m THEN m - 0 ELSE 0
      /\ \A k \in 1 .. Len(cut) : 0 + k \in DOMAIN s /\ cut[k] = s[0 + k]
  BY <1>3, CutFacts
<1>5. cut = Limited(s, n)
  BY DEF Limited, m
<1> HIDE DEF cut
<1>6. Len(cut) = m /\ Len(cut) \in Nat
  BY <1>3, <1>4
<1>7. \A k \in 1 .. Len(cut) : 0 + k = k
  BY <1>6
<1>. QED BY <1>2, <1>4, <1>5, <1>6, <1>7

\* Every order of some rows.
LEMMA OrderOf ==
  ASSUME NEW S, IsFiniteSet(S), NEW o \in SetToSeqs(S)
  PROVE  /\ ListOf(o, S) /\ Len(o) = Cardinality(S) /\ Cardinality(S) \in Nat
         /\ \A j, k \in DOMAIN o : j # k => o[j] # o[k]
         /\ Range(o) = S
<1>1. /\ IsList(o) /\ Len(o) = Cardinality(S) /\ Cardinality(S) \in Nat
      /\ \A k \in 1 .. Len(o) : o[k] \in S
      /\ \A j, k \in 1 .. Len(o) : j # k => o[j] # o[k]
      /\ \A x \in S : \E k \in 1 .. Len(o) : o[k] = x
  BY OrderFacts
<1>2. DOMAIN o = 1 .. Len(o)
  BY <1>1, ListDomain
<1>. QED BY <1>1, <1>2 DEF ListOf, Range

Matching(q, S) == {r \in S : Bm25[q][r.content] > 0}

LEMMA KeywordOrdersFacts ==
  ASSUME NEW q, NEW S, IsFiniteSet(S), NEW o \in KeywordOrders(q, S)
  PROVE  ListOf(o, S) /\ Len(o) = Cardinality(Matching(q, S))
<1> DEFINE M == Matching(q, S)
<1>1. o \in SetToSeqs(M)
  BY DEF KeywordOrders, Sorted, Matching
<1>2. IsFiniteSet(M) /\ M \subseteq S
  BY FS_Subset DEF Matching
<1> HIDE DEF M
<1>3. ListOf(o, M) /\ Len(o) = Cardinality(M)
  BY <1>1, <1>2, OrderOf
<1>. QED BY <1>2, <1>3 DEF ListOf, M

LEMMA VectorOrdersFacts ==
  ASSUME NEW q, NEW S, IsFiniteSet(S), NEW o \in VectorOrders(q, S)
  PROVE  ListOf(o, S) /\ Len(o) = Cardinality(S)
         /\ \A j, k \in DOMAIN o : j # k => o[j] # o[k]
<1>1. o \in SetToSeqs(S)
  BY DEF VectorOrders, Sorted
<1>. QED BY <1>1, OrderOf

\* A list of rows with their scores.
LEMMA ScoredFacts ==
  ASSUME NEW S, NEW o, ListOf(o, S),
         NEW h, DOMAIN h = DOMAIN o, h = [k \in DOMAIN o |-> h[k]],
         \A k \in DOMAIN o : h[k].row = o[k]
  PROVE  HitsOf(h, S) /\ Len(h) = Len(o)
<1>1. DOMAIN o = 1 .. Len(o) /\ Len(o) \in Nat
  BY ListDomain DEF ListOf
<1>2. IsList(h) /\ Len(h) = Len(o)
  BY <1>1, FunctionIsList
<1>. QED BY <1>2 DEF HitsOf, ListOf

\* The fusion of both methods lists rows of both, those of the vectors at least.
LEMMA FusedFacts ==
  ASSUME NEW S, IsFiniteSet(S), NEW kw, NEW vec, ListOf(kw, S), ListOf(vec, S),
         \A j, k \in DOMAIN vec : j # k => vec[j] # vec[k], NEW h \in Fused(kw, vec)
  PROVE  HitsOf(h, S) /\ Len(h) >= Len(vec) /\ Len(h) \in Nat
<1> DEFINE T == Range(kw) \cup Range(vec)
<1>1. T \subseteq S
  BY DEF Range, ListOf
<1>2. IsFiniteSet(T) /\ IsFiniteSet(Range(vec))
  <2>1. Range(vec) \subseteq T
    OBVIOUS
  <2> HIDE DEF T
  <2>. QED BY <1>1, <2>1, FS_Subset
<1>3. PICK o \in SetToSeqs(T) :
        h = [k \in DOMAIN o |->
               [row |-> o[k], score |-> RankScore(kw, o[k]) + RankScore(vec, o[k])]]
  BY DEF Fused, Sorted, Scored
<1> HIDE DEF T
<1>4. ListOf(o, T) /\ Len(o) = Cardinality(T) /\ Cardinality(T) \in Nat
  BY <1>2, OrderOf
<1>5. HitsOf(h, T) /\ Len(h) = Len(o)
  BY <1>3, <1>4, ScoredFacts
<1>6. DOMAIN vec = 1 .. Len(vec) /\ Len(vec) \in Nat
  BY ListDomain DEF ListOf
<1>7. Cardinality(Range(vec)) = Len(vec)
  <2>1. vec \in Surjection(1 .. Len(vec), Range(vec))
    BY <1>6, LenProperties DEF Surjection, Range, ListOf, IsList
  <2>2. vec \in Injection(1 .. Len(vec), Range(vec))
    BY <1>6, <2>1 DEF Injection, IsInjective, Surjection
  <2>3. IsFiniteSet(1 .. Len(vec)) /\ Cardinality(1 .. Len(vec)) = Len(vec)
    BY <1>6, FS_Interval
  <2>. QED BY <2>1, <2>2, <2>3, FS_Surjection
<1>8. Cardinality(Range(vec)) <= Cardinality(T)
  <2>1. Range(vec) \subseteq T
    BY DEF T
  <2>. QED BY <1>2, <2>1, FS_Subset
<1>. QED BY <1>1, <1>4, <1>5, <1>6, <1>7, <1>8 DEF HitsOf

\* What a search may list: rows it may see, and how many of them.
LEMMA RankedFacts ==
  ASSUME NEW S, IsFiniteSet(S), NEW q, NEW m \in {"hybrid", "bm25", "vector"},
         NEW order \in Ranked(q, m, S)
  PROVE  /\ HitsOf(order, S)
         /\ m = "bm25" => Len(order) = Cardinality(Matching(q, S))
         /\ m = "vector" => Len(order) = Cardinality(S)
         /\ m = "hybrid" => Len(order) >= Min({Cardinality(S), CandidateLimit})
<1>1. CASE m = "bm25"
  <2>1. PICK o \in KeywordOrders(q, S) :
          order = [k \in DOMAIN o |-> [row |-> o[k], score |-> Bm25[q][o[k].content]]]
    BY <1>1 DEF Ranked, Scored
  <2>2. ListOf(o, S) /\ Len(o) = Cardinality(Matching(q, S))
    BY KeywordOrdersFacts
  <2>3. HitsOf(order, S) /\ Len(order) = Len(o)
    BY <2>1, <2>2, ScoredFacts
  <2>. QED BY <1>1, <2>2, <2>3
<1>2. CASE m = "vector"
  <2>1. PICK o \in VectorOrders(q, S) :
          order = [k \in DOMAIN o |-> [row |-> o[k], score |-> 1000 - Distance[q][o[k].vector]]]
    BY <1>2 DEF Ranked, Scored
  <2>2. ListOf(o, S) /\ Len(o) = Cardinality(S)
    BY VectorOrdersFacts
  <2>3. HitsOf(order, S) /\ Len(order) = Len(o)
    BY <2>1, <2>2, ScoredFacts
  <2>. QED BY <1>2, <2>2, <2>3
<1>3. CASE m = "hybrid"
  <2>1. PICK kw \in KeywordOrders(q, S), vec \in VectorOrders(q, S) :
          order \in Fused(Limited(kw, CandidateLimit), Limited(vec, CandidateLimit))
    <3>1. order \in HybridOrders(q, S)
      BY <1>3 DEF Ranked
    <3> DEFINE F(kw, vec) == Fused(Limited(kw, CandidateLimit), Limited(vec, CandidateLimit))
    <3>2. order \in UNION {F(kw, vec) : kw \in KeywordOrders(q, S), vec \in VectorOrders(q, S)}
      BY <3>1 DEF HybridOrders
    <3> HIDE DEF F
    <3>3. \E kw \in KeywordOrders(q, S), vec \in VectorOrders(q, S) : order \in F(kw, vec)
      BY <3>2
    <3>. QED BY <3>3 DEF F
  <2> DEFINE k1 == Limited(kw, CandidateLimit)
             v1 == Limited(vec, CandidateLimit)
  <2>2. /\ ListOf(kw, S) /\ ListOf(vec, S) /\ Len(vec) = Cardinality(S)
        /\ \A j, k \in DOMAIN vec : j # k => vec[j] # vec[k]
    BY KeywordOrdersFacts, VectorOrdersFacts
  <2>3. CandidateLimit \in Nat /\ Cardinality(S) \in Nat
    BY AnsweringAssumption, FS_CardinalityType
  <2>4. /\ IsList(k1) /\ \A k \in 1 .. Len(k1) : k \in DOMAIN kw /\ k1[k] = kw[k]
        /\ IsList(v1) /\ \A k \in 1 .. Len(v1) : k \in DOMAIN vec /\ v1[k] = vec[k]
        /\ Len(v1) = IF CandidateLimit <= Len(vec) THEN CandidateLimit ELSE Len(vec)
    BY <2>2, <2>3, LimitedFacts DEF ListOf
  <2> HIDE DEF k1, v1
  <2>5. DOMAIN k1 = 1 .. Len(k1) /\ DOMAIN v1 = 1 .. Len(v1)
    BY <2>4, ListDomain
  <2>6. ListOf(k1, S) /\ ListOf(v1, S) /\ \A j, k \in DOMAIN v1 : j # k => v1[j] # v1[k]
    BY <2>2, <2>4, <2>5 DEF ListOf
  <2>7. order \in Fused(k1, v1)
    BY <2>1 DEF k1, v1
  <2>8. HitsOf(order, S) /\ Len(order) >= Len(v1) /\ Len(order) \in Nat
    BY <2>6, <2>7, FusedFacts
  <2>9. Len(v1) = Min({Cardinality(S), CandidateLimit})
    BY <2>2, <2>3, <2>4, SmallerOf
  <2>. QED BY <1>3, <2>8, <2>9
<1>. QED BY <1>1, <1>2, <1>3

\* A page holds what its search may list; one that is not full is the last.
LEMMA CutPage ==
  ASSUME NEW order, IsList(order), NEW m \in Nat, NEW l \in Nat \ {0}
  PROVE  LET page == SubSeq(order, m + 1, Min({m + l, Len(order)}))
         IN  /\ IsList(page) /\ Len(page) \in Nat
             /\ \A k \in DOMAIN page : m + k \in DOMAIN order /\ page[k] = order[m + k]
             /\ Len(page) <= l
             /\ Len(page) < l => Len(order) < m + l
<1>1. Len(order) \in Nat /\ m + l \in Nat
  BY ListDomain
<1>2. PICK n \in Nat : n = IF m + l <= Len(order) THEN m + l ELSE Len(order)
  BY <1>1
<1>3. Min({m + l, Len(order)}) = n
  BY <1>1, <1>2, SmallerOf
<1>4. n <= Len(order)
  BY <1>1, <1>2
<1> DEFINE page == SubSeq(order, m + 1, n)
<1>5. /\ IsList(page) /\ Len(page) = IF m < n THEN n - m ELSE 0
      /\ \A k \in 1 .. Len(page) : m + k \in DOMAIN order /\ page[k] = order[m + k]
  BY <1>4, CutFacts
<1> HIDE DEF page
<1>6. DOMAIN page = 1 .. Len(page) /\ Len(page) \in Nat
  BY <1>5, ListDomain
<1>7. Len(page) <= l /\ (Len(page) < l => Len(order) < m + l)
  BY <1>1, <1>2, <1>5
<1>. QED BY <1>3, <1>5, <1>6, <1>7 DEF page

LEMMA PageFacts ==
  ASSUME NEW S, NEW order, HitsOf(order, S), req \in Requests
  PROVE  /\ HitsOf(Page(order), S)
         /\ Len(Page(order)) \in Nat /\ Len(Page(order)) <= req.limit
         /\ Len(Page(order)) < req.limit => Len(order) < req.offset + req.limit
<1>1. req.limit \in Nat \ {0} /\ req.offset \in Nat
  BY AnsweringAssumption
<1>2. /\ IsList(Page(order)) /\ Len(Page(order)) \in Nat /\ Len(Page(order)) <= req.limit
      /\ \A k \in DOMAIN Page(order) :
           req.offset + k \in DOMAIN order /\ Page(order)[k] = order[req.offset + k]
      /\ Len(Page(order)) < req.limit => Len(order) < req.offset + req.limit
  BY <1>1, CutPage DEF HitsOf, Page
<1>. QED BY <1>2 DEF HitsOf

-----------------------------------------------------------------------------
(***************************************************************************)
(* The lists of a request.                                                 *)
(***************************************************************************)

Good == {r \in seen : req.filter = {} \/ r.doc \in req.filter}

DistinctRows(list) == \A j, k \in DOMAIN list : j # k => list[j].row # list[k].row

DistinctIds == \A j, k \in DOMAIN sources : j # k => sources[j].id # sources[k].id

Stage ==
  /\ pc \in {"idle", "decompose", "search", "rerank", "assemble", "generate", "finish", "over"}
  /\ IsFiniteSet(seen)
  /\ pc = "idle" => found = <<>> /\ hits = <<>> /\ sources = <<>>
  /\ pc \in {"idle", "decompose"} => pending = {}
  /\ pc = "search" => 1 \in DOMAIN found
  /\ pc # "idle" => req \in Requests /\ mode \in {"hybrid", "bm25", "vector"}
  /\ pc \notin {"idle", "over"} => rows \subseteq seen
  /\ pc # "over" => reply = "none"

Found == IsList(found) /\ \A i \in DOMAIN found : HitsOf(found[i], Good)

Merged ==
  /\ HitsOf(hits, Good) /\ HitsOf(sources, Good)
  /\ pc \in {"rerank", "assemble", "generate"} => DistinctRows(hits)
  /\ DistinctRows(sources) /\ DistinctIds
  /\ (reply = "answered" /\ req.kind = "ask" /\ req.cites) => marks = Ids

Grounded == Stage /\ Found /\ Merged

LEMMA EmptyList == \A S : HitsOf(<<>>, S) /\ DistinctRows(<<>>) /\ IsList(<<>>)
<1>1. <<>> = [k \in 1 .. 0 |-> <<>>[k]] /\ DOMAIN <<>> = 1 .. 0
  OBVIOUS
<1>2. IsList(<<>>)
  BY EmptySeq DEF IsList
<1>. QED BY <1>1, <1>2 DEF HitsOf, DistinctRows

LEMMA HitsOfMore ==
  ASSUME NEW S, NEW T, S \subseteq T, NEW list, HitsOf(list, S)
  PROVE  HitsOf(list, T)
BY DEF HitsOf

Chosen(list, I) == {Nth(I, k) : k \in DOMAIN Picked(list, I)}

\* Some rows of a list, in order.
LEMMA PickedHits ==
  ASSUME NEW S, NEW list, HitsOf(list, S), NEW I, I \subseteq DOMAIN list
  PROVE  /\ HitsOf(Picked(list, I), S)
         /\ \A k \in DOMAIN Picked(list, I) :
              Nth(I, k) \in I /\ Picked(list, I)[k] = list[Nth(I, k)]
         /\ \A j, k \in DOMAIN Picked(list, I) : j # k => Nth(I, j) # Nth(I, k)
         /\ \A i \in I : i \in Chosen(list, I)
<1>1. DOMAIN list = 1 .. Len(list) /\ Len(list) \in Nat
  BY ListDomain DEF HitsOf
<1>2. IsFiniteSet(I) /\ I \in SUBSET Nat
  <2>1. IsFiniteSet(1 .. Len(list))
    BY <1>1, FS_Interval
  <2>2. I \subseteq 1 .. Len(list)
    BY <1>1
  <2>3. IsFiniteSet(I)
    BY <2>1, <2>2, FS_Subset
  <2>4. 1 .. Len(list) \subseteq Nat
    OBVIOUS
  <2>. QED BY <2>2, <2>3, <2>4
<1>3. DOMAIN Picked(list, I) = 1 .. Cardinality(I)
  BY DEF Picked
<1>4. /\ IsList(Picked(list, I))
      /\ \A k \in 1 .. Cardinality(I) : Nth(I, k) \in I /\ Picked(list, I)[k] = list[Nth(I, k)]
      /\ \A j, k \in 1 .. Cardinality(I) : j # k => Nth(I, j) # Nth(I, k)
      /\ \A i \in I : \E k \in 1 .. Cardinality(I) : Nth(I, k) = i
  BY <1>2, PickedFacts
<1>5. \A i \in I : i \in Chosen(list, I)
  BY <1>3, <1>4 DEF Chosen
<1>. QED BY <1>3, <1>4, <1>5 DEF HitsOf

LEMMA HighlightedHits ==
  ASSUME NEW S, NEW q, NEW list, HitsOf(list, S)
  PROVE  HitsOf(WithHighlights(q, list), S)
<1> DEFINE h == WithHighlights(q, list)
<1>1. DOMAIN list = 1 .. Len(list) /\ Len(list) \in Nat
  BY ListDomain DEF HitsOf
<1>2. /\ DOMAIN h = DOMAIN list /\ h = [k \in DOMAIN list |-> h[k]]
      /\ \A k \in DOMAIN list : h[k].row = list[k].row
  BY DEF WithHighlights
<1> HIDE DEF h
<1>3. IsList(h)
  BY <1>1, <1>2, FunctionIsList
<1>. QED BY <1>2, <1>3 DEF HitsOf, h

\* The hit that stands for a row is one of that row.
LEMMA FirstHitFacts ==
  ASSUME IsList(found), NEW r \in FoundRows
  PROVE  /\ FirstHit(r).row = r
         /\ \E i \in DOMAIN found : \E k \in DOMAIN found[i] : found[i][k].row = r
<1>1. DOMAIN found \subseteq Nat
  BY ListDomain
<1>2. Voters(r) \subseteq DOMAIN found /\ Voters(r) # {}
  BY DEF FoundRows, Voters, Range
<1>3. Min(Voters(r)) \in Voters(r)
  BY <1>1, <1>2, MinOfSome
<1> DEFINE i == Min(Voters(r))
<1>4. i \in DOMAIN found /\ \E k \in DOMAIN found[i] : found[i][k].row = r
  BY <1>3 DEF Voters, RowsIn, Range
<1> HIDE DEF i
<1>5. found[i][Place(i, r)].row = r
  BY <1>4 DEF Place
<1>. QED BY <1>4, <1>5 DEF FirstHit, i

\* Whatever is merged was found.
LEMMA MergedHits ==
  ASSUME Found, IsFiniteSet(Good), NEW limit \in Nat, NEW order \in Sorted(FoundRows, Earlier)
  PROVE  LET merged == [k \in 1 .. Min({limit, Len(order)}) |-> FirstHit(order[k])]
         IN  HitsOf(merged, Good) /\ DistinctRows(merged)
<1>1. FoundRows \subseteq Good
  BY FirstHitFacts DEF Found, HitsOf
<1>2. IsFiniteSet(FoundRows) /\ order \in SetToSeqs(FoundRows)
  BY <1>1, FS_Subset DEF Sorted
<1>3. ListOf(order, FoundRows) /\ \A j, k \in DOMAIN order : j # k => order[j] # order[k]
  BY <1>2, OrderOf
<1>4. DOMAIN order = 1 .. Len(order) /\ Len(order) \in Nat
  BY <1>3, ListDomain DEF ListOf
<1>5. PICK n \in Nat : n = Min({limit, Len(order)}) /\ n <= Len(order)
  BY <1>4, SmallerOf
<1> DEFINE merged == [k \in 1 .. n |-> FirstHit(order[k])]
<1>6. \A k \in 1 .. n : k \in DOMAIN order /\ order[k] \in FoundRows /\ merged[k].row = order[k]
  BY <1>3, <1>4, <1>5, FirstHitFacts DEF Found, ListOf
<1>7. DOMAIN merged = 1 .. n /\ merged = [k \in 1 .. n |-> merged[k]]
  OBVIOUS
<1> HIDE DEF merged
<1>8. IsList(merged)
  BY <1>7, FunctionIsList
<1>9. HitsOf(merged, Good) /\ DistinctRows(merged)
  BY <1>1, <1>3, <1>6, <1>7, <1>8 DEF HitsOf, DistinctRows
<1>. QED BY <1>5, <1>9 DEF merged

-----------------------------------------------------------------------------
(***************************************************************************)
(* One lemma for each step that makes a list.                              *)
(***************************************************************************)

\* The table changes, and what the request has seen grows with it.
LEMMA GroundedByIndex ==
  ASSUME Grounded, IsFiniteSet(rows'), Observe, UNCHANGED askVars
  PROVE  Grounded'
<1>1. /\ seen \subseteq seen' /\ IsFiniteSet(seen')
      /\ pc \notin {"idle", "over"} => rows' \subseteq seen'
  <2>1. IsFiniteSet(seen \cup rows')
    BY FS_Union DEF Grounded, Stage
  <2>. QED BY <2>1 DEF Grounded, Stage, Observe
<1>2. Good \subseteq Good'
  BY <1>1 DEF Good, askVars
<1>3. Stage'
  BY <1>1 DEF Grounded, Stage, askVars
<1>4. Found'
  <2>1. \A i \in DOMAIN found : HitsOf(found[i], Good')
    BY <1>2, HitsOfMore DEF Grounded, Found
  <2>. QED BY <2>1 DEF Grounded, Found, askVars
<1>5. Merged'
  <2>1. HitsOf(hits, Good') /\ HitsOf(sources, Good')
    BY <1>2, HitsOfMore DEF Grounded, Merged
  <2>. QED BY <2>1 DEF Grounded, Merged, DistinctRows, DistinctIds, Ids, askVars
<1>. QED BY <1>3, <1>4, <1>5 DEF Grounded

LEMMA GroundedByBegin ==
  ASSUME Grounded, IsFiniteSet(rows), NEW r \in Requests, Begin(r), seen' = rows, rows' = rows
  PROVE  Grounded'
<1>1. /\ pc = "idle" /\ found = <<>> /\ hits = <<>> /\ sources = <<>> /\ pending = {}
      /\ req' = r /\ mode' = r.mode /\ hits' = hits /\ sources' = sources /\ reply' = reply
      /\ reply = "none"
  BY DEF Grounded, Stage, Begin
<1>2. \/ pc' = "decompose" /\ found' = found /\ pending' = pending
      \/ pc' = "search" /\ found' = <<(<<>>)>>
  BY DEF Begin
<1>3. IsList(<<(<<>>)>>) /\ DOMAIN <<(<<>>)>> = 1 .. 1
  <2> DEFINE f == [i \in 1 .. 1 |-> <<>>]
  <2>1. IsList(f)
    BY FunctionIsList
  <2>. QED BY <2>1
<1>4. Stage'
  BY <1>1, <1>2, <1>3, AnsweringAssumption DEF Stage
<1>5. Found'
  <2>1. CASE found' = <<>>
    BY <2>1, EmptyList DEF Found
  <2>2. CASE found' = <<(<<>>)>>
    <3>1. \A i \in DOMAIN found' : found'[i] = <<>>
      BY <1>3, <2>2
    <3>. QED BY <1>3, <2>2, <3>1, EmptyList DEF Found
  <2>. QED BY <1>1, <1>2, <2>1, <2>2
<1>6. Merged'
  BY <1>1, EmptyList DEF Merged, DistinctIds, DistinctRows
<1>. QED BY <1>4, <1>5, <1>6 DEF Grounded

LEMMA GroundedByDecompose ==
  ASSUME Grounded, Decompose, seen' = seen, rows' = rows
  PROVE  Grounded'
<1>1. /\ pc = "decompose" /\ pc' = "search" /\ queries' \in SubQueries(req.query)
      /\ found' = [i \in DOMAIN queries' |-> <<>>]
      /\ UNCHANGED <<req, mode, hits, sources, marks, reply>>
  BY DEF Decompose
<1>2. PICK n \in Nat : n > 0 /\ DOMAIN queries' = 1 .. n
  <2>1. CASE queries' = <<req.query>>
    BY <2>1
  <2>2. CASE /\ req.query \in Complex
             /\ \E s \in Replies[req.query] : queries' = Limited(s, MaxSubQueries)
    <3>1. PICK s \in Seq(Queries) : Len(s) > 0 /\ queries' = Limited(s, MaxSubQueries)
      BY <2>2, AnsweringAssumption
    <3>2. IsList(s) /\ MaxSubQueries \in Nat \ {0} /\ Len(s) \in Nat
      <4>1. DOMAIN s = 1 .. Len(s) /\ Len(s) \in Nat /\ s = [k \in 1 .. Len(s) |-> s[k]]
        BY LenProperties
      <4>. QED BY <4>1, AnsweringAssumption, FunctionIsList
    <3>3. /\ IsList(queries')
          /\ Len(queries') = IF MaxSubQueries <= Len(s) THEN MaxSubQueries ELSE Len(s)
      BY <3>1, <3>2, LimitedFacts
    <3>4. DOMAIN queries' = 1 .. Len(queries') /\ Len(queries') \in Nat
      BY <3>3, ListDomain
    <3>. QED BY <3>1, <3>2, <3>3, <3>4
  <2>. QED BY <1>1, <2>1, <2>2 DEF SubQueries
<1>3. IsList(found') /\ DOMAIN found' = 1 .. n /\ \A i \in 1 .. n : found'[i] = <<>>
  <2> DEFINE f == [i \in 1 .. n |-> <<>>]
  <2>1. IsList(f)
    BY FunctionIsList
  <2>. QED BY <1>1, <1>2, <2>1
<1>4. Stage'
  BY <1>1, <1>2, <1>3 DEF Grounded, Stage
<1>5. Found'
  BY <1>3, EmptyList DEF Found
<1>6. Merged'
  BY <1>1 DEF Grounded, Merged, DistinctRows, DistinctIds, Ids, Good
<1>. QED BY <1>4, <1>5, <1>6 DEF Grounded

\* What a statement may see is good.
LEMMA VisibleFacts ==
  ASSUME Grounded, pc = "search", NEW S \in Visible
  PROVE  S \subseteq Good /\ IsFiniteSet(S)
<1>1. S \subseteq Filtered(rows)
  BY DEF Visible, Filtered
<1>2. rows \subseteq seen /\ IsFiniteSet(seen)
  BY DEF Grounded, Stage
<1>3. S \subseteq Good /\ S \subseteq seen
  BY <1>1, <1>2 DEF Filtered, Good
<1>. QED BY <1>2, <1>3, FS_Subset

LEMMA GroundedBySearch ==
  ASSUME Grounded, NEW i \in pending, SearchOne(i), seen' = seen, rows' = rows
  PROVE  Grounded'
<1>1. /\ pc = "search"
      /\ UNCHANGED <<pc, req, mode, hits, sources, marks, reply>>
  BY DEF SearchOne
<1> DEFINE Listed(o) == IF Threshold = 0 THEN Page(o) ELSE Relevant(Page(o))
<1>2. PICK S \in Visible : \E order \in Ranked(queries[i], mode, S) :
        found' = [found EXCEPT ![i] = WithHighlights(queries[i], Listed(order))]
  BY DEF SearchOne
<1>3. PICK order \in Ranked(queries[i], mode, S) :
         found' = [found EXCEPT ![i] = WithHighlights(queries[i], Listed(order))]
  BY <1>2
<1> DEFINE list == Listed(order)
<1>4. S \subseteq Good /\ IsFiniteSet(S)
  BY <1>1, VisibleFacts
<1>5. req \in Requests /\ mode \in {"hybrid", "bm25", "vector"}
  BY <1>1 DEF Grounded, Stage
<1>6. HitsOf(order, S)
  BY <1>4, <1>5, RankedFacts
<1>7. HitsOf(Page(order), S)
  BY <1>5, <1>6, PageFacts
<1>8. HitsOf(Relevant(Page(order)), S)
  BY <1>7, PickedHits DEF Relevant
<1>9. HitsOf(WithHighlights(queries[i], list), Good)
  <2>1. HitsOf(list, Good)
    BY <1>4, <1>7, <1>8, HitsOfMore
  <2>. QED BY <2>1, HighlightedHits
<1>10. Found'
  <2>1. IsList(found) /\ \A j \in DOMAIN found : HitsOf(found[j], Good)
    BY DEF Grounded, Found
  <2>2. DOMAIN found = 1 .. Len(found) /\ Len(found) \in Nat
    BY <2>1, ListDomain
  <2>3. found' = [j \in 1 .. Len(found) |-> found'[j]] /\ DOMAIN found' = DOMAIN found
    BY <1>3, <2>2
  <2>4. IsList(found')
    BY <2>2, <2>3, FunctionIsList
  <2>5. \A j \in DOMAIN found' : HitsOf(found'[j], Good)
    BY <1>3, <1>9, <2>1, <2>3
  <2>6. Good' = Good
    BY <1>1 DEF Good
  <2>. QED BY <2>4, <2>5, <2>6 DEF Found
<1>11. Stage'
  <2>1. DOMAIN found' = DOMAIN found
    BY <1>3
  <2>. QED BY <1>1, <2>1 DEF Grounded, Stage
<1>12. Merged'
  BY <1>1 DEF Grounded, Merged, DistinctRows, DistinctIds, Ids, Good
<1>. QED BY <1>10, <1>11, <1>12 DEF Grounded

LEMMA GroundedByGather ==
  ASSUME Grounded, Gather, seen' = seen, rows' = rows
  PROVE  Grounded'
<1>1. /\ pc = "search" /\ pc' = "rerank"
      /\ UNCHANGED <<req, mode, pending, found, sources, marks, reply>>
  BY DEF Gather
<1>2. IsFiniteSet(Good) /\ req.limit \in Nat
  <2>1. Good \subseteq seen
    BY DEF Good
  <2>. QED BY <1>1, <2>1, FS_Subset, AnsweringAssumption DEF Grounded, Stage
<1>3. PICK order \in Sorted(FoundRows, Earlier) :
        hits' = [k \in 1 .. Min({req.limit, Len(order)}) |-> FirstHit(order[k])]
  BY DEF Gather
<1>4. HitsOf(hits', Good) /\ DistinctRows(hits')
  BY <1>2, <1>3, MergedHits DEF Grounded
<1>5. Stage' /\ Found'
  BY <1>1 DEF Grounded, Stage, Found, Good
<1>6. Merged'
  BY <1>1, <1>4 DEF Grounded, Stage, Merged, DistinctRows, DistinctIds, Good
<1>. QED BY <1>5, <1>6 DEF Grounded

LEMMA GroundedByRespond ==
  ASSUME Grounded, Respond, seen' = seen, rows' = rows
  PROVE  Grounded'
<1>1. /\ pc = "search" /\ pc' = "over" /\ req.kind = "search" /\ hits' = found[1]
      /\ UNCHANGED <<req, mode, pending, found, sources, marks>>
  BY DEF Respond, Ends
<1>2. HitsOf(hits', Good)
  BY <1>1 DEF Grounded, Stage, Found
<1>3. Stage' /\ Found'
  BY <1>1 DEF Grounded, Stage, Found, Good
<1>4. Merged'
  BY <1>1, <1>2 DEF Grounded, Merged, DistinctRows, DistinctIds, Good
<1>. QED BY <1>3, <1>4 DEF Grounded

\* Some of the results, each once, in any order.
LEMMA GroundedByRerank ==
  ASSUME Grounded, Rerank, seen' = seen, rows' = rows
  PROVE  Grounded'
<1>1. /\ pc = "rerank" /\ pc' = "assemble"
      /\ UNCHANGED <<req, mode, pending, found, sources, marks, reply>>
  BY DEF Rerank
<1>2. HitsOf(hits, Good) /\ DistinctRows(hits)
  BY <1>1 DEF Grounded, Merged
<1>3. DOMAIN hits = 1 .. Len(hits) /\ Len(hits) \in Nat /\ RerankTop \in Nat
  BY <1>2, ListDomain, AnsweringAssumption DEF HitsOf
<1>4. PICK order \in SetToSeqs(DOMAIN hits) :
        hits' = [k \in 1 .. Min({RerankTop, Len(hits)}) |-> hits[order[k]]]
  BY DEF Rerank, Best
<1>5. PICK n \in Nat : n = Min({RerankTop, Len(hits)}) /\ n <= Len(hits)
  BY <1>3, SmallerOf
<1>6. IsFiniteSet(DOMAIN hits) /\ Cardinality(DOMAIN hits) = Len(hits)
  <2>1. \A m \in Nat : IsFiniteSet(1 .. m) /\ Cardinality(1 .. m) = m
    BY FS_Interval
  <2>. QED BY <1>3, <2>1
<1>7. /\ ListOf(order, DOMAIN hits) /\ Len(order) = Len(hits)
      /\ \A j, k \in DOMAIN order : j # k => order[j] # order[k]
  BY <1>6, OrderOf
<1>8. DOMAIN order = 1 .. Len(hits)
  BY <1>7, ListDomain DEF ListOf
<1>9. \A k \in 1 .. n : k \in DOMAIN order /\ order[k] \in DOMAIN hits
  BY <1>3, <1>5, <1>7, <1>8 DEF ListOf
<1>10. DOMAIN hits' = 1 .. n /\ hits' = [k \in 1 .. n |-> hits'[k]]
       /\ \A k \in 1 .. n : hits'[k] = hits[order[k]]
  BY <1>4, <1>5
<1>11. IsList(hits')
  BY <1>10, FunctionIsList
<1>12. HitsOf(hits', Good) /\ DistinctRows(hits')
  BY <1>2, <1>7, <1>9, <1>10, <1>11 DEF HitsOf, DistinctRows
<1>13. Stage' /\ Found'
  BY <1>1 DEF Grounded, Stage, Found, Good
<1>14. Merged'
  BY <1>1, <1>12 DEF Grounded, Stage, Merged, DistinctRows, DistinctIds, Good
<1>. QED BY <1>13, <1>14 DEF Grounded

\* The sources in the context are the first results, numbered.
LEMMA GroundedByAssemble ==
  ASSUME Grounded, Assemble, seen' = seen, rows' = rows
  PROVE  Grounded'
<1>1. /\ pc = "assemble" /\ pc' = "generate"
      /\ UNCHANGED <<req, mode, pending, found, hits, marks, reply>>
  BY DEF Assemble
<1>2. HitsOf(hits, Good) /\ DistinctRows(hits) /\ reply = "none"
  BY <1>1 DEF Grounded, Merged, Stage
<1>3. DOMAIN hits = 1 .. Len(hits) /\ Len(hits) \in Nat
  BY <1>2, ListDomain DEF HitsOf
<1>4. Fitting \in 0 .. Len(hits)
  <2> DEFINE S == {0} \cup {n \in 1 .. Len(hits) : UsedBy(n) <= Available[req.query]}
  <2>1. S \in SUBSET (0 .. Len(hits)) /\ S # {}
    BY <1>3
  <2>2. Max(S) \in S
    BY <1>3, <2>1, MaxOfSome
  <2>. QED BY <2>1, <2>2 DEF Fitting
<1>5. PICK n \in 0 .. Len(hits) :
        /\ DOMAIN sources' = 1 .. n /\ sources' = [k \in 1 .. n |-> sources'[k]]
        /\ \A k \in 1 .. n : sources'[k].id = k /\ sources'[k].row = hits[k].row
  <2> DEFINE n == IF Truncates THEN Fitting + 1 ELSE Fitting
             Tokens(k) == IF k <= Fitting THEN Measure[hits[k].row.content].tokens
                          ELSE Rest - HeaderTokens + Ellipsis
  <2>1. n \in 0 .. Len(hits)
    BY <1>3, <1>4 DEF Truncates
  <2>2. sources' = [k \in 1 .. n |-> [id |-> k, row |-> hits[k].row, tokens |-> Tokens(k)]]
    BY DEF Assemble, SourceOf
  <2> HIDE DEF n, Tokens
  <2>3. DOMAIN sources' = 1 .. n
    BY <2>2
  <2>4. \A k \in 1 .. n : sources'[k] = [id |-> k, row |-> hits[k].row, tokens |-> Tokens(k)]
    BY <2>2
  <2>5. sources' = [k \in 1 .. n |-> sources'[k]]
    BY <2>2
  <2>. QED BY <2>1, <2>3, <2>4, <2>5
<1>6. IsList(sources')
  BY <1>3, <1>5, FunctionIsList
<1>7. \A k \in 1 .. n : k \in DOMAIN hits
  BY <1>3, <1>5
<1>8. HitsOf(sources', Good) /\ DistinctRows(sources')
  BY <1>2, <1>5, <1>6, <1>7 DEF HitsOf, DistinctRows
<1>9. DistinctIds'
  BY <1>5 DEF DistinctIds
<1>10. Stage' /\ Found'
  BY <1>1 DEF Grounded, Stage, Found, Good
<1>11. Merged'
  BY <1>1, <1>2, <1>8, <1>9 DEF Merged, DistinctRows, Good
<1>. QED BY <1>10, <1>11 DEF Grounded

\* The answer keeps the sources that it cites.
LEMMA GroundedByGenerate ==
  ASSUME Grounded, Generate, seen' = seen, rows' = rows
  PROVE  Grounded'
<1>1. /\ pc = "generate" /\ pc' = "over" /\ UNCHANGED <<req, mode, pending, found, hits>>
  BY DEF Generate, Ends
<1>2. HitsOf(sources, Good) /\ DistinctRows(sources) /\ DistinctIds /\ HitsOf(hits, Good)
  BY DEF Grounded, Merged
<1>3. Good' = Good
  BY <1>1 DEF Good
<1>4. Stage' /\ Found'
  BY <1>1, <1>3 DEF Grounded, Stage, Found
<1>5. CASE ~ req.cites
  <2>1. sources' = sources
    BY <1>5 DEF Generate
  <2>2. Merged'
    BY <1>1, <1>2, <1>3, <1>5, <2>1 DEF Merged, DistinctRows, DistinctIds
  <2>. QED BY <1>4, <2>2 DEF Grounded
<1>6. CASE req.cites
  <2> DEFINE I(cited) == {k \in DOMAIN sources : sources[k].id \in cited}
  <2>1. PICK cited : marks' = cited \cap Ids /\ sources' = Picked(sources, I(cited))
    BY <1>6 DEF Generate, ValidMarks, UsedSources
  <2> DEFINE J == I(cited)
  <2>2. J = {k \in DOMAIN sources : sources[k].id \in cited} /\ J \subseteq DOMAIN sources
    OBVIOUS
  <2>3. sources' = Picked(sources, J)
    BY <2>1
  <2> HIDE DEF I, J
  <2>4. HitsOf(sources, Good)
    BY <1>2
  <2>5. /\ HitsOf(sources', Good)
        /\ \A k \in DOMAIN sources' : Nth(J, k) \in J /\ sources'[k] = sources[Nth(J, k)]
        /\ \A j, k \in DOMAIN sources' : j # k => Nth(J, j) # Nth(J, k)
        /\ \A i \in J : \E k \in DOMAIN sources' : Nth(J, k) = i
    <3>1. HitsOf(Picked(sources, J), Good)
      BY <2>4, <2>2, PickedHits
    <3>2. \A k \in DOMAIN Picked(sources, J) :
            Nth(J, k) \in J /\ Picked(sources, J)[k] = sources[Nth(J, k)]
      BY <2>4, <2>2, PickedHits
    <3>3. \A j, k \in DOMAIN Picked(sources, J) : j # k => Nth(J, j) # Nth(J, k)
      BY <2>4, <2>2, PickedHits
    <3>4. \A x \in J : x \in Chosen(sources, J)
      BY <2>4, <2>2, PickedHits
    <3>. QED BY <2>3, <3>1, <3>2, <3>3, <3>4 DEF Chosen
  <2>6. DistinctRows(sources') /\ DistinctIds'
    BY <1>2, <2>5, <2>2 DEF DistinctRows, DistinctIds
  <2>7. marks' = Ids'
    <3>1. ASSUME NEW x \in marks' PROVE x \in Ids'
      <4>1. PICK k \in DOMAIN sources : sources[k].id = x /\ x \in cited
        BY <2>1 DEF Ids
      <4>2. PICK m \in DOMAIN sources' : Nth(J, m) = k
        BY <2>5, <2>2, <4>1
      <4>3. sources'[m].id = x
        BY <2>5, <4>1, <4>2
      <4>. QED BY <4>3 DEF Ids
    <3>2. \A x \in Ids' : x \in marks'
      BY <2>1, <2>5, <2>2 DEF Ids
    <3>. QED BY <3>1, <3>2
  <2>8. Merged'
    BY <1>1, <1>2, <1>3, <2>5, <2>6, <2>7 DEF Merged
  <2>. QED BY <1>4, <2>8 DEF Grounded
<1>. QED BY <1>5, <1>6

\* The other steps leave the lists alone.
LEMMA GroundedByRest ==
  ASSUME Grounded, seen' = seen, rows' = rows,
         AskFails \/ Unreachable \/ FindNothing \/ RerankFails \/ StreamToken \/ StreamDone \/ Leave
  PROVE  Grounded'
<1>1. UNCHANGED <<req, pending, found, hits, sources, marks>>
  BY DEF AskFails, Unreachable, FindNothing, RerankFails, StreamToken, StreamDone, Leave
<1>2. /\ pc \notin {"idle", "over"}
      /\ \/ pc' = pc /\ mode' \in {mode, "bm25"} /\ reply' = reply
         \/ pc' = "over" /\ mode' = mode
              /\ (reply' = "answered" => Streams)
         \/ pc = "search" /\ pc' = "finish" /\ mode' = mode /\ reply' = reply
         \/ pc = "rerank" /\ pc' = "assemble" /\ mode' = mode /\ reply' = reply
  <2>1. CASE AskFails
    BY <2>1 DEF AskFails, Ends
  <2>2. CASE Unreachable
    <3>1. req.kind \in {"search", "ask", "stream"}
      BY <2>2, AnsweringAssumption DEF Unreachable, Grounded, Stage
    <3>. QED BY <2>2, <3>1 DEF Unreachable, Ends
  <2>3. CASE FindNothing
    BY <2>3 DEF FindNothing, Ends
  <2>4. CASE RerankFails
    BY <2>4 DEF RerankFails
  <2>5. CASE StreamToken
    BY <2>5 DEF StreamToken
  <2>6. CASE StreamDone
    BY <2>6 DEF StreamDone, Ends
  <2>7. CASE Leave
    BY <2>7 DEF Leave, Ends
  <2>. QED BY <2>1, <2>2, <2>3, <2>4, <2>5, <2>6, <2>7
<1>3. Good' = Good
  BY <1>1 DEF Good
<1>4. Stage'
  BY <1>1, <1>2 DEF Grounded, Stage
<1>5. Found'
  BY <1>1, <1>3 DEF Grounded, Found
<1>6. Merged'
  BY <1>1, <1>2, <1>3 DEF Grounded, Stage, Merged, DistinctRows, DistinctIds, Ids, Streams
<1>. QED BY <1>4, <1>5, <1>6 DEF Grounded

-----------------------------------------------------------------------------
(***************************************************************************)
(* The theorems about the lists of a request.                              *)
(***************************************************************************)

LEMMA GroundedStep ==
  ASSUME Grounded, IsFiniteSet(rows), IsFiniteSet(rows'), [Next]_kbVars
  PROVE  Grounded'
<1>1. CASE UNCHANGED kbVars
  BY <1>1 DEF kbVars, indexVars, askVars, Grounded, Stage, Found, Merged, DistinctRows,
              DistinctIds, Ids, Good
<1>2. CASE IndexWork \/ Managed
  BY <1>2, GroundedByIndex DEF IndexWork, Managed
<1>3. CASE AskWork
  <2>1. seen' = seen /\ rows' = rows
    BY <1>3 DEF AskWork, indexVars
  <2>. QED
    BY <1>3, <2>1, GroundedByDecompose, GroundedBySearch, GroundedByGather, GroundedByRespond,
       GroundedByRerank, GroundedByAssemble, GroundedByGenerate, GroundedByRest
       DEF AskWork, AskStep
<1>4. CASE ClientGoes
  BY <1>4, GroundedByRest DEF ClientGoes, indexVars
<1>5. CASE ClientComes
  BY <1>5, GroundedByBegin DEF ClientComes, indexVars
<1>. QED BY <1>1, <1>2, <1>3, <1>4, <1>5 DEF Next

LEMMA GroundedHolds == Spec => []Grounded
<1>1. Init => Grounded
  BY EmptyList, FS_EmptySet DEF Init, AskInit, Grounded, Stage, Found, Merged, DistinctIds
<1>2. IndexInv => IsFiniteSet(rows)
  BY DEF IndexInv
<1>3. Spec => []IsFiniteSet(rows)
  BY <1>2, ImplementsIndexing, IndexInvHolds, PTL
<1>4. Grounded /\ IsFiniteSet(rows) /\ IsFiniteSet(rows)' /\ [Next]_kbVars => Grounded'
  BY GroundedStep
<1>. QED BY <1>1, <1>3, <1>4, PTL DEF Spec

\* Everything a request lists, gives to the model or names as a source was in the table at
\* some moment of the request and passes its filter, whatever the jobs do to the table
\* between its sub-queries.
THEOREM SourcesAreGrounded == Spec => []SourcesGrounded
<1>1. Grounded => SourcesGrounded
  <2> SUFFICES ASSUME Grounded PROVE SourcesGrounded
    OBVIOUS
  <2>1. FoundRows \subseteq Good
    BY FirstHitFacts DEF Grounded, Found, HitsOf
  <2>2. RowsIn(hits) \subseteq Good /\ RowsIn(sources) \subseteq Good
    BY DEF Grounded, Merged, HitsOf, RowsIn, Range
  <2>. QED BY <2>1, <2>2 DEF SourcesGrounded, Good
<1>. QED BY <1>1, GroundedHolds, PTL

\* The citations left in an answer and the sources returned with it are the same, and no
\* two of the sources are the same chunk.
THEOREM CitationsAreResolved == Spec => []CitationsResolve
<1>1. Grounded => CitationsResolve
  BY DEF Grounded, Merged, CitationsResolve, DistinctRows, DistinctIds
<1>. QED BY <1>1, GroundedHolds, PTL

LEMMA NothingLeftStep ==
  ASSUME Grounded, IsFiniteSet(rows), [Next]_kbVars
  PROVE  NothingLeft
<1> SUFFICES ASSUME NEW i \in pending, i \notin pending', req.kind = "search", req.threshold = 0,
                    total' <= req.offset + req.limit
             PROVE  LET match == {r \in Filtered(rows) :
                                    mode = "bm25" => Bm25[queries[i]][r.content] > 0}
                        least == IF mode = "hybrid"
                                 THEN Min({Cardinality(match), CandidateLimit})
                                 ELSE Cardinality(match)
                    IN  least <= req.offset + req.limit
  BY DEF NothingLeft
<1>1. pc \notin {"idle", "decompose"}
  BY DEF Grounded, Stage
<1>2. SearchOne(i)
  <2>1. [AskNext]_askVars
    BY AskMoves
  <2>2. \E j \in pending : SearchOne(j)
    BY <1>1, <2>1 DEF AskNext, AskStep, Begin, Decompose, AskFails, Unreachable, Respond, Gather,
                      FindNothing, RerankFails, Rerank, Assemble, Generate, StreamToken,
                      StreamDone, Leave, askVars
  <2>. QED BY <2>2 DEF SearchOne
<1>3. req \in Requests /\ mode \in {"hybrid", "bm25", "vector"}
  BY <1>1 DEF Grounded, Stage
<1>4. req.limit \in Nat \ {0} /\ req.offset \in Nat /\ CandidateLimit \in Nat
  BY <1>3, AnsweringAssumption
<1> DEFINE S == Filtered(rows)
<1>5. PICK order \in Ranked(queries[i], mode, S) : total' = Total(Page(order))
  BY <1>2 DEF SearchOne, Visible, Streams, Threshold
<1>6. IsFiniteSet(S) /\ Cardinality(S) \in Nat
  <2>1. S \subseteq rows
    BY DEF Filtered
  <2> HIDE DEF S
  <2>. QED BY <2>1, FS_Subset, FS_CardinalityType
<1> HIDE DEF S
<1>7. /\ HitsOf(order, S)
      /\ mode = "bm25" => Len(order) = Cardinality(Matching(queries[i], S))
      /\ mode = "vector" => Len(order) = Cardinality(S)
      /\ mode = "hybrid" => Len(order) >= Min({Cardinality(S), CandidateLimit})
  BY <1>3, <1>5, <1>6, RankedFacts
<1>8. /\ Len(Page(order)) \in Nat /\ Len(Page(order)) <= req.limit
      /\ Len(Page(order)) < req.limit => Len(order) < req.offset + req.limit
  BY <1>3, <1>7, PageFacts
<1>9. Len(order) \in Nat /\ Len(order) < req.offset + req.limit
  <2>1. Len(order) \in Nat
    BY <1>7, ListDomain DEF HitsOf
  <2>2. Len(Page(order)) # req.limit
    BY <1>4, <1>5 DEF Total
  <2>. QED BY <1>4, <1>8, <2>1, <2>2
<1>10. CASE mode = "bm25"
  <2>1. {r \in S : mode = "bm25" => Bm25[queries[i]][r.content] > 0}
          = Matching(queries[i], S)
    BY <1>10 DEF Matching
  <2>2. Cardinality(Matching(queries[i], S)) <= req.offset + req.limit
    BY <1>4, <1>7, <1>9, <1>10
  <2>. QED BY <1>10, <2>1, <2>2 DEF S
<1>11. CASE mode # "bm25"
  <2>1. {r \in S : mode = "bm25" => Bm25[queries[i]][r.content] > 0} = S
    BY <1>11
  <2>2. CASE mode = "vector"
    <3>1. Cardinality(S) <= req.offset + req.limit
      BY <1>4, <1>7, <1>9, <2>2
    <3>. QED BY <2>1, <2>2, <3>1 DEF S
  <2>3. CASE mode = "hybrid"
    <3>1. Min({Cardinality(S), CandidateLimit}) \in Nat
      BY <1>4, <1>6, SmallerOf
    <3>2. Min({Cardinality(S), CandidateLimit}) <= req.offset + req.limit
      BY <1>4, <1>7, <1>9, <2>3, <3>1
    <3>. QED BY <2>1, <2>3, <3>2 DEF S
  <2>. QED BY <1>3, <1>11, <2>2, <2>3
<1>. QED BY <1>10, <1>11

\* When the total of a search without a threshold says that nothing follows its page,
\* nothing does.
THEOREM LastPagesAreLast == Spec => LastPageIsLast
<1>1. IndexInv => IsFiniteSet(rows)
  BY DEF IndexInv
<1>2. Spec => []IsFiniteSet(rows)
  BY <1>1, ImplementsIndexing, IndexInvHolds, PTL
<1>3. Grounded /\ IsFiniteSet(rows) /\ [Next]_kbVars => [NothingLeft]_askVars
  BY NothingLeftStep
<1>. QED BY <1>2, <1>3, GroundedHolds, PTL DEF Spec, LastPageIsLast

-----------------------------------------------------------------------------
(***************************************************************************)
(* Highlights.                                                             *)
(***************************************************************************)

LEMMA LargerOf ==
  ASSUME NEW x \in Nat, NEW y \in Nat
  PROVE  Max({x, y}) = IF x >= y THEN x ELSE y
<1>1. \E z \in {x, y} : \A w \in {x, y} : z >= w
  OBVIOUS
<1>2. Max({x, y}) \in {x, y} /\ \A w \in {x, y} : Max({x, y}) >= w
  BY <1>1 DEF Max
<1>. QED BY <1>2

\* A place of p that is marked.
Marked(p, w) == w.from \in Nat /\ w.to \in Nat /\ w.from < w.to /\ w.to <= Measure[p].chars

Apart(v, w) == v.to <= w.from \/ w.to <= v.from

\* What highlight_content may have taken so far.
TakenOf(p) ==
  {s \in Seq([from : Nat, to : Nat]) :
     /\ Len(s) <= MaxHighlights
     /\ \A k \in DOMAIN s : Marked(p, s[k])
     /\ \A j, k \in DOMAIN s : j < k => Apart(s[j], s[k])}

LEMMA AroundIsMarked ==
  ASSUME NEW q \in Queries, NEW p \in Passages, NEW i \in 1 .. Len(TermsIn[q][p])
  PROVE  LET w == Around(p, TermsIn[q][p][i])
         IN  w \in [from : Nat, to : Nat] /\ Marked(p, w)
<1> DEFINE t == TermsIn[q][p][i]
           half == Window \div 2
           chars == Measure[p].chars
<1>1. /\ t.at \in Nat /\ t.len \in Nat \ {0} /\ t.at + t.len <= chars
  <2>1. TermsIn[q][p] \in Seq([at : Nat, len : Nat \ {0}])
    BY AnsweringAssumption
  <2>2. t \in [at : Nat, len : Nat \ {0}] /\ i \in DOMAIN TermsIn[q][p]
    BY <2>1, ElementOfSeq, LenProperties
  <2>. QED BY <2>2, AnsweringAssumption
<1>2. half \in Nat /\ chars \in Nat
  <2>1. Window \in Nat
    BY AnsweringAssumption
  <2>2. Measure \in [Passages -> [Counts -> Nat]] /\ "chars" \in Counts
    BY IndexingAssumption DEF Counts
  <2>. QED BY <2>1, <2>2
<1> HIDE DEF t, half, chars
<1>3. Max({t.at, half}) = IF t.at >= half THEN t.at ELSE half
  BY <1>1, <1>2, LargerOf
<1>4. Min({chars, t.at + t.len + half}) = IF chars <= t.at + t.len + half THEN chars
                                          ELSE t.at + t.len + half
  BY <1>1, <1>2, SmallerOf
<1> DEFINE from == Max({t.at, half}) - half
           to == Min({chars, t.at + t.len + half})
<1>5. from \in Nat /\ to \in Nat /\ from < to /\ to <= chars
  BY <1>1, <1>2, <1>3, <1>4
<1>6. Around(p, t) = [from |-> from, to |-> to]
  BY DEF Around, half, chars
<1> HIDE DEF from, to
<1>. QED BY <1>5, <1>6 DEF Marked, t, chars

\* The next term: its surroundings are taken, or nothing is.
LEMMA TakenNext ==
  ASSUME NEW p \in Passages, NEW s \in TakenOf(p), NEW w \in [from : Nat, to : Nat], Marked(p, w),
         Len(s) < MaxHighlights, ~ Overlaps(w, s)
  PROVE  Append(s, w) \in TakenOf(p)
<1>1. /\ s \in Seq([from : Nat, to : Nat]) /\ Len(s) <= MaxHighlights
      /\ \A k \in DOMAIN s : Marked(p, s[k])
      /\ \A j, k \in DOMAIN s : j < k => Apart(s[j], s[k])
  BY DEF TakenOf
<1>2. Len(s) \in Nat /\ DOMAIN s = 1 .. Len(s)
  BY <1>1, LenProperties
<1> DEFINE f == Append(s, w)
<1>3. /\ f \in Seq([from : Nat, to : Nat]) /\ Len(f) = Len(s) + 1 /\ DOMAIN f = 1 .. Len(s) + 1
      /\ f[Len(s) + 1] = w /\ \A k \in 1 .. Len(s) : f[k] = s[k]
  BY <1>1, <1>2, AppendProperties, LenProperties
<1> HIDE DEF f
<1>4. \A k \in DOMAIN s : Apart(s[k], w)
  BY <1>1 DEF Overlaps, Range, Apart, Marked
<1>5. \A k \in DOMAIN f : k \in DOMAIN s \/ k = Len(s) + 1
  BY <1>2, <1>3
<1>6. ASSUME NEW j \in DOMAIN f, NEW k \in DOMAIN f, j < k
      PROVE  Apart(f[j], f[k])
  <2>1. j \in DOMAIN s
    BY <1>2, <1>3, <1>6
  <2>2. f[j] = s[j] /\ (k \in DOMAIN s => f[k] = s[k])
    BY <1>2, <1>3, <2>1
  <2>. QED BY <1>1, <1>3, <1>4, <1>5, <1>6, <2>1, <2>2
<1>7. \A k \in DOMAIN f : Marked(p, f[k])
  BY <1>1, <1>2, <1>3, <1>5
<1>8. Len(f) <= MaxHighlights
  BY <1>2, <1>3, AnsweringAssumption
<1>. QED BY <1>3, <1>6, <1>7, <1>8 DEF TakenOf, f

LEMMA HighlightsTaken ==
  ASSUME NEW q \in Queries, NEW p \in Passages
  PROVE  Highlights[q][p] \in TakenOf(p)
<1> DEFINE terms == TermsIn[q][p]
           n == Len(terms)
           W(i) == Around(p, terms[i])
           Skips(s, i) == Len(s) >= MaxHighlights \/ Overlaps(W(i), s)
           Next1(s, i) == IF Skips(s, i) THEN s ELSE Append(s, W(i))
           Taken(g) == [i \in 0 .. n |-> IF i = 0 THEN <<>> ELSE Next1(g[i - 1], i)]
           taken == CHOOSE g : g = Taken(g)
           step == [i \in 1 .. n |-> [s \in TakenOf(p) |-> Next1(s, i)]]
<1>1. Highlights[q][p] = taken[n]
  BY DEF Highlights
<1>2. n \in Nat
  BY AnsweringAssumption, LenProperties
<1>3. <<>> \in TakenOf(p)
  BY EmptySeq, AnsweringAssumption DEF TakenOf
<1>4. \A i \in 1 .. n : \A s \in TakenOf(p) : Next1(s, i) \in TakenOf(p)
  <2> TAKE i \in 1 .. n
  <2> TAKE s \in TakenOf(p)
  <2>1. W(i) \in [from : Nat, to : Nat] /\ Marked(p, W(i))
    BY AroundIsMarked
  <2>2. CASE Skips(s, i)
    BY <2>2
  <2>3. CASE ~ Skips(s, i)
    <3>1. Len(s) < MaxHighlights /\ ~ Overlaps(W(i), s)
      BY <2>3, AnsweringAssumption, LenProperties DEF TakenOf
    <3> HIDE DEF W
    <3>. QED BY <2>1, <2>3, <3>1, TakenNext
  <2>. QED BY <2>2, <2>3
<1> HIDE DEF Next1
<1>5. /\ step \in Steps(n, TakenOf(p))
      /\ \A i \in 1 .. n : \A s \in TakenOf(p) : step[i][s] = Next1(s, i)
  BY <1>4 DEF Steps
<1> HIDE DEF step
<1>6. PICK g : DOMAIN g = 0 .. n /\ g = [i \in 0 .. n |-> g[i]] /\ Iterates(g, n, <<>>, step)
  <2> HIDE DEF n, Taken
  <2>. QED BY <1>2, <1>3, <1>5, Iteration
<1>7. g = Taken(g)
  <2> HIDE DEF n, Taken
  <2>1. Keeps(g, n, TakenOf(p))
    <3>1. \A i \in 1 .. n : \A s \in TakenOf(p) : step[i][s] \in TakenOf(p)
      BY <1>4, <1>5
    <3>. QED BY <1>3, <1>6, <3>1 DEF Iterates, Keeps
  <2>2. \A i \in 0 .. n : g[i] \in TakenOf(p)
    BY <1>2, <2>1, StaysIn
  <2>3. \A i \in 0 .. n : i # 0 => i \in 1 .. n /\ g[i - 1] \in TakenOf(p)
    BY <1>2, <2>2
  <2>4. \A i \in 0 .. n : g[i] = IF i = 0 THEN <<>> ELSE Next1(g[i - 1], i)
    BY <1>5, <1>6, <2>3 DEF Iterates
  <2>. QED BY <1>6, <2>4 DEF Taken
<1>8. taken = Taken(taken)
  <2>1. \E x : x = Taken(x)
    BY <1>7
  <2> HIDE DEF Taken
  <2>. QED BY <2>1
<1> HIDE DEF taken
<1>9. \A i \in 0 .. n : taken[i] = Taken(taken)[i]
  <2> HIDE DEF Taken
  <2>. QED BY <1>8
<1>10. \A i \in 0 .. n : Taken(taken)[i] = IF i = 0 THEN <<>> ELSE Next1(taken[i - 1], i)
  OBVIOUS
<1> HIDE DEF n, Taken
<1>11. 0 \in 0 .. n /\ n \in 0 .. n /\ \A i \in 1 .. n : i \in 0 .. n /\ i # 0
  BY <1>2
<1>12. taken[0] = <<>> /\ \A i \in 1 .. n : taken[i] = Next1(taken[i - 1], i)
  BY <1>9, <1>10, <1>11
<1>13. Keeps(taken, n, TakenOf(p))
  BY <1>3, <1>4, <1>12 DEF Keeps
<1>14. \A i \in 0 .. n : taken[i] \in TakenOf(p)
  BY <1>2, <1>13, StaysIn
<1>. QED BY <1>1, <1>11, <1>14

-----------------------------------------------------------------------------
(***************************************************************************)
(* The sub-queries of a request, and what is marked for them.              *)
(***************************************************************************)

WindowsIn(list) == \A k \in DOMAIN list : list[k].windows \in TakenOf(list[k].row.content)

Queried ==
  /\ seen \subseteq Row
  /\ DOMAIN found = DOMAIN queries /\ pending \subseteq DOMAIN queries
  /\ \A i \in DOMAIN queries : queries[i] \in Queries
  /\ \A i \in DOMAIN found : WindowsIn(found[i])
  /\ total \in Nat /\ marks \in SUBSET Nat
  /\ reply \in Over \cup {"none"} /\ (pc = "over" <=> reply # "none")

LEMMA QueriedByDecompose ==
  ASSUME Grounded, Queried, Decompose, seen' = seen
  PROVE  Queried'
<1>1. /\ pc = "decompose" /\ pc' = "search" /\ req \in Requests
      /\ queries' \in SubQueries(req.query)
      /\ pending' = DOMAIN queries' /\ found' = [i \in DOMAIN queries' |-> <<>>]
      /\ UNCHANGED <<total, marks, reply>>
  BY DEF Decompose, Grounded, Stage
<1>2. \A i \in DOMAIN queries' : queries'[i] \in Queries
  <2>1. req.query \in Queries
    BY <1>1, AnsweringAssumption
  <2>2. CASE queries' = <<req.query>>
    BY <2>1, <2>2
  <2>3. CASE /\ req.query \in Complex
             /\ \E s \in Replies[req.query] : queries' = Limited(s, MaxSubQueries)
    <3>1. PICK s \in Seq(Queries) : queries' = Limited(s, MaxSubQueries)
      BY <2>3, AnsweringAssumption
    <3>2. IsList(s) /\ MaxSubQueries \in Nat
      <4>1. DOMAIN s = 1 .. Len(s) /\ Len(s) \in Nat /\ s = [k \in 1 .. Len(s) |-> s[k]]
        BY LenProperties
      <4>. QED BY <4>1, AnsweringAssumption, FunctionIsList
    <3>3. /\ IsList(queries')
          /\ \A k \in 1 .. Len(queries') : k \in DOMAIN s /\ queries'[k] = s[k]
      BY <3>1, <3>2, LimitedFacts
    <3>4. DOMAIN queries' = 1 .. Len(queries')
      BY <3>3, ListDomain
    <3>5. \A k \in DOMAIN s : s[k] \in Queries
      BY ElementOfSeq, LenProperties
    <3>. QED BY <3>3, <3>4, <3>5
  <2>. QED BY <1>1, <2>2, <2>3 DEF SubQueries
<1>3. \A i \in DOMAIN found' : WindowsIn(found'[i])
  <2>1. \A i \in DOMAIN found' : found'[i] = <<>>
    BY <1>1
  <2>. QED BY <2>1 DEF WindowsIn
<1>4. DOMAIN found' = DOMAIN queries'
  BY <1>1
<1>. QED BY <1>1, <1>2, <1>3, <1>4 DEF Queried

LEMMA QueriedBySearch ==
  ASSUME Grounded, Queried, NEW i \in pending, SearchOne(i), seen' = seen
  PROVE  Queried'
<1>1. /\ pc = "search" /\ pending' = pending \ {i} /\ UNCHANGED <<pc, queries, marks, reply>>
      /\ i \in DOMAIN queries /\ queries[i] \in Queries
      /\ req \in Requests /\ mode \in {"hybrid", "bm25", "vector"}
  BY DEF SearchOne, Queried, Grounded, Stage
<1> DEFINE Listed(o) == IF Threshold = 0 THEN Page(o) ELSE Relevant(Page(o))
<1>2. PICK S \in Visible : \E order \in Ranked(queries[i], mode, S) :
        /\ found' = [found EXCEPT ![i] = WithHighlights(queries[i], Listed(order))]
        /\ total' = IF Threshold = 0 THEN Total(Page(order)) ELSE req.offset + Len(Listed(order))
  BY DEF SearchOne
<1>3. PICK order \in Ranked(queries[i], mode, S) :
        /\ found' = [found EXCEPT ![i] = WithHighlights(queries[i], Listed(order))]
        /\ total' = IF Threshold = 0 THEN Total(Page(order)) ELSE req.offset + Len(Listed(order))
  BY <1>2
<1> DEFINE list == Listed(order)
<1>4. S \subseteq Good /\ IsFiniteSet(S)
  BY <1>1, VisibleFacts
<1>5. HitsOf(order, S)
  BY <1>1, <1>4, RankedFacts
<1>6. HitsOf(Page(order), S) /\ Len(Page(order)) \in Nat
  BY <1>1, <1>5, PageFacts
<1>7. HitsOf(Relevant(Page(order)), S)
  BY <1>6, PickedHits DEF Relevant
<1>8. HitsOf(list, S)
  BY <1>6, <1>7
<1>9. total' \in Nat
  <2>1. Len(list) \in Nat
    BY <1>8, ListDomain DEF HitsOf
  <2>2. req.limit \in Nat /\ req.offset \in Nat
    BY <1>1, AnsweringAssumption
  <2> HIDE DEF list
  <2>3. total' = IF Threshold = 0 THEN Total(Page(order)) ELSE req.offset + Len(list)
    BY <1>3 DEF list
  <2>. QED BY <1>6, <2>1, <2>2, <2>3 DEF Total
<1>10. WindowsIn(WithHighlights(queries[i], list))
  <2> HIDE DEF list
  <2>1. \A k \in DOMAIN list : list[k].row.content \in Passages
    <3>1. S \subseteq Row
      BY <1>4 DEF Good, Queried
    <3>2. \A k \in DOMAIN list : list[k].row \in Row
      BY <1>8, <3>1 DEF HitsOf
    <3>. QED BY <3>2 DEF Row
  <2>2. \A k \in DOMAIN list : Highlights[queries[i]][list[k].row.content]
                                 \in TakenOf(list[k].row.content)
    BY <1>1, <2>1, HighlightsTaken
  <2>. QED BY <2>2 DEF WindowsIn, WithHighlights
<1>11. /\ DOMAIN found' = DOMAIN found
       /\ \A j \in DOMAIN found' : WindowsIn(found'[j])
  <2> DEFINE shown == WithHighlights(queries[i], list)
  <2>1. found' = [found EXCEPT ![i] = shown] /\ WindowsIn(shown)
    BY <1>3, <1>10
  <2> HIDE DEF shown
  <2>. QED BY <2>1 DEF Queried
<1>. QED BY <1>1, <1>9, <1>11 DEF Queried

LEMMA QueriedByGenerate ==
  ASSUME Grounded, Queried, Generate, seen' = seen
  PROVE  Queried'
<1>1. /\ pc' = "over" /\ reply' = "answered" /\ UNCHANGED <<queries, pending, found, total>>
      /\ \E cited \in Answers : marks' \subseteq cited
  BY DEF Generate, Ends, ValidMarks
<1>2. Len(sources) \in Nat
  BY ListDomain DEF Grounded, Merged, HitsOf
<1>3. marks' \in SUBSET Nat
  BY <1>1, <1>2 DEF Answers
<1>. QED BY <1>1, <1>3 DEF Queried, Over

\* Requests that begin, and the steps that leave queries and results alone.
LEMMA QueriedByBegin ==
  ASSUME Queried, rows \subseteq Row, NEW r \in Requests, Begin(r), seen' = rows
  PROVE  Queried'
<1>1. r.query \in Queries /\ reply' = reply /\ UNCHANGED <<marks>> /\ pc = "idle" /\ pc' # "over"
  BY AnsweringAssumption DEF Begin
<1>2. total' = total
  BY DEF Begin
<1>3. CASE UNCHANGED <<queries, pending, found>>
  BY <1>1, <1>2, <1>3 DEF Queried
<1>4. CASE queries' = <<r.query>> /\ pending' = {1} /\ found' = <<(<<>>)>>
  <2>1. \A i \in DOMAIN found' : found'[i] = <<>>
    BY <1>4
  <2>2. \A i \in DOMAIN found' : WindowsIn(found'[i])
    BY <2>1 DEF WindowsIn
  <2>3. /\ DOMAIN queries' = {1} /\ DOMAIN found' = {1}
       /\ \A i \in DOMAIN queries' : queries'[i] = r.query
    BY <1>4
  <2>. QED BY <1>1, <1>2, <1>4, <2>2, <2>3 DEF Queried
<1>. QED BY <1>3, <1>4 DEF Begin

LEMMA QueriedByRest ==
  ASSUME Grounded, Queried, seen' = seen,
         \/ AskFails \/ Unreachable \/ Respond \/ Gather \/ FindNothing \/ RerankFails \/ Rerank
         \/ Assemble \/ StreamToken \/ StreamDone \/ Leave
  PROVE  Queried'
<1>1. UNCHANGED <<queries, pending, found, total, marks>>
  BY DEF AskFails, Unreachable, Respond, Gather, FindNothing, RerankFails, Rerank, Assemble,
         StreamToken, StreamDone, Leave
<1>2. /\ reply' \in Over \cup {"none"} /\ (pc' = "over" <=> reply' # "none")
  <2> USE DEF Queried, Ends, Over
  <2>1. CASE AskFails
    BY <2>1 DEF AskFails
  <2>2. CASE Unreachable
    <3>1. req.kind \in {"search", "ask", "stream"}
      BY <2>2, AnsweringAssumption DEF Unreachable, Grounded, Stage
    <3>. QED BY <2>2, <3>1 DEF Unreachable
  <2>3. CASE Respond
    BY <2>3 DEF Respond
  <2>4. CASE FindNothing
    BY <2>4 DEF FindNothing
  <2>5. CASE StreamDone
    BY <2>5 DEF StreamDone
  <2>6. CASE Leave
    BY <2>6 DEF Leave
  <2>7. CASE Gather \/ RerankFails \/ Rerank \/ Assemble \/ StreamToken
    BY <2>7 DEF Gather, RerankFails, Rerank, Assemble, StreamToken
  <2>. QED BY <2>1, <2>2, <2>3, <2>4, <2>5, <2>6, <2>7
<1>. QED BY <1>1, <1>2 DEF Queried

LEMMA QueriedStep ==
  ASSUME Grounded, Queried, rows \subseteq Row, (rows \subseteq Row)', [Next]_kbVars
  PROVE  Queried'
<1>1. CASE UNCHANGED kbVars
  BY <1>1 DEF kbVars, askVars, Queried
<1>2. CASE IndexWork \/ Managed
  <2>1. UNCHANGED askVars /\ seen' \subseteq Row
    BY <1>2 DEF IndexWork, Managed, Observe, Queried
  <2>. QED BY <2>1 DEF askVars, Queried
<1>3. CASE AskWork
  BY <1>3, QueriedByDecompose, QueriedBySearch, QueriedByGenerate, QueriedByRest
     DEF AskWork, AskStep
<1>4. CASE ClientGoes
  BY <1>4, QueriedByRest DEF ClientGoes
<1>5. CASE ClientComes
  BY <1>5, QueriedByBegin DEF ClientComes
<1>. QED BY <1>1, <1>2, <1>3, <1>4, <1>5 DEF Next

LEMMA QueriedHolds == Spec => []Queried
<1>1. Init => Queried
  BY DEF Init, AskInit, Queried, Over
<1>2. IndexTypeOK => rows \subseteq Row
  BY DEF IndexTypeOK
<1>3. Spec => [](rows \subseteq Row)
  BY <1>2, ImplementsIndexing, IndexTypesHold, PTL
<1>4. Grounded /\ Queried /\ rows \subseteq Row /\ (rows \subseteq Row)' /\ [Next]_kbVars => Queried'
  BY QueriedStep
<1>. QED BY <1>1, <1>3, <1>4, GroundedHolds, PTL DEF Spec

\* The highlights of a result are at most three, lie within its content and do not overlap,
\* whatever the terms of its query and wherever they occur in it.
THEOREM HighlightsAreDisjoint == Spec => []HighlightsDisjoint
<1>1. Queried => HighlightsDisjoint
  <2> SUFFICES ASSUME Queried, NEW i \in DOMAIN found, NEW k \in DOMAIN found[i],
                      NEW h, h = found[i][k]
               PROVE  /\ Len(h.windows) <= MaxHighlights
                      /\ \A v \in Range(h.windows) :
                           v.from < v.to /\ v.to <= Measure[h.row.content].chars
                      /\ \A j, l \in DOMAIN h.windows :
                           j < l => \/ h.windows[j].to <= h.windows[l].from
                                    \/ h.windows[l].to <= h.windows[j].from
    BY DEF HighlightsDisjoint, Range
  <2>1. h.windows \in TakenOf(h.row.content)
    BY DEF Queried, WindowsIn
  <2>. QED BY <2>1 DEF TakenOf, Marked, Apart, Range
<1>. QED BY <1>1, QueriedHolds, PTL

\* The knowledge base keeps its types: of the chunks the jobs store, and of what a request
\* holds of them.
THEOREM TypesHold == Spec => []TypeOK
<1>1. Received => events \in Seq(Event)
  <2> SUFFICES ASSUME Received PROVE events \in Seq(Event)
    OBVIOUS
  <2>1. <<>> \in Seq(Event)
    BY EmptySeq
  <2>2. \A e : Opened(e) => e \in Seq(Event)
    BY DEF Opened
  <2>3. \A e : Closed(e) => e \in Seq(Event)
    <3> SUFFICES ASSUME NEW e, NEW o, NEW x, Opened(o), x \in {"done", "error"}, e = Append(o, x)
                 PROVE  e \in Seq(Event)
      BY DEF Closed
    <3>1. o \in Seq(Event) /\ x \in Event
      BY DEF Opened, Event
    <3>. QED BY <3>1, AppendProperties
  <2>. QED BY <2>1, <2>2, <2>3, StartOpens DEF Received
<1>2. Received /\ Grounded /\ Queried /\ IndexTypeOK => TypeOK
  BY <1>1 DEF Received, Grounded, Stage, Queried, TypeOK, AskTypeOK, Event
<1>. QED BY <1>2, ReceivedHolds, GroundedHolds, QueriedHolds, ImplementsIndexing, IndexTypesHold, PTL

-----------------------------------------------------------------------------
(***************************************************************************)
(* Sums: MapThenSumSet adds the elements of a finite set one by one, in    *)
(* the order CHOOSE takes them; the sum is that of any other order.        *)
(***************************************************************************)

\* Of some subsets of a finite set, one that contains no other.
LEMMA Smallest ==
  ASSUME NEW S, IsFiniteSet(S), NEW B, B \subseteq SUBSET S, B # {}
  PROVE  \E T \in B : \A U \in SUBSET T : U # T => U \notin B
<1>1. \A T \in B : IsFiniteSet(T) /\ Cardinality(T) \in Nat
  BY FS_Subset, FS_CardinalityType
<1> DEFINE N == {Cardinality(T) : T \in B}
<1>2. N \in SUBSET Nat /\ N # {}
  BY <1>1
<1>3. Min(N) \in N /\ \A y \in N : Min(N) =< y
  <2> HIDE DEF N
  <2>. QED BY <1>2, MinOfSome
<1>4. PICK T \in B : \A U \in B : Cardinality(T) =< Cardinality(U)
  BY <1>3
<1>5. ASSUME NEW U \in SUBSET T, U # T PROVE U \notin B
  <2>1. Cardinality(U) < Cardinality(T)
    BY <1>1, <1>5, FS_Subset, FS_CardinalityType
  <2>. QED BY <1>1, <1>4, <2>1, FS_CardinalityType
<1>. QED BY <1>5

OneOf(s) == CHOOSE x \in s : TRUE

\* g[s] adds f[x] for every x \in s.
Adds(g, f, S) == g = [s \in SUBSET S |-> IF s = {} THEN 0 ELSE f[OneOf(s)] + g[s \ {OneOf(s)}]]

LEMMA AnyOf == ASSUME NEW s, s # {} PROVE OneOf(s) \in s
BY DEF OneOf

LEMMA AddingExists ==
  ASSUME NEW S, IsFiniteSet(S), NEW f \in [S -> Int]
  PROVE  \E g : Adds(g, f, S)
<1> DEFINE Up(m) == {s \in SUBSET S : Cardinality(s) <= m}
           Rule(g, s) == IF s = {} THEN 0 ELSE f[OneOf(s)] + g[s \ {OneOf(s)}]
           Done(m) == \E g \in [Up(m) -> Int] : \A s \in Up(m) : g[s] = Rule(g, s)
           Open == {m \in 0 .. Cardinality(S) : ~ Done(m)}
<1>1. Cardinality(S) \in Nat
  BY FS_CardinalityType
<1>2. \A s \in SUBSET S : IsFiniteSet(s) /\ Cardinality(s) \in Nat /\ Cardinality(s) <= Cardinality(S)
  BY FS_Subset, FS_CardinalityType
<1>3. \A s \in SUBSET S : s # {} =>
        /\ OneOf(s) \in S /\ s \ {OneOf(s)} \in SUBSET S
        /\ Cardinality(s \ {OneOf(s)}) = Cardinality(s) - 1
  BY <1>2, AnyOf, FS_RemoveElement
<1>4. Done(0)
  <2> DEFINE g == [s \in Up(0) |-> 0]
  <2>1. \A s \in Up(0) : s = {}
    BY <1>2, FS_EmptySet
  <2>2. g \in [Up(0) -> Int] /\ \A s \in Up(0) : g[s] = 0
    OBVIOUS
  <2> HIDE DEF g
  <2>. QED BY <2>1, <2>2
<1>5. ASSUME NEW m \in 1 .. Cardinality(S), Done(m - 1) PROVE Done(m)
  <2>1. PICK g \in [Up(m - 1) -> Int] : \A s \in Up(m - 1) : g[s] = Rule(g, s)
    BY <1>5
  <2> DEFINE h == [s \in Up(m) |-> Rule(g, s)]
  <2>2. m \in Nat
    BY <1>1
  <2>3. \A s \in Up(m) : s # {} => s \ {OneOf(s)} \in Up(m - 1)
    BY <1>2, <1>3, <2>2
  <2>4. \A s \in Up(m) : Rule(g, s) \in Int
    <3> SUFFICES ASSUME NEW s \in Up(m), s # {} PROVE f[OneOf(s)] + g[s \ {OneOf(s)}] \in Int
      OBVIOUS
    <3>1. f[OneOf(s)] \in Int
      BY <1>3
    <3>2. g[s \ {OneOf(s)}] \in Int
      BY <2>3
    <3>. QED BY <3>1, <3>2
  <2>5. h \in [Up(m) -> Int]
    <3> HIDE DEF Rule
    <3>. QED BY <2>4
  <2>6. \A s \in Up(m - 1) : s \in Up(m) /\ h[s] = g[s]
    <3>1. \A s \in Up(m - 1) : s \in Up(m)
      BY <1>2, <2>2
    <3> HIDE DEF Up, Rule
    <3>. QED BY <2>1, <3>1
  <2>7. \A s \in Up(m) : h[s] = Rule(g, s)
    <3> HIDE DEF Up, Rule
    <3>. QED OBVIOUS
  <2> HIDE DEF h
  <2>8. \A s \in Up(m) : Rule(g, s) = Rule(h, s)
    <3> HIDE DEF Up
    <3>. QED BY <2>3, <2>6
  <2> HIDE DEF Up, Rule
  <2>. QED BY <2>5, <2>7, <2>8
<1>6. Done(Cardinality(S))
  <2> SUFFICES ASSUME Open # {} PROVE FALSE
    <3> HIDE DEF Done
    <3>. QED BY <1>1
  <2> DEFINE m == Min(Open)
  <2>1. m \in Open /\ \A j \in Open : m =< j
    <3>1. Open \in SUBSET Nat
      <4> HIDE DEF Done
      <4>. QED BY <1>1
    <3> HIDE DEF Open
    <3>. QED BY <3>1, MinOfSome
  <2> HIDE DEF m, Done
  <2>2. m \in 1 .. Cardinality(S) /\ m - 1 \in 0 .. Cardinality(S) /\ ~ (m =< m - 1)
    BY <1>1, <1>4, <2>1
  <2>3. Done(m - 1)
    BY <2>1, <2>2
  <2>. QED BY <1>5, <2>1, <2>2, <2>3
<1>7. Up(Cardinality(S)) = SUBSET S
  BY <1>2
<1>8. PICK g \in [SUBSET S -> Int] : \A s \in SUBSET S : g[s] = Rule(g, s)
  <2> HIDE DEF Up, Rule
  <2>. QED BY <1>6, <1>7
<1>9. g = [s \in SUBSET S |-> Rule(g, s)]
  <2> HIDE DEF Rule
  <2>. QED BY <1>8
<1>. QED BY <1>9 DEF Adds

\* What it is of a set: that of the set without one of its elements, whichever, and that
\* element.
Totals(g, f, S) ==
  /\ \A T \in SUBSET S : g[T] \in Int
  /\ g[{}] = 0
  /\ \A T \in SUBSET S : \A x \in T : g[T] = f[x] + g[T \ {x}]

LEMMA AddsFacts ==
  ASSUME NEW S, IsFiniteSet(S), NEW f \in [S -> Int], NEW g, Adds(g, f, S)
  PROVE  Totals(g, f, S)
<1>1. /\ g[{}] = 0
      /\ \A T \in SUBSET S : T # {} => g[T] = f[OneOf(T)] + g[T \ {OneOf(T)}]
  <2> DEFINE Rule(s) == IF s = {} THEN 0 ELSE f[OneOf(s)] + g[s \ {OneOf(s)}]
  <2>1. g = [s \in SUBSET S |-> Rule(s)]
    BY DEF Adds
  <2> HIDE DEF Rule
  <2>2. \A T \in SUBSET S : g[T] = Rule(T)
    BY <2>1
  <2>. QED BY <2>2 DEF Rule
<1>2. \A T \in SUBSET S : T # {} => OneOf(T) \in T /\ OneOf(T) \in S
  BY AnyOf
<1>3. \A T \in SUBSET S : g[T] \in Int
  <2> DEFINE B == {T \in SUBSET S : g[T] \notin Int}
  <2> SUFFICES ASSUME B # {} PROVE FALSE
    OBVIOUS
  <2>1. PICK T \in B : \A U \in SUBSET T : U # T => U \notin B
    <3>1. B \subseteq SUBSET S
      OBVIOUS
    <3> HIDE DEF B
    <3>. QED BY <3>1, Smallest
  <2>2. T \in SUBSET S /\ g[T] \notin Int
    OBVIOUS
  <2>3. T # {}
    <3>1. g[{}] \in Int
      BY <1>1
    <3>. QED BY <2>2, <3>1, Zenon
  <2>4. OneOf(T) \in T /\ f[OneOf(T)] \in Int /\ g[T] = f[OneOf(T)] + g[T \ {OneOf(T)}]
    BY <1>1, <1>2, <2>2, <2>3
  <2>5. g[T \ {OneOf(T)}] \in Int
    BY <2>1, <2>2, <2>4
  <2> HIDE DEF B
  <2>. QED BY <2>2, <2>4, <2>5
<1>4. \A T \in SUBSET S : \A x \in T : g[T] = f[x] + g[T \ {x}]
  <2> DEFINE Fine(T) == \A x \in T : g[T] = f[x] + g[T \ {x}]
             B == {T \in SUBSET S : ~ Fine(T)}
  <2> SUFFICES ASSUME B # {} PROVE FALSE
    OBVIOUS
  <2>1. PICK T \in B : \A U \in SUBSET T : U # T => U \notin B
    <3>1. B \subseteq SUBSET S
      OBVIOUS
    <3> HIDE DEF B
    <3>. QED BY <3>1, Smallest
  <2>2. PICK x \in T : ~ (g[T] = f[x] + g[T \ {x}])
    BY <2>1
  <2> DEFINE y == OneOf(T)
             X == T \ {x}
             Y == T \ {y}
             W == X \ {y}
  <2>3. y \in T /\ y \in S /\ x \in S /\ g[T] = f[y] + g[Y] /\ y # x
    BY <1>1, <1>2, <2>2
  <2>4. X \in SUBSET S /\ Y \in SUBSET S /\ W \in SUBSET S /\ y \in X /\ x \in Y /\ W = Y \ {x}
    BY <2>3
  <2>5. Fine(X) /\ Fine(Y)
    <3> HIDE DEF Fine
    <3>1. X \in SUBSET T /\ X # T /\ Y \in SUBSET T /\ Y # T
      BY <2>3
    <3>. QED BY <2>1, <2>4, <3>1
  <2> HIDE DEF y
  <2>6. g[X] = f[y] + g[W] /\ g[Y] = f[x] + g[W]
    BY <2>4, <2>5
  <2>7. f[x] \in Int /\ f[y] \in Int /\ g[W] \in Int
    BY <1>3, <2>3, <2>4
  <2> HIDE DEF W, X, Y
  <2>8. g[T] = f[x] + g[X]
    BY <2>3, <2>6, <2>7
  <2>. QED BY <2>2, <2>8 DEF X
<1>. QED BY <1>1, <1>3, <1>4 DEF Totals

\* What is greater of each is greater in sum.
LEMMA GreaterSum ==
  ASSUME NEW S, IsFiniteSet(S), S # {}, NEW e \in [S -> Int], NEW f \in [S -> Int],
         \A x \in S : e[x] < f[x], NEW g, NEW h, Adds(g, e, S), Adds(h, f, S)
  PROVE  g[S] < h[S]
<1>1. /\ \A T \in SUBSET S : g[T] \in Int
      /\ g[{}] = 0
      /\ \A T \in SUBSET S : \A x \in T : g[T] = e[x] + g[T \ {x}]
  <2>1. Totals(g, e, S)
    BY AddsFacts
  <2>. QED BY <2>1 DEF Totals
<1>2. /\ \A T \in SUBSET S : h[T] \in Int
      /\ h[{}] = 0
      /\ \A T \in SUBSET S : \A x \in T : h[T] = f[x] + h[T \ {x}]
  <2>1. Totals(h, f, S)
    BY AddsFacts
  <2>. QED BY <2>1 DEF Totals
<1> DEFINE Less(T) == g[T] <= h[T] /\ (T # {} => g[T] < h[T])
           B == {T \in SUBSET S : ~ Less(T)}
<1>3. B = {}
  <2> SUFFICES ASSUME B # {} PROVE FALSE
    OBVIOUS
  <2>1. PICK T \in B : \A U \in SUBSET T : U # T => U \notin B
    <3>1. B \subseteq SUBSET S
      OBVIOUS
    <3> HIDE DEF B
    <3>. QED BY <3>1, Smallest
  <2>2. T \in SUBSET S /\ ~ Less(T)
    OBVIOUS
  <2>3. T # {}
    <3>1. Less({})
      BY <1>1, <1>2
    <3> HIDE DEF Less
    <3>. QED BY <2>2, <3>1, Zenon
  <2>4. PICK x : x \in T
    BY <2>3
  <2>5. Less(T \ {x})
    <3> HIDE DEF Less
    <3>. QED BY <2>1, <2>2, <2>4
  <2>6. /\ g[T] = e[x] + g[T \ {x}] /\ h[T] = f[x] + h[T \ {x}]
        /\ g[T \ {x}] \in Int /\ h[T \ {x}] \in Int
        /\ e[x] \in Int /\ f[x] \in Int /\ e[x] < f[x]
    BY <1>1, <1>2, <2>2, <2>4
  <2>7. g[T] < h[T]
    <3>1. g[T \ {x}] <= h[T \ {x}]
      BY <2>5
    <3> DEFINE v == g[T \ {x}]
               w == h[T \ {x}]
    <3>2. g[T] = e[x] + v /\ h[T] = f[x] + w /\ v \in Int /\ w \in Int /\ v <= w
      BY <2>6, <3>1
    <3> HIDE DEF v, w, B, Less
    <3>. QED BY <2>6, <3>2
  <2>8. g[T] \in Int /\ h[T] \in Int
    BY <1>1, <1>2, <2>2
  <2>. QED BY <2>2, <2>7, <2>8
<1>4. Less(S)
  <2> HIDE DEF Less
  <2>. QED BY <1>3
<1>. QED BY <1>4

\* The sum of f over 1 .. n, step by step.
SumsUp(p, f, n) == p[0] = 0 /\ \A m \in 1 .. n : p[m] = p[m - 1] + f[m]

LEMMA AddsUp ==
  ASSUME NEW n \in Nat, NEW N, N = 1 .. n, NEW f \in [N -> Int], NEW g, Adds(g, f, N)
  PROVE  \E p \in [0 .. n -> Int] : SumsUp(p, f, n) /\ g[N] = p[n]
<1>1. IsFiniteSet(N)
  BY FS_Interval
<1>2. /\ \A T \in SUBSET N : g[T] \in Int
      /\ g[{}] = 0
      /\ \A T \in SUBSET N : \A x \in T : g[T] = f[x] + g[T \ {x}]
  <2>1. Totals(g, f, N)
    BY <1>1, AddsFacts
  <2>. QED BY <2>1 DEF Totals
<1> DEFINE p == [m \in 0 .. n |-> g[1 .. m]]
<1>3. \A m \in 0 .. n : 1 .. m \in SUBSET N
  OBVIOUS
<1>4. p \in [0 .. n -> Int]
  BY <1>2, <1>3
<1>5. p[0] = 0
  <2>1. 1 .. 0 = {} /\ 0 \in 0 .. n
    OBVIOUS
  <2>. QED BY <1>2, <2>1
<1>6. ASSUME NEW m \in 1 .. n PROVE p[m] = p[m - 1] + f[m]
  <2>1. m \in 1 .. m /\ (1 .. m) \ {m} = 1 .. m - 1 /\ m \in 0 .. n /\ m - 1 \in 0 .. n
    OBVIOUS
  <2>2. g[1 .. m] = f[m] + g[1 .. m - 1]
    <3>1. 1 .. m \in SUBSET N
      BY <1>3, <2>1
    <3>2. g[1 .. m] = f[m] + g[(1 .. m) \ {m}]
      BY <1>2, <2>1, <3>1
    <3>. QED BY <2>1, <3>2
  <2>3. p[m] = g[1 .. m] /\ p[m - 1] = g[1 .. m - 1] /\ p[m - 1] \in Int /\ f[m] \in Int
    BY <1>4, <2>1
  <2> HIDE DEF p
  <2>. QED BY <2>2, <2>3
<1>7. p[n] = g[N]
  OBVIOUS
<1> HIDE DEF p
<1>. QED BY <1>4, <1>5, <1>6, <1>7 DEF SumsUp

-----------------------------------------------------------------------------
(***************************************************************************)
(* The budget of the context.                                              *)
(***************************************************************************)

\* What the first n results cost, added up one by one.
LEMMA UsedByAdds ==
  ASSUME NEW n \in Nat, \A k \in 1 .. n : Cost(k) \in Int
  PROVE  \E p \in [0 .. n -> Int] :
           SumsUp(p, [k \in 1 .. n |-> Cost(k)], n) /\ UsedBy(n) = p[n]
<1> DEFINE N == 1 .. n
           f == [k \in N |-> Cost(k)]
           Sum(g) == [s \in SUBSET N |-> IF s = {} THEN 0 ELSE Cost(OneOf(s)) + g[s \ {OneOf(s)}]]
           iter == CHOOSE g : g = Sum(g)
<1>1. UsedBy(n) = iter[N]
  BY DEF UsedBy, MapThenSumSet, MapThenFoldSet, OneOf
<1>2. f \in [N -> Int] /\ IsFiniteSet(N)
  BY FS_Interval
<1>3. ASSUME NEW g, NEW h,
             h = [s \in SUBSET N |-> IF s = {} THEN 0 ELSE f[OneOf(s)] + g[s \ {OneOf(s)}]]
      PROVE  h = Sum(g)
  <2>1. \A s \in SUBSET N : s # {} => f[OneOf(s)] = Cost(OneOf(s))
    <3>1. \A s \in SUBSET N : s # {} => OneOf(s) \in N
      BY AnyOf
    <3> HIDE DEF N
    <3>. QED BY <3>1
  <2> HIDE DEF N, f
  <2>. QED BY <1>3, <2>1
<1> HIDE DEF N, f
<1>4. PICK g : g = Sum(g)
  <2>1. PICK g : Adds(g, f, N)
    BY <1>2, AddingExists
  <2>2. g = Sum(g)
    <3> HIDE DEF Sum
    <3>. QED BY <1>3, <2>1 DEF Adds
  <2>. QED BY <2>2
<1>5. iter = Sum(iter)
  <2> HIDE DEF Sum
  <2>. QED BY <1>4
<1> HIDE DEF iter
<1>6. Adds(iter, f, N)
  <2> DEFINE F(h) == [s \in SUBSET N |-> IF s = {} THEN 0 ELSE f[OneOf(s)] + h[s \ {OneOf(s)}]]
  <2>1. F(iter) = Sum(iter)
    <3> HIDE DEF Sum
    <3>. QED BY <1>3
  <2>2. iter = F(iter)
    BY <1>5, <2>1
  <2>. QED BY <2>2 DEF Adds
<1>7. \E p \in [0 .. n -> Int] : SumsUp(p, f, n) /\ iter[N] = p[n]
  BY <1>2, <1>6, AddsUp DEF N
<1>. QED BY <1>1, <1>7 DEF f, N

\* The tokens of some sources with their headers.
SourceTokens(s) == MapThenSumSet(LAMBDA k : HeaderTokens + s[k].tokens, DOMAIN s)

LEMMA SourceTokensAdd ==
  ASSUME NEW n \in Nat, NEW s, DOMAIN s = 1 .. n, \A k \in 1 .. n : s[k].tokens \in Int
  PROVE  \E p \in [0 .. n -> Int] :
           SumsUp(p, [k \in 1 .. n |-> HeaderTokens + s[k].tokens], n) /\ SourceTokens(s) = p[n]
<1> DEFINE N == 1 .. n
           Each(k) == HeaderTokens + s[k].tokens
           f == [k \in N |-> Each(k)]
           Sum(g) == [t \in SUBSET N |-> IF t = {} THEN 0 ELSE Each(OneOf(t)) + g[t \ {OneOf(t)}]]
           iter == CHOOSE g : g = Sum(g)
<1>1. SourceTokens(s) = iter[N]
  BY DEF SourceTokens, MapThenSumSet, MapThenFoldSet, OneOf
<1>2. f \in [N -> Int] /\ IsFiniteSet(N)
  <2>1. HeaderTokens \in Int
    BY AnsweringAssumption
  <2>2. \A k \in N : Each(k) \in Int
    BY <2>1
  <2>3. IsFiniteSet(N)
    BY FS_Interval
  <2> HIDE DEF Each, N
  <2>. QED BY <2>2, <2>3
<1> HIDE DEF Each
<1>3. ASSUME NEW g, NEW h,
             h = [t \in SUBSET N |-> IF t = {} THEN 0 ELSE f[OneOf(t)] + g[t \ {OneOf(t)}]]
      PROVE  h = Sum(g)
  <2>1. \A t \in SUBSET N : t # {} => f[OneOf(t)] = Each(OneOf(t))
    <3>1. \A t \in SUBSET N : t # {} => OneOf(t) \in N
      BY AnyOf
    <3> HIDE DEF N
    <3>. QED BY <3>1
  <2> HIDE DEF N, f
  <2>. QED BY <1>3, <2>1
<1> HIDE DEF N, f
<1>4. PICK g : g = Sum(g)
  <2>1. PICK g : Adds(g, f, N)
    BY <1>2, AddingExists
  <2>2. g = Sum(g)
    <3> HIDE DEF Sum
    <3>. QED BY <1>3, <2>1 DEF Adds
  <2>. QED BY <2>2
<1>5. iter = Sum(iter)
  <2> HIDE DEF Sum
  <2>. QED BY <1>4
<1> HIDE DEF iter
<1>6. Adds(iter, f, N)
  <2> DEFINE F(h) == [t \in SUBSET N |-> IF t = {} THEN 0 ELSE f[OneOf(t)] + h[t \ {OneOf(t)}]]
  <2>1. F(iter) = Sum(iter)
    <3> HIDE DEF Sum
    <3>. QED BY <1>3
  <2>2. iter = F(iter)
    BY <1>5, <2>1
  <2>. QED BY <2>2 DEF Adds
<1>7. \E p \in [0 .. n -> Int] : SumsUp(p, f, n) /\ iter[N] = p[n]
  BY <1>2, <1>6, AddsUp DEF N
<1>. QED BY <1>1, <1>7 DEF f, N, Each

\* Whole results cost their headers, their tokens and what separates them.
LEMMA CostsTogether ==
  ASSUME NEW n \in Nat, NEW p \in [0 .. n -> Int], NEW q \in [0 .. n -> Int],
         SumsUp(p, [k \in 1 .. n |-> Cost(k)], n),
         NEW tokens \in [1 .. n -> Int],
         \A k \in 1 .. n : Measure[hits[k].row.content].tokens = tokens[k],
         \A k \in 1 .. n : q[k] = q[k - 1] + (HeaderTokens + tokens[k]), q[0] = 0
  PROVE  p[n] = q[n] + (IF n > 0 THEN SeparatorTokens * (n - 1) ELSE 0)
<1> DEFINE Between(m) == IF m > 0 THEN SeparatorTokens * (m - 1) ELSE 0
           d == [m \in 0 .. n |-> p[m] - q[m] - Between(m)]
<1>1. SeparatorTokens \in Nat /\ HeaderTokens \in Nat
  BY AnsweringAssumption
<1>2. \A m \in 0 .. n : Between(m) \in Int
  BY <1>1
<1>3. \A m \in 1 .. n : Between(m) = Between(m - 1) + (IF m > 1 THEN SeparatorTokens ELSE 0)
  <2> TAKE m \in 1 .. n
  <2>1. CASE m = 1
    BY <1>1, <2>1
  <2>2. CASE m > 1
    <3>1. SeparatorTokens * (m - 1) = SeparatorTokens * (m - 1 - 1) + SeparatorTokens
      BY <1>1
    <3>. QED BY <2>2, <3>1
  <2>. QED BY <2>1, <2>2
<1>4. \A m \in 1 .. n : Cost(m) = HeaderTokens + tokens[m] + (IF m > 1 THEN SeparatorTokens ELSE 0)
  BY DEF Cost
<1>5. p[0] = 0 /\ \A m \in 1 .. n : p[m] = p[m - 1] + Cost(m)
  BY DEF SumsUp
<1> HIDE DEF Between
<1>6. ASSUME NEW m \in 1 .. n PROVE d[m] = d[m - 1]
  <2>1. m \in 0 .. n /\ m - 1 \in 0 .. n
    OBVIOUS
  <2>2. p[m - 1] \in Int /\ q[m - 1] \in Int /\ tokens[m] \in Int
    BY <2>1
  <2>3. d[m] = p[m] - q[m] - Between(m) /\ d[m - 1] = p[m - 1] - q[m - 1] - Between(m - 1)
    BY <2>1
  <2>4. p[m] = p[m - 1] + (HeaderTokens + tokens[m] + (IF m > 1 THEN SeparatorTokens ELSE 0))
    BY <1>4, <1>5
  <2>5. q[m] = q[m - 1] + (HeaderTokens + tokens[m])
    OBVIOUS
  <2>6. /\ Between(m - 1) \in Int
        /\ Between(m) = Between(m - 1) + (IF m > 1 THEN SeparatorTokens ELSE 0)
    BY <1>2, <1>3, <2>1
  <2> HIDE DEF d
  <2> DEFINE b == Between(m - 1)
             e == IF m > 1 THEN SeparatorTokens ELSE 0
             x == HeaderTokens + tokens[m]
             v == p[m - 1]
             w == q[m - 1]
  <2>7. b \in Int /\ e \in Int /\ x \in Int /\ v \in Int /\ w \in Int
    BY <1>1, <2>2, <2>6
  <2>8. /\ d[m] = (v + (x + e)) - (w + x) - (b + e)
        /\ d[m - 1] = v - w - b
    <3>1. HeaderTokens + tokens[m] + e = x + e
      BY <1>1, <2>2
    <3>. QED BY <2>3, <2>4, <2>5, <2>6, <3>1
  <2> HIDE DEF b, e, x, v, w
  <2>. QED BY <2>7, <2>8
<1>7. d[0] = 0
  <2>1. 0 \in 0 .. n /\ Between(0) = 0
    BY DEF Between
  <2>. QED BY <1>5, <2>1
<1> HIDE DEF d
<1>8. Keeps(d, n, {0})
  BY <1>6, <1>7 DEF Keeps
<1>9. d[n] = 0
  <2>1. \A i \in 0 .. n : d[i] \in {0}
    BY <1>8, StaysIn
  <2>. QED BY <2>1
<1>10. p[n] - q[n] - Between(n) = 0 /\ p[n] \in Int /\ q[n] \in Int /\ Between(n) \in Int
  BY <1>2, <1>9 DEF d
<1>11. p[n] = q[n] + Between(n)
  <2> DEFINE v == p[n]
             w == q[n]
             b == Between(n)
  <2>1. v - w - b = 0 /\ v \in Int /\ w \in Int /\ b \in Int
    BY <1>10
  <2>2. v = w + b
    <3> HIDE DEF v, w, b
    <3>. QED BY <2>1
  <2>. QED BY <2>2
<1>. QED BY <1>11 DEF Between

\* What the sources of the context cost, as soon as there is one.
Budgeted ==
  pc = "generate" =>
    SourceTokens(sources) + SeparatorTokens * (Len(sources) - 1)
      <= Available[req.query] + Ellipsis

LEMMA FittingFacts ==
  ASSUME Len(hits) \in Nat
  PROVE  \E F \in 0 .. Len(hits) : F = Fitting /\ (F # 0 => UsedBy(F) <= Available[req.query])
<1> DEFINE S == {0} \cup {m \in 1 .. Len(hits) : UsedBy(m) <= Available[req.query]}
<1>1. /\ S \in SUBSET (0 .. Len(hits)) /\ S # {}
      /\ \A m \in S : m # 0 => UsedBy(m) <= Available[req.query]
  OBVIOUS
<1>2. Fitting = Max(S)
  BY DEF Fitting
<1> HIDE DEF S
<1>3. Max(S) \in S
  BY <1>1, MaxOfSome
<1>. QED BY <1>1, <1>2, <1>3

LEMMA BudgetedByAssemble ==
  ASSUME Grounded, Queried, Assemble
  PROVE  Budgeted'
<1>1. /\ pc = "assemble" /\ req' = req /\ req \in Requests /\ HitsOf(hits, Good)
  BY DEF Assemble, Grounded, Stage, Merged
<1>2. DOMAIN hits = 1 .. Len(hits) /\ Len(hits) \in Nat
  BY <1>1, ListDomain DEF HitsOf
<1>3. \A k \in 1 .. Len(hits) : Measure[hits[k].row.content].tokens \in Nat
  <2> TAKE k \in 1 .. Len(hits)
  <2>1. hits[k].row \in Row
    BY <1>1, <1>2 DEF HitsOf, Good, Queried
  <2>2. hits[k].row.content \in Passages
    BY <2>1 DEF Row
  <2>. QED BY <2>2, IndexingAssumption DEF Counts
<1>4. HeaderTokens \in Nat /\ SeparatorTokens \in Nat /\ Available[req.query] \in Nat
  BY <1>1, AnsweringAssumption
<1>5. PICK F \in 0 .. Len(hits) : F = Fitting /\ (F # 0 => UsedBy(F) <= Available[req.query])
  BY <1>2, FittingFacts
<1> DEFINE avail == Available[req.query]
<1> DEFINE tokens == [k \in 1 .. F |-> Measure[hits[k].row.content].tokens]
<1>6. \A k \in 1 .. F : Cost(k) \in Int /\ tokens[k] \in Nat
  <2> TAKE k \in 1 .. F
  <2> DEFINE m == Measure[hits[k].row.content].tokens
  <2>1. m \in Nat /\ tokens[k] = m
    BY <1>2, <1>3
  <2>2. Cost(k) = HeaderTokens + m + (IF k > 1 THEN SeparatorTokens ELSE 0)
    BY DEF Cost
  <2> HIDE DEF m
  <2>. QED BY <1>4, <2>1, <2>2
<1>7. PICK p \in [0 .. F -> Int] : SumsUp(p, [k \in 1 .. F |-> Cost(k)], F) /\ UsedBy(F) = p[F]
  <2>1. F \in Nat /\ \A k \in 1 .. F : Cost(k) \in Int
    BY <1>2, <1>6
  <2>. QED BY <2>1, UsedByAdds
<1> DEFINE between == IF F > 0 THEN SeparatorTokens ELSE 0
           n == IF Truncates THEN F + 1 ELSE F
           Tokens(k) == IF k <= F THEN Measure[hits[k].row.content].tokens
                        ELSE Rest - HeaderTokens + Ellipsis
           s == sources'
<1>8. s = [k \in 1 .. n |-> SourceOf(k, Tokens(k))]
  BY <1>5 DEF Assemble
<1>9. Rest = avail - UsedBy(F) - between
  BY <1>5 DEF Rest
<1>10. UsedBy(F) \in Int /\ between \in Int /\ Rest \in Int
  <2>1. UsedBy(F) \in Int
    BY <1>2, <1>7
  <2>. QED BY <1>4, <1>9, <2>1
<1> HIDE DEF Tokens, between
<1>11. /\ DOMAIN s = 1 .. n /\ n \in Nat /\ n \in {F, F + 1} /\ F \in Nat
       /\ s = [k \in 1 .. n |-> s[k]]
       /\ \A k \in 1 .. n : s[k].tokens = Tokens(k)
  <2>1. n \in Nat /\ n \in {F, F + 1} /\ F \in Nat
    BY <1>2, <1>5
  <2> HIDE DEF n
  <2>. QED BY <1>8, <2>1 DEF SourceOf
<1>12. \A k \in 1 .. F : s[k].tokens = tokens[k] /\ k \in 1 .. n
  <2>1. \A k \in 1 .. F : k \in 1 .. n
    BY <1>11
  <2>. QED BY <1>11, <2>1 DEF Tokens
<1>13. n = F + 1 => s[n].tokens = Rest - HeaderTokens + Ellipsis
  BY <1>11 DEF Tokens
<1> HIDE DEF s, n, tokens, avail
<1>14. \A k \in 1 .. n : s[k].tokens \in Int
  <2>1. \A k \in 1 .. n : k \in 1 .. F \/ (k = n /\ n = F + 1)
    BY <1>11
  <2>2. Rest - HeaderTokens + Ellipsis \in Int
    BY <1>4, <1>10 DEF Ellipsis
  <2>. QED BY <1>6, <1>12, <1>13, <2>1, <2>2
<1>15. PICK q \in [0 .. n -> Int] :
         /\ SumsUp(q, [k \in 1 .. n |-> HeaderTokens + s[k].tokens], n)
         /\ SourceTokens(s) = q[n]
  BY <1>11, <1>14, SourceTokensAdd
<1>16. q[0] = 0 /\ \A k \in 1 .. n : q[k] = q[k - 1] + (HeaderTokens + s[k].tokens)
  BY <1>15 DEF SumsUp
<1>17. UsedBy(F) = q[F] + (IF F > 0 THEN SeparatorTokens * (F - 1) ELSE 0)
  <2> DEFINE r == [k \in 0 .. F |-> q[k]]
  <2>1. \A k \in 0 .. F : k \in 0 .. n /\ r[k] = q[k] /\ q[k] \in Int
    BY <1>11
  <2>2. r \in [0 .. F -> Int] /\ r[0] = 0 /\ r[F] = q[F]
    BY <1>11, <1>16, <2>1
  <2>3. \A k \in 1 .. F : r[k] = r[k - 1] + (HeaderTokens + tokens[k])
    <3>1. \A k \in 1 .. F : k \in 0 .. F /\ k - 1 \in 0 .. F
      BY <1>11
    <3>. QED BY <1>12, <1>16, <2>1, <3>1
  <2> HIDE DEF r
  <2>4. tokens \in [1 .. F -> Int]
    <3>1. \A k \in 1 .. F : tokens[k] \in Int
      BY <1>6
    <3>2. DOMAIN tokens = 1 .. F /\ tokens = [k \in 1 .. F |-> tokens[k]]
      BY DEF tokens
    <3>. QED BY <3>1, <3>2
  <2>5. \A k \in 1 .. F : Measure[hits[k].row.content].tokens = tokens[k]
    BY DEF tokens
  <2>6. p[F] = r[F] + (IF F > 0 THEN SeparatorTokens * (F - 1) ELSE 0)
    BY <1>7, <1>11, <2>2, <2>3, <2>4, <2>5, CostsTogether
  <2>. QED BY <1>7, <2>2, <2>6
<1>18. Len(s) = n
  BY <1>11, FunctionIsList
<1>19. q[n] + SeparatorTokens * (n - 1) <= avail + Ellipsis
  <2>0. avail \in Nat /\ q[F] \in Int /\ q[n] \in Int
    BY <1>4, <1>11 DEF avail
  <2>1. CASE n = F /\ F > 0
    <3>1. UsedBy(F) = q[n] + SeparatorTokens * (n - 1) /\ UsedBy(F) <= avail
      BY <1>5, <1>11, <1>17, <2>1 DEF avail
    <3>. QED BY <1>10, <2>0, <3>1 DEF Ellipsis
  <2>2. CASE n = F /\ ~ (F > 0)
    <3>1. n = 0 /\ q[n] = 0
      BY <1>11, <1>16, <2>2
    <3>2. SeparatorTokens * (n - 1) <= 0
      BY <1>4, <3>1
    <3>3. SeparatorTokens * (n - 1) \in Int
      BY <1>4, <3>1
    <3>. QED BY <2>0, <3>1, <3>2, <3>3 DEF Ellipsis
  <2>3. CASE n = F + 1
    <3>1. n \in 1 .. n /\ n - 1 = F
      BY <1>11, <2>3
    <3>2. q[n] = q[F] + (HeaderTokens + (Rest - HeaderTokens + Ellipsis))
      BY <1>13, <1>16, <2>3, <3>1
    <3>3. q[n] = q[F] + Rest + Ellipsis
      BY <1>4, <1>10, <2>0, <3>2 DEF Ellipsis
    <3>4. SeparatorTokens * F = (IF F > 0 THEN SeparatorTokens * (F - 1) ELSE 0) + between
      <4>1. CASE F > 0
        BY <1>4, <1>11, <4>1 DEF between
      <4>2. CASE ~ (F > 0)
        <5>1. F = 0
          BY <1>11, <4>2
        <5>. QED BY <1>4, <5>1 DEF between
      <4>. QED BY <4>1, <4>2
    <3> DEFINE sep == IF F > 0 THEN SeparatorTokens * (F - 1) ELSE 0
    <3>5. sep \in Int
      BY <1>4, <1>11
    <3>6. UsedBy(F) = q[F] + sep /\ SeparatorTokens * F = sep + between
      BY <1>17, <3>4
    <3> HIDE DEF sep
    <3>7. q[n] + SeparatorTokens * F = avail + Ellipsis
      <4> DEFINE x == q[F]
                 y == q[n]
                 z == SeparatorTokens * F
                 u == UsedBy(F)
      <4>1. x \in Int /\ sep \in Int /\ between \in Int /\ avail \in Int /\ u \in Int
        BY <1>10, <2>0, <3>5
      <4>2. y = x + (avail - u - between) + Ellipsis /\ u = x + sep /\ z = sep + between
        BY <1>9, <3>3, <3>6
      <4>3. y + z = avail + Ellipsis
        <5> HIDE DEF x, y, z, u
        <5>. QED BY <4>1, <4>2 DEF Ellipsis
      <4>. QED BY <4>3
    <3>. QED BY <2>0, <3>1, <3>7 DEF Ellipsis
  <2>. QED BY <1>11, <2>1, <2>2, <2>3
<1>20. SourceTokens(s) + SeparatorTokens * (Len(s) - 1) <= Available[req.query] + Ellipsis
  BY <1>15, <1>18, <1>19 DEF avail
<1>. QED BY <1>1, <1>20 DEF Budgeted, s

LEMMA BudgetedStep ==
  ASSUME Grounded, Queried, Budgeted, [Next]_kbVars
  PROVE  Budgeted'
<1>1. [AskNext]_askVars
  BY AskMoves
<1>2. CASE UNCHANGED <<pc, req, sources>>
  BY <1>2 DEF Budgeted
<1>3. CASE Assemble
  BY <1>3, BudgetedByAssemble
<1>4. CASE pc' # "generate"
  BY <1>4 DEF Budgeted
<1>5. ASSUME NEW r \in Requests, Begin(r) PROVE pc' # "generate"
  BY <1>5 DEF Begin
<1>6. CASE Decompose \/ AskFails \/ Respond \/ Gather \/ FindNothing \/ RerankFails \/ Rerank \/ Generate
           \/ StreamDone \/ Leave
  BY <1>4, <1>6 DEF Decompose, AskFails, Respond, Gather, FindNothing, RerankFails, Rerank,
                     Generate, StreamDone, Leave, Ends
<1>7. CASE StreamToken \/ Unreachable \/ \E i \in pending : SearchOne(i)
  <2>1. CASE Unreachable
    <3>1. pc = "search" /\ pc' \in {"search", "over"}
      BY <2>1, AnsweringAssumption DEF Unreachable, Ends, Grounded, Stage
    <3>. QED BY <1>4, <3>1
  <2>. QED BY <1>2, <1>7, <2>1 DEF StreamToken, SearchOne
<1>. QED BY <1>1, <1>2, <1>3, <1>4, <1>5, <1>6, <1>7 DEF AskNext, AskStep, askVars

\* The context, with the headers of its sources and what separates them, exceeds its budget at
\* most by the ellipsis of the source that was cut, for every budget and every result.
THEOREM ContextIsBounded == Spec => []ContextBounded
<1>1. Init => Budgeted
  BY DEF Init, AskInit, Budgeted
<1>2. Budgeted => ContextBounded
  BY DEF Budgeted, SourceTokens, ContextBounded
<1>3. Grounded /\ Queried /\ Budgeted /\ [Next]_kbVars => Budgeted'
  BY BudgetedStep
<1>. QED BY <1>1, <1>2, <1>3, GroundedHolds, QueriedHolds, PTL DEF Spec

-----------------------------------------------------------------------------
(***************************************************************************)
(* Reciprocal ranks.                                                       *)
(***************************************************************************)

LEMMA Quotients ==
  ASSUME NEW u \in Nat \ {0}, NEW m \in Nat \ {0}, u % m = 0
  PROVE  u \div m \in Nat /\ u = (u \div m) * m /\ u \div m > 0
<1>1. u \div m \in Int /\ u % m \in Int
  OBVIOUS
<1>2. u = m * (u \div m) + (u % m)
  OBVIOUS
<1>. QED BY <1>1, <1>2

LEMMA LargerDivisor ==
  ASSUME NEW a \in Nat, NEW b \in Nat, NEW m \in Nat, NEW n \in Nat, m < n, b * m = a * n, a > 0
  PROVE  a < b
<1>1. a * n > a * m
  OBVIOUS
<1>2. CASE b <= a
  <2>1. b * m <= a * m
    BY <1>2
  <2>. QED BY <1>1, <2>1
<1>. QED BY <1>2

First == Unit \div (RRF_K + 1)

\* Every rank scores something, and none as much as the first.
LEMMA RanksFall ==
  ASSUME NEW k \in 1 .. CandidateLimit
  PROVE  LET score == Unit \div (RRF_K + k)
         IN  score \in Nat /\ score > 0 /\ First \in Nat /\ (k > 1 => score < First)
<1>1. /\ RRF_K \in Nat /\ Unit \in Nat \ {0} /\ CandidateLimit \in Nat
      /\ \A j \in 1 .. CandidateLimit : Unit % (RRF_K + j) = 0
  BY AnsweringAssumption
<1>2. ASSUME NEW j \in 1 .. CandidateLimit
      PROVE  /\ Unit \div (RRF_K + j) \in Nat /\ Unit \div (RRF_K + j) > 0
             /\ Unit = (Unit \div (RRF_K + j)) * (RRF_K + j) /\ RRF_K + j \in Nat
  <2> DEFINE m == RRF_K + j
  <2>1. m \in Nat \ {0} /\ Unit % m = 0
    BY <1>1
  <2> HIDE DEF m
  <2>2. Unit \div m \in Nat /\ Unit = (Unit \div m) * m /\ Unit \div m > 0
    BY <1>1, <2>1, Quotients
  <2>. QED BY <2>1, <2>2 DEF m
<1>3. 1 \in 1 .. CandidateLimit
  BY <1>1
<1> DEFINE a == Unit \div (RRF_K + k)
           b == Unit \div (RRF_K + 1)
           m == RRF_K + 1
           n == RRF_K + k
<1>4. a \in Nat /\ a > 0 /\ Unit = a * n /\ n \in Nat
  BY <1>2
<1>5. b \in Nat /\ Unit = b * m /\ m \in Nat
  BY <1>2, <1>3
<1>6. k > 1 => m < n
  BY <1>1
<1> HIDE DEF a, b, m, n
<1>7. k > 1 => a < b
  BY <1>4, <1>5, <1>6, LargerDivisor
<1>. QED BY <1>4, <1>5, <1>7 DEF a, b, m, First

\* What one method gives a row, and which row it gives most.
LEMMA RankScores ==
  ASSUME NEW o, IsList(o), Len(o) <= CandidateLimit, NEW r, CandidateLimit > 0
  PROVE  /\ RankScore(o, r) \in Nat /\ RankScore(o, r) <= First /\ First \in Nat /\ First > 0
         /\ RankScore(o, r) = First => o[1] = r
<1>0. CandidateLimit \in Nat
  BY AnsweringAssumption
<1>1. DOMAIN o = 1 .. Len(o) /\ Len(o) \in Nat
  BY ListDomain
<1>2. First \in Nat /\ First > 0
  <2>1. 1 \in 1 .. CandidateLimit
    BY <1>0
  <2>. QED BY <2>1, RanksFall DEF First
<1>3. CASE r \in Range(o)
  <2> DEFINE k == CHOOSE j \in DOMAIN o : o[j] = r
             score == Unit \div (RRF_K + k)
  <2>1. k \in DOMAIN o /\ o[k] = r
    BY <1>3 DEF Range
  <2>2. RankScore(o, r) = score
    BY <1>3 DEF RankScore
  <2> HIDE DEF k
  <2>3. k \in 1 .. CandidateLimit
    BY <1>0, <1>1, <2>1
  <2>4. score \in Nat /\ (k > 1 => score < First)
    BY <2>3, RanksFall
  <2>5. k = 1 => score = First
    BY DEF First
  <2> HIDE DEF score
  <2>. QED BY <1>2, <2>1, <2>2, <2>3, <2>4, <2>5
<1>4. CASE r \notin Range(o)
  BY <1>2, <1>4 DEF RankScore
<1>. QED BY <1>3, <1>4

\* The scores of a list of different rows: at most one of them is the highest there is.
Ranking(list) ==
  /\ \A k \in DOMAIN list : list[k].score \in Int /\ list[k].score <= MaxScore
  /\ \A j, k \in DOMAIN list :
       j # k => /\ list[j].row # list[k].row
                /\ ~ (list[j].score = MaxScore /\ list[k].score = MaxScore)

LEMMA HybridRanking ==
  ASSUME NEW q, NEW S, IsFiniteSet(S), NEW h \in HybridOrders(q, S)
  PROVE  Ranking(h)
<1>1. PICK kw0 \in KeywordOrders(q, S), vec0 \in VectorOrders(q, S) :
        h \in Fused(Limited(kw0, CandidateLimit), Limited(vec0, CandidateLimit))
  <2> DEFINE F(kw, vec) == Fused(Limited(kw, CandidateLimit), Limited(vec, CandidateLimit))
  <2>1. h \in UNION {F(kw, vec) : kw \in KeywordOrders(q, S), vec \in VectorOrders(q, S)}
    BY DEF HybridOrders
  <2> HIDE DEF F
  <2>2. \E kw \in KeywordOrders(q, S), vec \in VectorOrders(q, S) : h \in F(kw, vec)
    BY <2>1
  <2>. QED BY <2>2 DEF F
<1> DEFINE kw == Limited(kw0, CandidateLimit)
           vec == Limited(vec0, CandidateLimit)
           T == Range(kw) \cup Range(vec)
<1>2. CandidateLimit \in Nat
  BY AnsweringAssumption
<1>3. ListOf(kw0, S) /\ ListOf(vec0, S)
  BY KeywordOrdersFacts, VectorOrdersFacts
<1>4. /\ IsList(kw) /\ Len(kw) <= CandidateLimit /\ \A k \in DOMAIN kw : kw[k] \in S
      /\ IsList(vec) /\ Len(vec) <= CandidateLimit /\ \A k \in DOMAIN vec : vec[k] \in S
  <2>1. ASSUME NEW o, ListOf(o, S)
        PROVE  LET l == Limited(o, CandidateLimit)
               IN  IsList(l) /\ Len(l) <= CandidateLimit /\ \A k \in DOMAIN l : l[k] \in S
    <3> DEFINE l == Limited(o, CandidateLimit)
    <3>1. Len(o) \in Nat /\ IsList(o) /\ \A k \in DOMAIN o : o[k] \in S
      BY <2>1, ListDomain DEF ListOf
    <3>2. /\ IsList(l) /\ Len(l) = IF CandidateLimit <= Len(o) THEN CandidateLimit ELSE Len(o)
          /\ \A k \in 1 .. Len(l) : k \in DOMAIN o /\ l[k] = o[k]
      BY <1>2, <3>1, LimitedFacts
    <3> HIDE DEF l
    <3>3. DOMAIN l = 1 .. Len(l)
      BY <3>2, ListDomain
    <3>4. \A k \in DOMAIN l : l[k] \in S
      BY <3>1, <3>2, <3>3
    <3>5. Len(l) <= CandidateLimit
      BY <1>2, <3>1, <3>2
    <3>. QED BY <3>2, <3>4, <3>5 DEF l
  <2>. QED BY <1>3, <2>1
<1>5. IsFiniteSet(T)
  <2>1. T \subseteq S
    <3> HIDE DEF kw, vec
    <3>. QED BY <1>4 DEF Range
  <2> HIDE DEF T
  <2>. QED BY <2>1, FS_Subset
<1>6. PICK o \in SetToSeqs(T) :
        h = [k \in DOMAIN o |->
               [row |-> o[k], score |-> RankScore(kw, o[k]) + RankScore(vec, o[k])]]
  BY <1>1 DEF Fused, Sorted, Scored
<1> HIDE DEF T, kw, vec
<1>7. \A j, k \in DOMAIN o : j # k => o[j] # o[k]
  BY <1>5, OrderOf
<1>8. CASE CandidateLimit = 0
  <2>1. Len(kw) = 0 /\ Len(vec) = 0
    BY <1>2, <1>4, <1>8, ListDomain
  <2>2. DOMAIN kw = {} /\ DOMAIN vec = {}
    <3>1. DOMAIN kw = 1 .. 0 /\ DOMAIN vec = 1 .. 0
      BY <1>4, <2>1, ListDomain
    <3>. QED BY <3>1
  <2>3. T = {}
    BY <2>2 DEF T, Range
  <2>4. \A k \in DOMAIN o : o[k] \in T
    BY <1>5, OrderOf DEF ListOf
  <2>5. DOMAIN h = {}
    BY <1>6, <2>3, <2>4
  <2>. QED BY <2>5 DEF Ranking
<1>9. CASE CandidateLimit > 0
  <2>1. \A r : /\ RankScore(kw, r) \in Nat /\ RankScore(kw, r) <= First
               /\ RankScore(vec, r) \in Nat /\ RankScore(vec, r) <= First
               /\ First \in Nat
               /\ RankScore(kw, r) = First => kw[1] = r
    BY <1>4, <1>9, RankScores
  <2>2. MaxScore = First + First
    <3>1. First \in Nat
      BY <2>1
    <3>2. MaxScore = 2 * First
      BY DEF MaxScore, First
    <3>. QED BY <3>1, <3>2
  <2>3. ASSUME NEW k \in DOMAIN h
        PROVE  /\ h[k].row = o[k] /\ h[k].score \in Int /\ h[k].score <= MaxScore
               /\ h[k].score = MaxScore => kw[1] = o[k]
    <3> DEFINE x == RankScore(kw, o[k])
               y == RankScore(vec, o[k])
    <3>1. h[k].row = o[k] /\ h[k].score = x + y
      BY <1>6
    <3>2. /\ x \in Nat /\ y \in Nat /\ x <= First /\ y <= First /\ First \in Nat
          /\ (x = First => kw[1] = o[k])
      BY <2>1
    <3> HIDE DEF x, y
    <3>. QED BY <2>2, <3>1, <3>2
  <2>4. DOMAIN h = DOMAIN o
    BY <1>6
  <2>. QED BY <1>7, <2>3, <2>4 DEF Ranking
<1>. QED BY <1>2, <1>8, <1>9

-----------------------------------------------------------------------------
(***************************************************************************)
(* The consensus of the sub-queries.                                       *)
(***************************************************************************)

\* The score of a row that all sub-queries found.
ScoreIn(i, r) == found[i][Place(i, r)].score

LEMMA TotalScoreAdds ==
  ASSUME NEW r, IsFiniteSet(Voters(r)), \A i \in Voters(r) : ScoreIn(i, r) \in Int
  PROVE  \E g : /\ Adds(g, [i \in Voters(r) |-> ScoreIn(i, r)], Voters(r))
                /\ TotalScore(r) = g[Voters(r)]
<1> DEFINE N == Voters(r)
           Each(i) == ScoreIn(i, r)
           f == [i \in N |-> Each(i)]
           Sum(g) == [t \in SUBSET N |-> IF t = {} THEN 0 ELSE Each(OneOf(t)) + g[t \ {OneOf(t)}]]
           iter == CHOOSE g : g = Sum(g)
<1>1. TotalScore(r) = iter[N]
  BY DEF TotalScore, MapThenSumSet, MapThenFoldSet, OneOf, ScoreIn
<1> HIDE DEF Each
<1>2. f \in [N -> Int] /\ IsFiniteSet(N)
  <2>1. \A i \in N : Each(i) \in Int
    BY DEF Each
  <2> HIDE DEF N
  <2>2. f \in [N -> Int]
    BY <2>1
  <2>. QED BY <2>2 DEF N
<1>3. ASSUME NEW g, NEW h,
             h = [t \in SUBSET N |-> IF t = {} THEN 0 ELSE f[OneOf(t)] + g[t \ {OneOf(t)}]]
      PROVE  h = Sum(g)
  <2>1. \A t \in SUBSET N : t # {} => f[OneOf(t)] = Each(OneOf(t))
    <3>1. \A t \in SUBSET N : t # {} => OneOf(t) \in N
      BY AnyOf
    <3> HIDE DEF N
    <3>. QED BY <3>1
  <2> HIDE DEF N, f
  <2>. QED BY <1>3, <2>1
<1> HIDE DEF N, f
<1>4. PICK g : g = Sum(g)
  <2>1. PICK g : Adds(g, f, N)
    BY <1>2, AddingExists
  <2>2. g = Sum(g)
    <3> HIDE DEF Sum
    <3>. QED BY <1>3, <2>1 DEF Adds
  <2>. QED BY <2>2
<1>5. iter = Sum(iter)
  <2> HIDE DEF Sum
  <2>. QED BY <1>4
<1> HIDE DEF iter
<1>6. Adds(iter, f, N)
  <2> DEFINE F(h) == [t \in SUBSET N |-> IF t = {} THEN 0 ELSE f[OneOf(t)] + h[t \ {OneOf(t)}]]
  <2>1. F(iter) = Sum(iter)
    <3> HIDE DEF Sum
    <3>. QED BY <1>3
  <2>2. iter = F(iter)
    BY <1>5, <2>1
  <2>. QED BY <2>2 DEF Adds
<1>. QED BY <1>1, <1>6 DEF f, N, Each

\* A row on which all sub-queries agree comes before every other.
LEMMA ConsensusEarlier ==
  ASSUME IsList(found), 1 \in DOMAIN found, \A i \in DOMAIN found : Ranking(found[i]),
         NEW r \in FoundRows, NEW s \in FoundRows, r # s,
         \A i \in DOMAIN found : i \in Voters(r) /\ ScoreIn(i, r) = MaxScore
  PROVE  Earlier(r, s)
<1> DEFINE D == DOMAIN found
<1>1. D = 1 .. Len(found) /\ Len(found) \in Nat /\ D # {}
  BY ListDomain
<1>2. IsFiniteSet(D) /\ Cardinality(D) \in Nat
  <2>1. IsFiniteSet(1 .. Len(found))
    BY <1>1, FS_Interval
  <2>2. IsFiniteSet(D)
    BY <1>1, <2>1
  <2>. QED BY <2>2, FS_CardinalityType
<1>3. Voters(r) = D /\ Voters(s) \subseteq D
  BY DEF Voters
<1>4. /\ IsFiniteSet(Voters(s)) /\ Cardinality(Voters(s)) \in Nat
      /\ Cardinality(Voters(s)) <= Cardinality(D)
      /\ Cardinality(Voters(s)) = Cardinality(D) => Voters(s) = D
  <2> HIDE DEF D
  <2>. QED BY <1>2, <1>3, FS_Subset, FS_CardinalityType
<1>5. CASE Cardinality(Voters(s)) < Cardinality(D)
  <2>1. Cardinality(Voters(r)) - Cardinality(Voters(s)) > 0
    <3> HIDE DEF D
    <3>. QED BY <1>2, <1>3, <1>4, <1>5
  <2>. QED BY <2>1 DEF Earlier
<1>6. CASE Voters(s) = D
  <2>1. ASSUME NEW i \in D
        PROVE  /\ ScoreIn(i, s) \in Int /\ ScoreIn(i, r) \in Int
               /\ ScoreIn(i, s) < ScoreIn(i, r)
    <3> DEFINE j == Place(i, r)
               k == Place(i, s)
    <3>1. /\ j \in DOMAIN found[i] /\ found[i][j].row = r
          /\ k \in DOMAIN found[i] /\ found[i][k].row = s
      <4>1. /\ \E l \in DOMAIN found[i] : found[i][l].row = r
            /\ \E l \in DOMAIN found[i] : found[i][l].row = s
        BY <1>3, <1>6, <2>1 DEF Voters, RowsIn, Range
      <4>. QED BY <4>1 DEF Place
    <3>2. ScoreIn(i, r) = found[i][j].score /\ ScoreIn(i, s) = found[i][k].score
      BY DEF ScoreIn
    <3>3. ScoreIn(i, r) = MaxScore
      BY <2>1
    <3> HIDE DEF j, k
    <3>4. j # k
      BY <3>1
    <3>5. Ranking(found[i])
      BY <2>1
    <3>6. /\ found[i][j].score \in Int /\ found[i][k].score \in Int
          /\ found[i][k].score <= MaxScore
          /\ ~ (found[i][j].score = MaxScore /\ found[i][k].score = MaxScore)
      BY <3>1, <3>4, <3>5 DEF Ranking
    <3>. QED BY <3>2, <3>3, <3>6
  <2> DEFINE e == [i \in D |-> ScoreIn(i, s)]
             f == [i \in D |-> ScoreIn(i, r)]
  <2>2. PICK g : Adds(g, e, D) /\ TotalScore(s) = g[D]
    <3>1. IsFiniteSet(Voters(s)) /\ \A i \in Voters(s) : ScoreIn(i, s) \in Int
      BY <1>4, <1>6, <2>1
    <3>2. \E g : /\ Adds(g, [i \in Voters(s) |-> ScoreIn(i, s)], Voters(s))
                 /\ TotalScore(s) = g[Voters(s)]
      BY <3>1, TotalScoreAdds
    <3>. QED BY <1>6, <3>2
  <2>3. PICK h : Adds(h, f, D) /\ TotalScore(r) = h[D]
    <3>1. IsFiniteSet(Voters(r)) /\ \A i \in Voters(r) : ScoreIn(i, r) \in Int
      BY <1>2, <1>3, <2>1
    <3>2. \E h : /\ Adds(h, [i \in Voters(r) |-> ScoreIn(i, r)], Voters(r))
                 /\ TotalScore(r) = h[Voters(r)]
      BY <3>1, TotalScoreAdds
    <3>. QED BY <1>3, <3>2
  <2>4. e \in [D -> Int] /\ f \in [D -> Int] /\ \A i \in D : e[i] < f[i]
    BY <2>1
  <2> HIDE DEF D, e, f
  <2>5. g[D] < h[D] /\ g[D] \in Int /\ h[D] \in Int
    <3>1. g[D] < h[D]
      BY <1>1, <1>2, <2>2, <2>3, <2>4, GreaterSum
    <3>2. Totals(g, e, D) /\ Totals(h, f, D)
      BY <1>2, <2>2, <2>3, <2>4, AddsFacts
    <3>. QED BY <3>1, <3>2 DEF Totals
  <2>6. TotalScore(r) > TotalScore(s)
    BY <2>2, <2>3, <2>5
  <2>7. Cardinality(Voters(r)) - Cardinality(Voters(s)) = 0
    BY <1>2, <1>3, <1>6
  <2>. QED BY <2>6, <2>7 DEF Earlier
<1>. QED BY <1>2, <1>4, <1>5, <1>6

\* What a question has found so far is ranked by both methods.
FoundRanked ==
  (pc # "idle" /\ req.kind # "search") =>
    mode = "hybrid" /\ \A i \in DOMAIN found : Ranking(found[i])

LEMMA FoundRankedBySearch ==
  ASSUME Grounded, FoundRanked, NEW i \in pending, SearchOne(i)
  PROVE  FoundRanked'
<1>1. /\ pc = "search" /\ UNCHANGED <<pc, req, mode>> /\ req \in Requests
  BY DEF SearchOne, Grounded, Stage
<1> SUFFICES ASSUME req.kind # "search" PROVE FoundRanked'
  BY <1>1 DEF FoundRanked
<1>2. mode = "hybrid" /\ (\A j \in DOMAIN found : Ranking(found[j])) /\ Threshold = 0
  BY <1>1 DEF FoundRanked, Threshold
<1>3. PICK S \in Visible : \E order \in Ranked(queries[i], mode, S) :
        found' = [found EXCEPT ![i] = WithHighlights(queries[i], Page(order))]
  BY <1>2 DEF SearchOne
<1>4. PICK order \in Ranked(queries[i], mode, S) :
       found' = [found EXCEPT ![i] = WithHighlights(queries[i], Page(order))]
  BY <1>3
<1>5. S \subseteq Good /\ IsFiniteSet(S)
  BY <1>1, VisibleFacts
<1>6. order \in HybridOrders(queries[i], S)
  BY <1>2, <1>4 DEF Ranked
<1>7. Ranking(order)
  BY <1>5, <1>6, HybridRanking
<1>8. IsList(order)
  BY <1>2, <1>4, <1>5, RankedFacts DEF HitsOf
<1> DEFINE page == Page(order)
<1>9. /\ req.offset = 0 /\ \A k \in DOMAIN page : k \in DOMAIN order /\ page[k] = order[k]
  <2>1. req.offset = 0 /\ req.limit \in Nat \ {0}
    BY <1>1, AnsweringAssumption
  <2>2. /\ IsList(page)
        /\ \A k \in DOMAIN page :
             req.offset + k \in DOMAIN order /\ page[k] = order[req.offset + k]
    <3>1. req.offset \in Nat /\ req.limit \in Nat \ {0}
      BY <2>1
    <3>. QED BY <1>8, <3>1, CutPage DEF Page
  <2>3. IsList(page)
    BY <2>2
  <2> HIDE DEF page
  <2>4. \A k \in DOMAIN page : 0 + k = k
    BY <2>3, ListDomain
  <2>. QED BY <2>1, <2>2, <2>4
<1> DEFINE list == WithHighlights(queries[i], page)
<1> HIDE DEF page
<1>10. /\ DOMAIN list = DOMAIN page
       /\ \A k \in DOMAIN page : list[k].row = order[k].row /\ list[k].score = order[k].score
  BY <1>9 DEF WithHighlights
<1>11. found' = [found EXCEPT ![i] = list]
  BY <1>4 DEF page
<1> HIDE DEF list
<1>12. Ranking(list)
  BY <1>7, <1>9, <1>10 DEF Ranking
<1>13. \A j \in DOMAIN found' : Ranking(found'[j])
  BY <1>2, <1>11, <1>12
<1>. QED BY <1>1, <1>2, <1>13 DEF FoundRanked

LEMMA FoundRankedStep ==
  ASSUME Grounded, FoundRanked, [AskNext]_askVars
  PROVE  FoundRanked'
<1>1. CASE UNCHANGED <<pc, req, mode, found>>
  BY <1>1 DEF FoundRanked
<1>2. CASE pc # "idle" /\ UNCHANGED <<req, mode, found>>
  BY <1>2 DEF FoundRanked
<1>3. ASSUME NEW r \in Requests, Begin(r) PROVE FoundRanked'
  <2>1. /\ req' = r /\ mode' = r.mode /\ pc = "idle"
        /\ found' = <<(<<>>)>> \/ found' = found
    BY <1>3 DEF Begin
  <2>2. r.kind # "search" => r.mode = "hybrid"
    BY AnsweringAssumption
  <2>3. found = <<>>
    BY <2>1 DEF Grounded, Stage
  <2>4. Ranking(<<>>)
    BY DEF Ranking
  <2>5. \A i \in DOMAIN found' : found'[i] = <<>>
    BY <2>1, <2>3
  <2>. QED BY <2>1, <2>2, <2>4, <2>5 DEF FoundRanked
<1>4. CASE Decompose
  <2>1. /\ pc = "decompose" /\ UNCHANGED <<req, mode>>
        /\ \A i \in DOMAIN found' : found'[i] = <<>>
    BY <1>4 DEF Decompose
  <2>2. Ranking(<<>>)
    BY DEF Ranking
  <2>. QED BY <2>1, <2>2 DEF FoundRanked
<1>5. CASE Unreachable
  <2>1. /\ pc = "search" /\ UNCHANGED <<req, found>>
        /\ req.kind # "search" => UNCHANGED mode
    BY <1>5, AnsweringAssumption DEF Unreachable, Grounded, Stage
  <2>. QED BY <2>1 DEF FoundRanked
<1>6. ASSUME NEW i \in pending, SearchOne(i) PROVE FoundRanked'
  BY <1>6, FoundRankedBySearch
<1>7. CASE AskFails \/ Respond \/ Gather \/ FindNothing \/ RerankFails \/ Rerank \/ Assemble \/ Generate
           \/ StreamToken \/ StreamDone \/ Leave
  <2>1. pc # "idle" /\ UNCHANGED <<req, mode, found>>
    BY <1>7 DEF AskFails, Respond, Gather, FindNothing, RerankFails, Rerank, Assemble, Generate,
                StreamToken, StreamDone, Leave
  <2>. QED BY <1>2, <2>1
<1>. QED BY <1>1, <1>3, <1>4, <1>5, <1>6, <1>7 DEF AskNext, AskStep, askVars

\* Merging puts first what all agree on.
LEMMA ConsensusByGather ==
  ASSUME Grounded, FoundRanked, Gather
  PROVE  ConsensusFirst'
<1>1. /\ pc = "search" /\ req \in Requests /\ req.limit \in Nat \ {0} /\ req.kind # "search"
      /\ found' = found
  BY AnsweringAssumption DEF Gather, Grounded, Stage
<1>2. IsList(found) /\ 1 \in DOMAIN found /\ \A i \in DOMAIN found : Ranking(found[i])
  BY <1>1 DEF Grounded, Stage, Found, FoundRanked
<1>3. PICK order \in Sorted(FoundRows, Earlier) :
        hits' = [k \in 1 .. Min({req.limit, Len(order)}) |-> FirstHit(order[k])]
  BY DEF Gather
<1>4. IsFiniteSet(FoundRows)
  <2>1. FoundRows \subseteq Good /\ Good \subseteq seen /\ IsFiniteSet(seen)
    BY FirstHitFacts DEF Grounded, Stage, Found, HitsOf, Good
  <2>. QED BY <2>1, FS_Subset
<1>5. /\ order \in SetToSeqs(FoundRows)
      /\ \A j, k \in DOMAIN order : j < k => ~ Earlier(order[k], order[j])
  BY <1>3 DEF Sorted
<1>6. IsList(order) /\ (\A k \in DOMAIN order : order[k] \in FoundRows) /\ Range(order) = FoundRows
  BY <1>4, <1>5, OrderOf DEF ListOf
<1>7. DOMAIN order = 1 .. Len(order) /\ Len(order) \in Nat
  BY <1>6, ListDomain
<1>8. ASSUME NEW r \in FoundRows,
             \A i \in DOMAIN found : i \in Voters(r) /\ ScoreIn(i, r) = MaxScore
      PROVE  hits'[1].row = r
  <2>1. PICK k \in DOMAIN order : order[k] = r
    BY <1>6 DEF Range
  <2>2. 1 \in DOMAIN order /\ (k = 1 \/ 1 < k)
    BY <1>7, <2>1
  <2>3. order[1] = r
    <3>1. CASE 1 < k
      <4>1. ~ Earlier(r, order[1])
        BY <1>5, <2>1, <2>2, <3>1
      <4>. QED BY <1>2, <1>6, <1>8, <2>2, <4>1, ConsensusEarlier
    <3>. QED BY <2>1, <2>2, <3>1
  <2>4. Min({req.limit, Len(order)}) = IF req.limit <= Len(order) THEN req.limit ELSE Len(order)
    BY <1>1, <1>7, SmallerOf
  <2>5. 1 \in 1 .. Min({req.limit, Len(order)})
    BY <1>1, <1>7, <2>2, <2>4
  <2>6. hits'[1] = FirstHit(order[1])
    BY <1>3, <2>5
  <2>. QED BY <1>2, <2>3, <2>6, FirstHitFacts
<1>9. \A r \in FoundRows :
        (\A i \in DOMAIN found : i \in Voters(r) /\ found[i][Place(i, r)].score = MaxScore)
          => hits'[1].row = r
  BY <1>8 DEF ScoreIn
<1>10. /\ FoundRows' = FoundRows
       /\ \A r : Voters(r)' = Voters(r)
       /\ \A i, r : Place(i, r)' = Place(i, r)
  BY <1>1 DEF FoundRows, Voters, Place
<1>. QED BY <1>1, <1>9, <1>10 DEF ConsensusFirst

LEMMA ConsensusStep ==
  ASSUME Grounded, FoundRanked, ConsensusFirst, [AskNext]_askVars
  PROVE  ConsensusFirst'
<1>1. CASE Gather
  BY <1>1, ConsensusByGather
<1>2. CASE UNCHANGED <<pc, req, found, hits>>
  <2>1. /\ FoundRows' = FoundRows
        /\ \A r : Voters(r)' = Voters(r)
        /\ \A i, r : Place(i, r)' = Place(i, r)
    BY <1>2 DEF FoundRows, Voters, Place
  <2>. QED BY <1>2, <2>1 DEF ConsensusFirst
<1>3. CASE pc' # "rerank"
  BY <1>3 DEF ConsensusFirst
<1>4. ASSUME NEW r \in Requests, Begin(r) PROVE pc' # "rerank"
  BY <1>4 DEF Begin
<1>5. CASE Decompose \/ Unreachable \/ (\E i \in pending : SearchOne(i)) \/ AskFails
           \/ Respond \/ FindNothing \/ RerankFails \/ Rerank \/ Assemble \/ Generate
           \/ StreamToken \/ StreamDone \/ Leave
  <2>1. CASE Unreachable
    BY <1>3, <2>1, AnsweringAssumption DEF Unreachable, Ends, Grounded, Stage
  <2>2. pc' # "rerank" \/ Unreachable
    BY <1>5 DEF Decompose, SearchOne, AskFails, Respond, FindNothing, RerankFails, Rerank, Assemble,
                Generate, StreamToken, StreamDone, Leave, Ends
  <2>. QED BY <1>3, <2>1, <2>2
<1>. QED BY <1>1, <1>2, <1>3, <1>4, <1>5 DEF AskNext, AskStep, askVars

\* A chunk that both methods rank first for every sub-query comes out of the merge first,
\* whatever the index did between the sub-queries.
THEOREM ConsensusIsFirst == Spec => []ConsensusFirst
<1>1. Init => FoundRanked /\ ConsensusFirst
  BY DEF Init, AskInit, FoundRanked, ConsensusFirst
<1>2. Grounded /\ FoundRanked /\ [Next]_kbVars => FoundRanked'
  BY AskMoves, FoundRankedStep
<1>3. Grounded /\ FoundRanked /\ ConsensusFirst /\ [Next]_kbVars => ConsensusFirst'
  BY AskMoves, ConsensusStep
<1>. QED BY <1>1, <1>2, <1>3, GroundedHolds, PTL DEF Spec
=============================================================================
