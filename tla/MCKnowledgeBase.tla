--------------------------- MODULE MCKnowledgeBase ---------------------------
(***************************************************************************)
(* An instance of KnowledgeBase for TLC.  The passages a, b, c and d are   *)
(* prose of different quality, menu is too small for a chunk of its own,   *)
(* noise fails the validator.  The first file has only the chunk b, twice, *)
(* and what adds to it can be a new version of it: c and d around an       *)
(* overlapping b, where d is found inside of b; or b twice, and between    *)
(* them a, which the splitter has changed.  The last file is noise.        *)
(***************************************************************************)
EXTENDS KnowledgeBase

CONSTANTS a, b, c, d, menu, noise, simple, complex, long

Prose(n, letters, distinct) ==
  [tokens |-> n, chars |-> 600, alpha |-> letters, words |-> 100, unique |-> distinct,
   repeated |-> 0, url |-> 0]

Measures ==
  [p \in Passages |->
     CASE p = a -> Prose(150, 480, 60)
       [] p = b -> Prose(120, 450, 50)
       [] p = c -> Prose(200, 500, 70)
       [] p = d -> Prose(130, 420, 40)
       [] p = menu -> Prose(20, 300, 10)
       [] p = noise -> [Prose(180, 300, 60) EXCEPT !.repeated = 200]]

Spellings ==
  [p \in Passages |->
     CASE p = a -> <<"y", "v">>
       [] p = b -> <<"x", "y">>
       [] p = c -> <<"w", "x">>
       [] p = d -> <<"y">>
       [] p = menu -> <<"m">>
       [] p = noise -> <<"n">>]

File(content, texts, cuts, prefix) ==
  [content |-> content, texts |-> texts, cuts |-> cuts, prefix |-> prefix]

FileSet ==
  {File(<<"m", "x", "y", "x", "y">>, <<menu, b, b>>, <<1, 2, 4>>, "plain"),
   File(<<"w", "x", "y", "y">>, <<c, b, d>>, <<1, 2, 4>>, "described"),
   File(<<"x", "y", "z", "x", "y">>, <<b, a, b>>, <<1, 0, 4>>, "plain"),
   File(<<"n", "m", "n">>, <<noise, menu, noise>>, <<1, 2, 3>>, "plain")}

Bm25s ==
  [q \in Queries |-> [p \in Passages |->
     CASE q = simple /\ p \in {a, c} -> 3
       [] q = simple /\ p = b -> 5
       [] q = complex /\ p \in {b, d} -> 4
       [] OTHER -> 0]]

Distances ==
  [q \in Queries |-> [v \in {"plain", "described"} \X Passages |->
     CASE v[2] = b -> IF q = simple THEN 100 ELSE 400
       [] v[2] = a -> 300
       [] v[2] = d -> 200
       [] OTHER -> 600]]

\* Three terms, of which the second is close to the first.
Terms ==
  [q \in Queries |-> [p \in Passages |->
     IF q = simple THEN <<[at |-> 150, len |-> 5], [at |-> 20, len |-> 4],
                          [at |-> 590, len |-> 8]>>
     ELSE <<[at |-> 0, len |-> 3]>>]]

Split == [q \in Complex |-> {<<complex, simple, long, simple>>, <<long, simple>>}]

Budget == [q \in Queries |-> IF q = simple THEN 390 ELSE 250]

Search(q, m, n, o, t, f) ==
  [kind |-> "search", query |-> q, mode |-> m, limit |-> n, offset |-> o, threshold |-> t,
   filter |-> f, cites |-> FALSE]

Question(kind, q, n, t, f, cites) ==
  [kind |-> kind, query |-> q, mode |-> "hybrid", limit |-> n, offset |-> 0, threshold |-> t,
   filter |-> f, cites |-> cites]

RequestSet ==
  {Search(simple, "hybrid", 1, 1, 0, {}),
   Search(simple, "hybrid", 3, 0, 150000, {}),
   Search(complex, "vector", 2, 1, 0, {2}),
   Question("ask", simple, 3, 150000, {1}, FALSE),
   Question("ask", complex, 2, 0, {}, TRUE),
   Question("stream", simple, 3, 0, {}, TRUE)}
=============================================================================
