------------------------- MODULE MCDocumentPipeline -------------------------
(***************************************************************************)
(* Instances of DocumentPipeline for TLC.                                  *)
(***************************************************************************)
EXTENDS DocumentPipeline, TLC

CONSTANTS d1, d2, d3, d4, a, b, c, f, g

\* Two versions of one file, of which the second has a chunk more.
TwoVersions == [d \in {d1, d2} |-> IF d = d1 THEN {a, b} ELSE {a, b, c}]
OneFile == [d \in Docs |-> f]

\* Three versions of one file, each of which adds a chunk to the one before while the third
\* drops the first one's, and another file.  Completed in the order d1, d2, d3 all pass, and
\* the chunks of d3 are in the rows of two of them; in other orders some versions fail.
ThreeVersionsAndOther ==
  [d \in {d1, d2, d3, d4} |-> CASE d = d1 -> {a} [] d = d2 -> {a, b} [] d = d3 -> {b, c}
                               [] d = d4 -> {a, c}]
ThreeOfOneFile == [d \in {d1, d2, d3, d4} |-> IF d = d4 THEN g ELSE f]
=============================================================================
