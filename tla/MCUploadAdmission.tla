-------------------------- MODULE MCUploadAdmission --------------------------
(***************************************************************************)
(* An instance of UploadAdmission for TLC: three single uploads, one of    *)
(* them too large for the plan and the others each more than half of it,   *)
(* with two batches that share a file with each other and within           *)
(* themselves.                                                             *)
(***************************************************************************)
EXTENDS UploadAdmission, TLC

CONSTANTS r1, r2, r3, r4, r5, a, b, c, d, z

Uploads ==
  [r \in Requests |-> CASE r = r1 -> <<a>> [] r = r2 -> <<b, b>> [] r = r3 -> <<b, c>>
                        [] r = r4 -> <<z>> [] r = r5 -> <<d>>]

Sizes == [f \in Contents |-> CASE f = z -> 12 [] f \in {a, d} -> 5 [] OTHER -> 1]
DeletableDocs == {<<r3, 1>>}

\* Two of the single uploads differ in nothing but the names of their files: they may be
\* exchanged, together with these.
Alike ==
  {p \in Permutations({r1, r5, a, d}) :
     {p[r1], p[r5]} = {r1, r5} /\ <<p[a], p[d]>> = Uploads[p[r1]] \o Uploads[p[r5]]}
=============================================================================
