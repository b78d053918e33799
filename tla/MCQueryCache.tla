---------------------------- MODULE MCQueryCache ----------------------------
(***************************************************************************)
(* An instance of QueryCache for TLC: two versions of one document.        *)
(***************************************************************************)
EXTENDS QueryCache, TLC

CONSTANTS d1, d2

NewerVersion == [d \in {d1, d2} |-> IF d = d2 THEN {d1} ELSE {}]
=============================================================================
