------------------------------- MODULE MCAccess -------------------------------
(***************************************************************************)
(* An instance of Access for TLC: two signing keys, one API key.           *)
(***************************************************************************)
EXTENDS Access, TLC

CONSTANTS s1, s2, k1, k2, key

Signed(k, does, role) ==
  [by |-> "jwt", key |-> k, does |-> does, role |-> role, target |-> key]

RequestSet ==
  {Signed(k2, "query", "member"), Signed(k1, "create", "admin"),
   Signed(k1, "revoke", "owner")}
    \cup {[by |-> "api_key", key |-> key, does |-> does, role |-> "none", target |-> key] :
             does \in {"read", "revoke"}}

Symmetric == Permutations(Slots)
=============================================================================
