------------------------- MODULE MCTenantProvisioning -------------------------
(***************************************************************************)
(* An instance of TenantProvisioning for TLC: a member who may leave, whose*)
(* tokens lack the claim of an address, and another whose webhook does.    *)
(***************************************************************************)
EXTENDS TenantProvisioning, TLC

CONSTANTS u1, u2, m1, m2, s1, empty

AddressOf == [u \in Users |-> IF u = u1 THEN u1 ELSE empty]
UserOf == [m \in Stays |-> IF m = m1 THEN u1 ELSE u2]
UserBy == [s \in Sessions |-> u1]
ClaimOf == [s \in Sessions |-> empty]
=============================================================================
