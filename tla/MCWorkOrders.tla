---------------------------- MODULE MCWorkOrders ----------------------------
(***************************************************************************)
(* Small instances of WorkOrders for TLC: an office with an administrator  *)
(* and two employees, and beside it another tenant with both roles.        *)
(***************************************************************************)
EXTENDS WorkOrders, TLC

CONSTANTS ann, eva, eli, zoe, zed, office, other, s1, s2

Account(role) == [role |-> role, active |-> TRUE, life |-> "present"]

MCRoles == ann :> "admin" @@ eva :> "employee" @@ eli :> "employee"
             @@ zoe :> "admin" @@ zed :> "employee"

MCOrgOf == [u \in User |-> IF u \in {zoe, zed} THEN other ELSE office]

MCUsers == [u \in User |-> Account(MCRoles[u])]

AllEndpoints == {"create", "progress", "assign", "close", "cancel", "update", "delete"}

WorkflowEndpoints == AllEndpoints \ {"update", "delete"}

\* Slots are interchangeable.
SlotSymmetry == Permutations(Slot)

=============================================================================
