----------------------------- MODULE MCEmployees -----------------------------
(***************************************************************************)
(* Small instances of Employees for TLC: administrators, an employee and   *)
(* an account that can still be created.                                   *)
(***************************************************************************)
EXTENDS Employees, TLC

CONSTANTS ann, bob, eva, nia, office, p2

Seeded(role, life) == [role |-> role, active |-> life = "present", life |-> life]

MCOrgOf == [u \in User |-> office]

MCUsers == [u \in User |->
              CASE u \in {ann, bob} -> Seeded("admin", "present")
                [] u = eva          -> Seeded("employee", "present")
                [] OTHER            -> Seeded("employee", "absent")]

MCPhone == [u \in User |-> None]

WithoutSeed == {"create", "register", "update", "status", "role", "delete"}

WithoutPut == {"create", "register", "seed", "status", "role", "delete"}

SlotSymmetry == Permutations(Slot)

=============================================================================
