----------------------------- MODULE MCCustomers -----------------------------
(***************************************************************************)
(* Small instances of Customers for TLC: an administrator and an employee  *)
(* of one office, whose customers come and go, and a customer of another   *)
(* office.                                                                 *)
(***************************************************************************)
EXTENDS Customers, TLC

CONSTANTS ann, eva, office, branch, c1, c2, c3, theirs

MCOrgOf == [u \in User |-> office]

MCUsers == [u \in User |->
              [role |-> IF u = ann THEN "admin" ELSE "employee", active |-> TRUE,
               life |-> "present"]]

MCCustomerOrg == [c \in Customer |-> IF c = theirs THEN branch ELSE office]

MCCode == 1..2

CustomerSymmetry == Permutations({c1, c2, c3} \cap Customer) \cup Permutations(Slot)

=============================================================================
