----------------------------- MODULE MCSessions -----------------------------
(***************************************************************************)
(* Small instances of Sessions for TLC: a seeded account and one that can  *)
(* still be registered or created.                                         *)
(***************************************************************************)
EXTENDS Sessions, TLC

CONSTANTS ann, nia, p1

MCPassword == [u \in User |-> IF u = ann THEN p1 ELSE None]

SelfService == {"register", "login", "refresh", "logout", "forgot", "reset", "change"}

WithoutLinks == {"login", "refresh", "logout", "change", "staff_password"}

SessionSymmetry == Permutations(Token)

RequestSymmetry == Permutations(Token) \cup Permutations(Slot)

=============================================================================
