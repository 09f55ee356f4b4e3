------------------------------ MODULE AuditLog -------------------------------
(***************************************************************************)
(* The order of the audit log (app/features/audit).  It is listed by       *)
(* created_at, newest first, and created_at defaults to now(), which in    *)
(* PostgreSQL is the time the transaction began: the entry of a request    *)
(* that began early and committed late is listed beneath the entries of    *)
(* the requests that began after it, although they committed before it.    *)
(*                                                                         *)
(* A transaction begins with the first query of its request, the lookup of *)
(* the caller; here that is part of the READ step.  A subject is what the  *)
(* entries of one kind are about.  Entries are only added; the modules     *)
(* that use the log keep, of each subject, what the newest listed one says.*)
(***************************************************************************)

CONSTANT Slot     \* requests that can be in flight at once

VARIABLES
    elders,       \* of each request, those about the same that are in flight and began before it
    late,         \* the requests in flight whose subject got an entry of one that began after them
    outrun        \* the subjects whose last entry to be added is not the newest listed

logVars == <<elders, late, outrun>>

LogTypeOK(Subject) ==
    /\ elders \in [Slot -> SUBSET Slot]
    /\ late \subseteq Slot
    /\ outrun \subseteq Subject

LogInit ==
    /\ elders = [s \in Slot |-> {}]
    /\ late = {}
    /\ outrun = {}

-----------------------------------------------------------------------------

\* The transaction of s begins, after those of its rivals: those in flight about the same.
Begins(s, rivals) ==
    /\ elders' = [elders EXCEPT ![s] = rivals]
    /\ UNCHANGED <<late, outrun>>

\* The transaction of s ends, with an entry about each of the subjects or with none.
Ends(s, subjects) ==
    /\ elders' = [t \in Slot |-> IF t = s THEN {} ELSE elders[t] \ {s}]
    /\ late' = (late \ {s}) \cup (IF subjects = {} THEN {} ELSE elders[s])
    /\ outrun' = IF s \in late THEN outrun \cup subjects ELSE outrun \ subjects

\* What the newest entry of a subject says once s has added one.
Newest(s, listed, added) == IF s \in late THEN listed ELSE added

=============================================================================
