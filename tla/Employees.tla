------------------------------ MODULE Employees ------------------------------
(***************************************************************************)
(* Staff accounts: the employee feature (app/features/employees), public   *)
(* sign-up (app/features/auth) and the seed command (app/cli.py), all of   *)
(* which write the users table, and the audit log the first one keeps.     *)
(*                                                                         *)
(* As in WorkOrders a request is a READ step, where every check runs, and  *)
(* a COMMIT step that writes the columns the session changed; others may   *)
(* commit in between.  The last-administrator rules count rows they do not *)
(* lock, and phone numbers are checked, not constrained, to be unique.     *)
(***************************************************************************)
EXTENDS Directory, AuditLog

CONSTANTS
    Phone,        \* phone numbers
    Founder,      \* the row whose email is SUPERADMIN_EMAIL
    InitialPhone, \* the seeded users.phone
    Endpoints,    \* the operations called in the instance
    Holdable      \* the users who come to hold active work orders meanwhile

ASSUME EmployeesAssumption ==
    /\ None \notin Phone
    /\ Founder \in User
    /\ Holdable \subseteq User
    /\ InitialPhone \in [User -> Phone \cup {None}]
    \* a row that is not there yet has no role and no phone to tell, and a deleted one is inactive
    /\ \A u \in User :
         /\ InitialUsers[u].life = "absent" =>
              InitialUsers[u].role = "employee" /\ InitialPhone[u] = None
         /\ InitialUsers[u].life = "deleted" => ~InitialUsers[u].active

VARIABLES
    phone,        \* users.phone
    holders,      \* the assignees of active work orders, as has_active_work_orders sees
    audit,        \* of each user, what the newest listed entry of each kind says
    unrecorded,   \* the roles and statuses that have changed since without an entry
    reqs          \* the requests in flight

vars == <<users, phone, holders, audit, unrecorded, reqs, logVars>>

-----------------------------------------------------------------------------

\* The columns of a user that these operations read or write.
Account == [role: Role, active: BOOLEAN, life: {"absent", "present", "deleted"},
            phone: Phone \cup {None}]

NoAccount == [role |-> "employee", active |-> FALSE, life |-> "absent", phone |-> None]

Stored(u) == [role |-> users[u].role, active |-> users[u].active,
              life |-> users[u].life, phone |-> phone[u]]

\* ROLE_PROMOTED/DEMOTED carry the new role; the others are about the status.
AuditTrail == [role: Role \cup {"none"},
               status: {"none", "activated", "deactivated", "deleted"}]

Operation == {"idle", "create", "register", "seed", "update", "status", "role", "delete"}

\* What an entry can be about.
Subject == User \X {"role", "status"}

Request == [op: Operation, target: User \cup {None}, seen: Account, new: Account]

Idle == [op |-> "idle", target |-> None, seen |-> NoAccount, new |-> NoAccount]

TypeOK ==
    /\ UsersTypeOK
    /\ phone \in [User -> Phone \cup {None}]
    /\ holders \subseteq User
    /\ audit \in [User -> AuditTrail]
    /\ unrecorded \subseteq Subject
    /\ reqs \in [Slot -> Request]
    /\ LogTypeOK(Subject)

Busy(s) == reqs[s].op # "idle"

Init ==
    /\ users = InitialUsers
    /\ phone = InitialPhone
    /\ holders = {}
    /\ audit = [u \in User |-> [role |-> "none", status |-> "none"]]
    /\ unrecorded = {}
    /\ reqs = [s \in Slot |-> Idle]
    /\ LogInit

-----------------------------------------------------------------------------
(* The checks.                                                             *)

\* EmployeeRepository.get: a member of the organization who is not deleted.
Member(org, u) == OrgOf[u] = org /\ users[u].life = "present"

CurrentAdmins(org) == {u \in User : Member(org, u) /\ users[u].role = "admin"}

ActiveCurrentAdmins(org) == {u \in CurrentAdmins(org) : users[u].active}

\* Mutant: one administrator too many is taken for the last one's reserve.
OthersThanLastOff(org) == Cardinality(ActiveCurrentAdmins(org)) > 0

\* count_active_admins(org) > 1
OtherActiveAdmin(org) == Cardinality(ActiveCurrentAdmins(org)) > 1

\* count_admins(org) > 1: inactive administrators count too.
OtherAdmin(org) == Cardinality(CurrentAdmins(org)) > 1

\* Mutant: deleted accounts do not hold their phone number any more.
PhoneFreeAmongPresent(p, u) == \A v \in User \ {u} : users[v].life = "present" => phone[v] # p

\* not phone_taken(p, exclude_id=u): deleted rows are searched too.
PhoneFree(p, u) == \A v \in User \ {u} : Exists(v) => phone[v] # p

\* A primary key that no row has and no request in flight has drawn.
Fresh(u) == ~Exists(u) /\ \A s \in Slot : reqs[s].target # u

\* What the entry of a request is about: the role or the status of its target.
About(op, target) ==
    CASE op = "role"                 -> {<<target, "role">>}
      [] op \in {"status", "delete"} -> {<<target, "status">>}
      [] OTHER                       -> {}

\* The requests in flight that will leave an entry about the same.
Rivals(op, target) ==
    {t \in Slot : About(reqs[t].op, reqs[t].target) \cap About(op, target) # {}}

(***************************************************************************)
(* The READ step of every operation, once its checks have passed.          *)
(***************************************************************************)
Load(s, op, target, new) ==
    /\ ~Busy(s)
    /\ op \in Endpoints
    /\ reqs' = [reqs EXCEPT ![s] =
                  [op |-> op, target |-> target, seen |-> Stored(target), new |-> new]]
    /\ Begins(s, Rivals(op, target))
    /\ UNCHANGED <<users, phone, holders, audit, unrecorded>>

-----------------------------------------------------------------------------
(* The operations.                                                         *)

\* create(): the phone number is required.
Create(s) ==
    \E admin \in User, u \in User, p \in Phone, active \in BOOLEAN :
        /\ Allowed(admin, "employee:manage")
        /\ Fresh(u) /\ OrgOf[u] = OrgOf[admin]
        /\ PhoneFree(p, u)
        /\ Load(s, "create", u,
                [role |-> "employee", active |-> active, life |-> "present", phone |-> p])

(***************************************************************************)
(* register(): anybody, with a phone number or only an email, into the     *)
(* organization of a current administrator, the earliest created one; into *)
(* any, the earliest, when there is none.                                  *)
(***************************************************************************)
Register(s) ==
    \E u \in User, p \in Phone \cup {None} :
        /\ Fresh(u)
        /\ \/ CurrentAdmins(OrgOf[u]) # {}
           \/ \A org \in Org : CurrentAdmins(org) = {}
        /\ p # None => PhoneFree(p, u)
        /\ Load(s, "register", u,
                [role |-> "employee", active |-> TRUE, life |-> "present", phone |-> p])

\* seed_admin: creates the founder, or makes it an active administrator again.
SeedAdmin(s) ==
    LET life == IF Exists(Founder) THEN users[Founder].life ELSE "present" IN
    Load(s, "seed", Founder,
         [Stored(Founder) EXCEPT !.role = "admin", !.active = TRUE, !.life = life])

\* update(): a PUT may change the phone number and the active flag.
Update(s) ==
    \E admin \in User, u \in User, active \in BOOLEAN :
        /\ Allowed(admin, "employee:manage")
        /\ Member(OrgOf[admin], u)
        /\ \/ Load(s, "update", u, [Stored(u) EXCEPT !.active = active])
           \/ \E p \in Phone :
                /\ PhoneFree(p, u)
                /\ Load(s, "update", u, [Stored(u) EXCEPT !.active = active, !.phone = p])

\* set_active(): the last active administrator is not deactivated.
SetActive(s) ==
    \E admin \in User, u \in User :
        /\ Allowed(admin, "employee:manage")
        /\ Member(OrgOf[admin], u)
        /\ users[u].active /\ users[u].role = "admin" => OtherActiveAdmin(OrgOf[u])
        /\ Load(s, "status", u, [Stored(u) EXCEPT !.active = ~users[u].active])

\* set_role(): the last active administrator is not demoted.
SetRole(s) ==
    \E admin \in User, u \in User, role \in Role :
        /\ Allowed(admin, "employee:manage")
        /\ Member(OrgOf[admin], u)
        /\ role # users[u].role
        /\ role = "employee" /\ users[u].active => OtherActiveAdmin(OrgOf[u])
        /\ Load(s, "role", u, [Stored(u) EXCEPT !.role = role])

\* Mutant: the deleted account stays active.
DeletedButActive(u) == [Stored(u) EXCEPT !.life = "deleted"]

\* A soft-deleted account is deactivated with its deletion.
DeletedAccount(u) == [Stored(u) EXCEPT !.life = "deleted", !.active = FALSE]

\* delete(): not the last administrator, not oneself, nobody with active orders.
Delete(s) ==
    \E admin \in User, u \in User :
        /\ Allowed(admin, "employee:manage")
        /\ Member(OrgOf[admin], u)
        /\ users[u].role = "admin" => OtherAdmin(OrgOf[u])
        /\ u # admin
        /\ u \notin holders
        /\ Load(s, "delete", u, DeletedAccount(u))

-----------------------------------------------------------------------------
(* What a commit leaves.                                                   *)

\* Only the columns that the session changed are written.
Column(current, loaded, new) == IF new = loaded THEN current ELSE new

Merge(row, seen, new) ==
    [role   |-> Column(row.role, seen.role, new.role),
     active |-> Column(row.active, seen.active, new.active),
     life   |-> Column(row.life, seen.life, new.life),
     phone  |-> Column(row.phone, seen.phone, new.phone)]

\* Mutant: the entry records the role the member had.
RecordsOldRole(trail, r) ==
    CASE r.op = "role" -> [trail EXCEPT !.role = r.seen.role]
      [] OTHER         -> trail

\* Mutant: a status change is recorded the wrong way round.
RecordsOldStatus(trail, r) ==
    CASE r.op = "status" ->
           [trail EXCEPT !.status = IF r.seen.active THEN "activated" ELSE "deactivated"]
      [] OTHER -> trail

\* Mutant: a status entry carries an action the log does not know.
RecordsUnlisted(trail, r) ==
    CASE r.op = "status" -> [trail EXCEPT !.status = IF r.new.active THEN "on" ELSE "off"]
      [] OTHER           -> trail

\* AuditRepository.record: only these three operations leave an entry.
Recorded(trail, r) ==
    CASE r.op = "role"   -> [trail EXCEPT !.role = r.new.role]
      [] r.op = "status" ->
           [trail EXCEPT !.status = IF r.new.active THEN "activated" ELSE "deactivated"]
      [] r.op = "delete" -> [trail EXCEPT !.status = "deleted"]
      [] OTHER           -> trail

\* What an entry could be about that the new row of u changes.
Changes(u, row) ==
    {<<u, kind>> : kind \in {kind \in {"role", "status"} :
                               IF kind = "role" THEN row.role # users[u].role
                               ELSE row.active # users[u].active}}

(***************************************************************************)
(* COMMIT of every operation.  The row of a new account must still be      *)
(* missing: a second founder breaks the unique email and is rolled back.   *)
(***************************************************************************)
Commit(s) ==
    LET r == reqs[s]
        u == reqs[s].target
        row == Merge(Stored(u), r.seen, r.new) IN
    /\ Busy(s)
    /\ r.seen.life = "absent" => ~Exists(u)
    /\ users' = [users EXCEPT ![u] = [role |-> row.role, active |-> row.active,
                                      life |-> row.life]]
    /\ phone' = [phone EXCEPT ![u] = row.phone]
    /\ audit' = [audit EXCEPT ![u] = Newest(s, audit[u], Recorded(audit[u], r))]
    /\ Ends(s, About(r.op, u))
    /\ unrecorded' = (unrecorded \cup Changes(u, row)) \ About(r.op, u)
    /\ reqs' = [reqs EXCEPT ![s] = Idle]
    /\ UNCHANGED holders

\* The session closes without a commit.
Abort(s) ==
    /\ Busy(s)
    /\ reqs' = [reqs EXCEPT ![s] = Idle]
    /\ Ends(s, {})
    /\ UNCHANGED <<users, phone, holders, audit, unrecorded>>

\* The work-order feature assigns and finishes orders meanwhile.
WorkMoves ==
    /\ \E moved \in SUBSET Holdable : holders' = (holders \ Holdable) \cup moved
    /\ UNCHANGED <<users, phone, audit, unrecorded, reqs, logVars>>

Next ==
    \/ \E s \in Slot :
         \/ Create(s) \/ Register(s) \/ SeedAdmin(s) \/ Update(s)
         \/ SetActive(s) \/ SetRole(s) \/ Delete(s)
         \/ Commit(s) \/ Abort(s)
    \/ WorkMoves

Spec == Init /\ [][Next]_vars

-----------------------------------------------------------------------------
(* Properties.                                                             *)

(***************************************************************************)
(* The newest listed role entry of the audit log tells the role of the     *)
(* account in every interleaving of all operations: whoever changes a role *)
(* records it with the same commit.  There are two exceptions, each until  *)
(* the next entry about the role: the seed command has changed it, which   *)
(* records nothing, or a request that began before the one whose entry is  *)
(* the newest has committed after it, and its own entry is listed beneath. *)
(***************************************************************************)
AuditTellsRole ==
    \A u \in User :
        audit[u].role # "none" /\ <<u, "role">> \notin outrun \cup unrecorded =>
            users[u].role = audit[u].role

(***************************************************************************)
(* The newest listed status entry tells, with the same exceptions, whether *)
(* the account is active (besides the seed command a PUT of the employee   *)
(* record changes that without a record); that the account is deleted it   *)
(* tells without exception, and no account comes back.                     *)
(***************************************************************************)
AuditTellsStatus ==
    \A u \in User :
        /\ audit[u].status = "deleted" => users[u].life = "deleted"
        /\ <<u, "status">> \notin outrun \cup unrecorded =>
             /\ audit[u].status = "activated" => users[u].active
             /\ audit[u].status = "deactivated" => ~users[u].active

\* The organizations that have an administrator keep one, unless a PUT takes the last away.
AdminKept ==
    \A org \in Org :
        ActiveCurrentAdmins(org) # {} =>
            \/ ActiveCurrentAdmins(org)' # {}
            \/ \E s \in Slot : reqs[s].op = "update" /\ ~reqs[s].new.active

(***************************************************************************)
(* "At least one Admin must exist in the organization": no request takes   *)
(* its last active administrator away, but a PUT of the employee record,   *)
(* which deactivates without counting.  It holds of requests that are      *)
(* served one at a time, as long as the seed command reactivates nobody.   *)
(***************************************************************************)
AdminRemains == [][AdminKept]_vars

(***************************************************************************)
(* A deleted account is inactive, the only thing that keeps it from        *)
(* signing in: neither login() nor get_current_active_user looks at        *)
(* deleted_at.                                                             *)
(***************************************************************************)
DeletedStaysInactive ==
    \A u \in User : users[u].life = "deleted" => ~users[u].active

(***************************************************************************)
(* A phone number, the primary login identity, belongs to one account.     *)
(***************************************************************************)
PhoneUnique ==
    \A u, v \in User : u # v /\ phone[u] # None => phone[u] # phone[v]

-----------------------------------------------------------------------------
(* Why it holds: what a request in flight carries from its checks.         *)

\* A request about a role writes another one than it loaded.
RoleWritten == \A s \in Slot : reqs[s].op = "role" => reqs[s].new.role # reqs[s].seen.role

\* An account goes from absent to present and from present to deleted, never back.
LifeMoves(op, from, to) ==
    /\ from # "absent" => to = from \/ to = "deleted"
    /\ from = "absent" => to = "present"
    /\ op = "delete" => from = "present" /\ to = "deleted"

(***************************************************************************)
(* What has an entry is there, and a request about a status writes another *)
(* one than it loaded.                                                     *)
(***************************************************************************)
StatusWritten ==
    /\ \A u \in User : audit[u].status # "none" => Exists(u)
    /\ \A s \in Slot : LET r == reqs[s] IN
         /\ r.op \in {"status", "delete"} => Exists(r.target)
         /\ r.op = "status" => r.new.active # r.seen.active
         /\ Busy(s) => LifeMoves(r.op, r.seen.life, r.new.life)

IsActiveAdmin(row) == row.role = "admin" /\ row.active /\ row.life = "present"

(***************************************************************************)
(* With one request in flight: what it loaded is still there, and if it    *)
(* takes an active administrator away, another one is, but for a PUT.      *)
(***************************************************************************)
Undisturbed ==
    \A s \in Slot : Busy(s) => reqs[s].target \in User /\ reqs[s].seen = Stored(reqs[s].target)

RemovalCovered ==
    \A s \in Slot : LET r == reqs[s] IN
        Busy(s) /\ r.op # "update" /\ IsActiveAdmin(r.seen) /\ ~IsActiveAdmin(r.new) =>
            ActiveCurrentAdmins(OrgOf[r.target]) \ {r.target} # {}

\* A PUT writes neither the role nor the deletion.
UpdateKeepsRole ==
    \A s \in Slot : LET r == reqs[s] IN
        r.op = "update" => r.new.role = r.seen.role /\ r.new.life = r.seen.life

DeletionDeactivates ==
    \A s \in Slot : reqs[s].new.life = "deleted" => ~reqs[s].new.active

(***************************************************************************)
(* Without the seed command, and with one request in flight.  The caller   *)
(* of delete() counts as the administrator who remains only because a      *)
(* deleted account is never active.                                        *)
(***************************************************************************)
SerialInv ==
    /\ Undisturbed
    /\ RemovalCovered
    /\ UpdateKeepsRole
    /\ DeletionDeactivates
    /\ DeletedStaysInactive

(***************************************************************************)
(* With one request in flight, every operation included: the number it     *)
(* writes is nobody else's, and an account that is not there has none.     *)
(***************************************************************************)
PhoneReserved ==
    /\ \A u \in User : ~Exists(u) => phone[u] = None
    /\ \A s \in Slot : LET r == reqs[s] IN
         Busy(s) =>
            /\ r.new.life # "absent"
            /\ r.new.phone # None => \A v \in User \ {r.target} : phone[v] # r.new.phone

=============================================================================
