----------------------------- MODULE Directory -----------------------------
(***************************************************************************)
(* The accounts of the office and what a caller may do: the users table    *)
(* (app/models/user.py), the permission matrix (app/core/rbac.py) and the  *)
(* dependencies that authenticate a request (app/core/dependencies.py).    *)
(*                                                                         *)
(* Every feature reads this state: a work-order handler authenticates its  *)
(* caller, resolves an assignee and finds the administrators to notify;    *)
(* the employee handlers write it.  A user's organization never changes,   *)
(* so it is a constant.                                                    *)
(***************************************************************************)
EXTENDS FiniteSets, Integers

CONSTANTS
    User,          \* ids of the rows of the users table
    Org,           \* ids of the organizations (tenants)
    OrgOf,         \* users.organization_id: NOT NULL and never reassigned
    None,          \* SQL NULL, for every nullable column
    InitialUsers   \* the accounts seeded before the modelled requests

VARIABLE users     \* the users table

(***************************************************************************)
(* The columns of a user that some handler tests.  "life" folds two facts: *)
(* whether the row has been inserted and whether deleted_at is set.        *)
(***************************************************************************)
Role == {"admin", "employee"}

UserRow == [role: Role, active: BOOLEAN, life: {"absent", "present", "deleted"}]

ASSUME DirectoryAssumption ==
    /\ OrgOf \in [User -> Org]
    /\ None \notin User \cup Org
    /\ InitialUsers \in [User -> UserRow]

UsersTypeOK == users \in [User -> UserRow]

Exists(u) == users[u].life # "absent"

\* The permissions some modelled endpoint asks for, by role.
Permissions(role) ==
    IF role = "admin"
      THEN {"employee:manage", "customer:manage", "customer:view",
            "workorder:manage", "workorder:create_request"}
      ELSE {"customer:view", "workorder:create_request", "workorder:update_status"}

HasPermission(u, permission) == permission \in Permissions(users[u].role)

(***************************************************************************)
(* get_current_active_user: the account exists and is active.  A deleted   *)
(* account is not refused as such, only because deletion deactivates it.   *)
(* No code deactivates an organization, so that test always succeeds.      *)
(***************************************************************************)
Authenticated(u) == Exists(u) /\ users[u].active

Allowed(u, permission) == Authenticated(u) /\ HasPermission(u, permission)

Staff(org) == {u \in User : Exists(u) /\ OrgOf[u] = org}

\* The recipients of an administrators' notification.
ActiveAdmins(org) == {u \in Staff(org) : users[u].role = "admin" /\ users[u].active}

\* The users an order may be assigned to: any row with the employee role.
Assignable(org) == {u \in Staff(org) : users[u].role = "employee"}

=============================================================================
