--------------------------- MODULE EmployeesProofs ---------------------------
(***************************************************************************)
(* Theorems about Employees, for every set of accounts and phone numbers   *)
(* and every initial table of accounts.                                    *)
(***************************************************************************)
EXTENDS Employees, FiniteSetTheorems, TLAPS

-----------------------------------------------------------------------------
(* Type correctness.                                                       *)

\* The bookkeeping of the log stays well typed, whoever begins or ends.
LEMMA LogTypes ==
    ASSUME LogTypeOK(Subject), NEW s \in Slot,
           \/ \E rivals \in SUBSET Slot : Begins(s, rivals)
           \/ \E subjects \in SUBSET Subject : Ends(s, subjects)
    PROVE  LogTypeOK(Subject)'
<1>1. ASSUME NEW rivals \in SUBSET Slot, Begins(s, rivals) PROVE LogTypeOK(Subject)'
  BY <1>1 DEF Begins, LogTypeOK
<1>2. ASSUME NEW subjects \in SUBSET Subject, Ends(s, subjects) PROVE LogTypeOK(Subject)'
  BY <1>2 DEF Ends, LogTypeOK
<1>3. QED
  BY <1>1, <1>2

(***************************************************************************)
(* Whatever operation begins, it loads a well-typed account and means to   *)
(* leave a well-typed one.                                                 *)
(***************************************************************************)
LEMMA BeginningLoads ==
    ASSUME TypeOK, NEW s \in Slot,
           \/ Create(s) \/ Register(s) \/ SeedAdmin(s) \/ Update(s)
           \/ SetActive(s) \/ SetRole(s) \/ Delete(s)
    PROVE  \E op \in Operation \ {"idle"}, u \in User, new \in Account : Load(s, op, u, new)
<1>1. ASSUME NEW u \in User PROVE Stored(u) \in Account
  BY DEF TypeOK, UsersTypeOK, UserRow, Stored, Account, Role
<1>2. CASE Create(s)
  BY <1>2 DEF Create, Account, Role, Operation
<1>3. CASE Register(s)
  BY <1>3 DEF Register, Account, Role, Operation
<1>4. CASE SeedAdmin(s)
  <2> DEFINE life == IF Exists(Founder) THEN users[Founder].life ELSE "present"
             new == [Stored(Founder) EXCEPT !.role = "admin", !.active = TRUE, !.life = life]
  <2>1. Load(s, "seed", Founder, new)
    BY <1>4 DEF SeedAdmin
  <2>2. Founder \in User
    BY EmployeesAssumption
  <2>3. life \in {"absent", "present", "deleted"}
    BY <2>2 DEF TypeOK, UsersTypeOK, UserRow
  <2>4. new \in Account
    BY <1>1, <2>2, <2>3 DEF Account, Role
  <2>5. QED
    BY <2>1, <2>2, <2>4 DEF Operation
<1>5. CASE Update(s)
  BY <1>1, <1>5 DEF Update, Account, Operation
<1>6. CASE SetActive(s)
  BY <1>1, <1>6 DEF SetActive, Account, Operation
<1>7. CASE SetRole(s)
  BY <1>1, <1>7 DEF SetRole, Account, Operation
<1>8. CASE Delete(s)
  BY <1>1, <1>8 DEF Delete, DeletedAccount, Account, Operation
<1>9. QED
  BY <1>2, <1>3, <1>4, <1>5, <1>6, <1>7, <1>8

\* Every request in flight is about an account.
Targeted == \A s \in Slot : Busy(s) => reqs[s].target \in User

LEMMA LoadTypeOK ==
    ASSUME TypeOK, Targeted, NEW s \in Slot, NEW op \in Operation, NEW u \in User, NEW new \in Account,
           Load(s, op, u, new)
    PROVE  TypeOK' /\ Targeted'
<1>1. Stored(u) \in Account
  BY DEF TypeOK, UsersTypeOK, UserRow, Stored, Account, Role
<1>2. [op |-> op, target |-> u, seen |-> Stored(u), new |-> new] \in Request
  BY <1>1 DEF Request
<1>3. reqs' \in [Slot -> Request]
  BY <1>2 DEF Load, TypeOK
<1>4. LogTypeOK(Subject)'
  BY LogTypes DEF Load, Rivals, TypeOK
<1>5. Targeted'
  BY DEF Load, TypeOK, Targeted, Busy
<1>6. QED
  BY <1>3, <1>4, <1>5 DEF Load, TypeOK, UsersTypeOK

(***************************************************************************)
(* What a COMMIT writes is well typed, and so is what it records.          *)
(***************************************************************************)
LEMMA CommitTypeOK ==
    ASSUME TypeOK, Targeted, NEW s \in Slot, Commit(s)
    PROVE  TypeOK'
<1> DEFINE r == reqs[s]
           u == reqs[s].target
           row == Merge(Stored(u), r.seen, r.new)
<1>1. r \in Request /\ Idle \in Request
  BY DEF TypeOK, Request, Idle, Operation, NoAccount, Account, Role
<1>2. /\ users' = [users EXCEPT ![u] = [role |-> row.role, active |-> row.active,
                                       life |-> row.life]]
      /\ phone' = [phone EXCEPT ![u] = row.phone]
      /\ audit' = [audit EXCEPT ![u] = Newest(s, audit[u], Recorded(audit[u], r))]
      /\ Ends(s, About(r.op, u))
      /\ unrecorded' = (unrecorded \cup Changes(u, row)) \ About(r.op, u)
      /\ reqs' = [reqs EXCEPT ![s] = Idle]
      /\ holders' = holders
  BY DEF Commit
<1>3. reqs' \in [Slot -> Request]
  BY <1>1, <1>2 DEF TypeOK
<1>4. u \in User
  BY DEF Targeted, Commit
<1>5. Stored(u) \in Account /\ r.seen \in Account /\ r.new \in Account
  BY <1>1, <1>4 DEF TypeOK, UsersTypeOK, UserRow, Stored, Account, Role, Request
<1>6. row \in Account
  BY <1>5 DEF Merge, Column, Account
<1>7. /\ [role |-> row.role, active |-> row.active, life |-> row.life] \in UserRow
      /\ row.phone \in Phone \cup {None}
  BY <1>6 DEF Account, UserRow
<1>8. Newest(s, audit[u], Recorded(audit[u], r)) \in AuditTrail
  <2>1. audit[u] \in AuditTrail /\ r.new.role \in Role
    BY <1>1, <1>4, <1>5 DEF TypeOK, Account
  <2>2. Recorded(audit[u], r) \in AuditTrail
    BY <2>1 DEF Recorded, AuditTrail
  <2>3. QED
    BY <2>1, <2>2 DEF Newest
<1>9. LogTypeOK(Subject)'
  <2>1. About(r.op, u) \in SUBSET Subject
    BY <1>4 DEF About, Subject
  <2>2. QED
    BY <1>2, <2>1, LogTypes DEF TypeOK
<1>10. unrecorded' \subseteq Subject
  BY <1>2, <1>4 DEF Changes, Subject, TypeOK
<1>11. QED
  BY <1>2, <1>3, <1>7, <1>8, <1>9, <1>10 DEF TypeOK, UsersTypeOK

(***************************************************************************)
(* Type correctness: no interleaving leaves an account or an audit entry   *)
(* outside its columns' types.                                             *)
(***************************************************************************)
THEOREM StaffTypeCorrect == Spec => []TypeOK
<1>1. Init => TypeOK /\ Targeted
  <2> SUFFICES ASSUME Init PROVE TypeOK /\ Targeted
    OBVIOUS
  <2>1. LogTypeOK(Subject)
    BY DEF Init, LogInit, LogTypeOK
  <2>2. QED
    BY <2>1, DirectoryAssumption, EmployeesAssumption
       DEF Init, TypeOK, UsersTypeOK, AuditTrail, Request, Idle, Operation, NoAccount,
           Account, Role, Targeted, Busy
<1>2. TypeOK /\ Targeted /\ [Next]_vars => TypeOK' /\ Targeted'
  <2> SUFFICES ASSUME TypeOK, Targeted, [Next]_vars PROVE TypeOK' /\ Targeted'
    OBVIOUS
  <2>1. ASSUME NEW s \in Slot,
               \/ Create(s) \/ Register(s) \/ SeedAdmin(s) \/ Update(s)
               \/ SetActive(s) \/ SetRole(s) \/ Delete(s)
        PROVE  TypeOK' /\ Targeted'
    BY <2>1, BeginningLoads, LoadTypeOK
  <2>2. ASSUME NEW s \in Slot, reqs' = [reqs EXCEPT ![s] = Idle] PROVE Targeted'
    BY <2>2 DEF TypeOK, Targeted, Busy, Idle
  <2>3. ASSUME NEW s \in Slot, Commit(s) PROVE TypeOK' /\ Targeted'
    <3>1. TypeOK'
      BY <2>3, CommitTypeOK
    <3>2. QED
      BY <2>2, <2>3, <3>1 DEF Commit
  <2>4. ASSUME NEW s \in Slot, Abort(s) PROVE TypeOK' /\ Targeted'
    <3>1. Idle \in Request
      BY DEF Request, Idle, Operation, NoAccount, Account, Role
    <3>2. LogTypeOK(Subject)'
      <4>1. {} \in SUBSET Subject
        OBVIOUS
      <4>2. QED
        BY <2>4, <4>1, LogTypes DEF Abort, TypeOK
    <3>3. QED
      BY <2>2, <2>4, <3>1, <3>2 DEF Abort, TypeOK, UsersTypeOK
  <2>5. CASE WorkMoves
    BY <2>5, EmployeesAssumption
       DEF WorkMoves, TypeOK, UsersTypeOK, LogTypeOK, logVars, Targeted, Busy
  <2>6. CASE UNCHANGED vars
    BY <2>6 DEF vars, TypeOK, UsersTypeOK, LogTypeOK, logVars, Targeted, Busy
  <2>7. QED
    BY <2>1, <2>3, <2>4, <2>5, <2>6 DEF Next
<1>3. QED
  BY <1>1, <1>2, PTL DEF Spec

-----------------------------------------------------------------------------
(* The audit log and the roles.                                            *)

\* What the beginning of an operation says of the role and the status it means to leave.
Meant(op, u, new) ==
    /\ op = "role" => new.role # users[u].role
    /\ op \in {"status", "delete"} => Exists(u)
    /\ op = "status" => new.active # users[u].active
    /\ LifeMoves(op, users[u].life, new.life)

LEMMA BeginningMeans ==
    ASSUME TypeOK, NEW s \in Slot,
           \/ Create(s) \/ Register(s) \/ SeedAdmin(s) \/ Update(s)
           \/ SetActive(s) \/ SetRole(s) \/ Delete(s)
    PROVE  \E op \in Operation \ {"idle"}, u \in User : \E new :
             Load(s, op, u, new) /\ Meant(op, u, new)
<1>1. ASSUME NEW u \in User
      PROVE  /\ Stored(u) \in Account
             /\ Stored(u).life = users[u].life /\ Stored(u).role = users[u].role
             /\ Stored(u).active = users[u].active /\ users[u].active \in BOOLEAN
  BY DEF TypeOK, UsersTypeOK, UserRow, Stored, Account, Role
<1>2. CASE Create(s) \/ Register(s)
  <2>1. PICK op \in {"create", "register"}, u \in User, p \in Phone \cup {None},
             active \in BOOLEAN :
          /\ Fresh(u)
          /\ Load(s, op, u,
                  [role |-> "employee", active |-> active, life |-> "present", phone |-> p])
    BY <1>2 DEF Create, Register
  <2>2. PICK new : new = [role |-> "employee", active |-> active, life |-> "present",
                          phone |-> p]
    OBVIOUS
  <2>3. Load(s, op, u, new) /\ new.life = "present" /\ ~Exists(u)
    BY <2>1, <2>2 DEF Fresh
  <2>4. Meant(op, u, new)
    BY <2>3 DEF Meant, LifeMoves, Exists
  <2>5. QED
    BY <2>3, <2>4 DEF Operation
<1>3. CASE SeedAdmin(s)
  <2>1. PICK life : life = IF Exists(Founder) THEN users[Founder].life ELSE "present"
    OBVIOUS
  <2>2. PICK new : new = [Stored(Founder) EXCEPT !.role = "admin", !.active = TRUE, !.life = life]
    OBVIOUS
  <2>3. Load(s, "seed", Founder, new) /\ Founder \in User
    BY <1>3, <2>1, <2>2, EmployeesAssumption DEF SeedAdmin
  <2>4. new.life = life
    BY <1>1, <2>2, <2>3 DEF Account
  <2>5. Meant("seed", Founder, new)
    BY <2>1, <2>4 DEF Meant, LifeMoves, Exists
  <2>6. QED
    BY <2>3, <2>5 DEF Operation
<1>4. CASE Update(s)
  <2>1. PICK u \in User, active \in BOOLEAN :
          /\ users[u].life = "present"
          /\ \/ Load(s, "update", u, [Stored(u) EXCEPT !.active = active])
             \/ \E p \in Phone :
                  Load(s, "update", u, [Stored(u) EXCEPT !.active = active, !.phone = p])
    BY <1>4 DEF Update, Member
  <2>2. PICK new : /\ Load(s, "update", u, new)
                   /\ \/ new = [Stored(u) EXCEPT !.active = active]
                      \/ \E p \in Phone : new = [Stored(u) EXCEPT !.active = active, !.phone = p]
    BY <2>1
  <2>3. new.life = users[u].life
    BY <1>1, <2>2 DEF Account
  <2>4. Meant("update", u, new)
    BY <2>1, <2>3 DEF Meant, LifeMoves
  <2>5. QED
    BY <2>2, <2>4 DEF Operation
<1>5. CASE SetActive(s)
  <2>1. PICK u \in User :
          /\ users[u].life = "present"
          /\ Load(s, "status", u, [Stored(u) EXCEPT !.active = ~users[u].active])
    BY <1>5 DEF SetActive, Member
  <2>2. PICK active \in BOOLEAN : active # users[u].active /\ active = ~users[u].active
    BY <1>1
  <2>3. PICK new : new = [Stored(u) EXCEPT !.active = active]
    OBVIOUS
  <2>4. /\ Load(s, "status", u, new) /\ Exists(u)
        /\ new.life = users[u].life /\ new.active # users[u].active
    BY <1>1, <2>1, <2>2, <2>3 DEF Account, Exists
  <2>5. Meant("status", u, new)
    BY <2>1, <2>4 DEF Meant, LifeMoves
  <2>6. QED
    BY <2>4, <2>5 DEF Operation
<1>6. CASE SetRole(s)
  <2>1. PICK u \in User, role \in Role :
          /\ users[u].life = "present" /\ role # users[u].role
          /\ Load(s, "role", u, [Stored(u) EXCEPT !.role = role])
    BY <1>6 DEF SetRole, Member
  <2>2. PICK new : new = [Stored(u) EXCEPT !.role = role]
    OBVIOUS
  <2>3. /\ Load(s, "role", u, new)
        /\ new.life = users[u].life /\ new.role # users[u].role
    BY <1>1, <2>1, <2>2 DEF Account
  <2>4. Meant("role", u, new)
    BY <2>1, <2>3 DEF Meant, LifeMoves
  <2>5. QED
    BY <2>3, <2>4 DEF Operation
<1>7. CASE Delete(s)
  <2>1. PICK u \in User :
          users[u].life = "present" /\ Load(s, "delete", u, DeletedAccount(u))
    BY <1>7 DEF Delete, Member
  <2>2. PICK new : new = DeletedAccount(u)
    OBVIOUS
  <2>3. Load(s, "delete", u, new) /\ Exists(u) /\ new.life = "deleted"
    BY <1>1, <2>1, <2>2 DEF DeletedAccount, Account, Exists
  <2>4. Meant("delete", u, new)
    BY <2>1, <2>3 DEF Meant, LifeMoves
  <2>5. QED
    BY <2>3, <2>4 DEF Operation
<1>8. QED
  BY <1>2, <1>3, <1>4, <1>5, <1>6, <1>7

(***************************************************************************)
(* What a COMMIT does to the account and to the entries about it; of the   *)
(* others it changes nothing.                                              *)
(***************************************************************************)
LEMMA CommitWrites ==
    ASSUME TypeOK, Targeted, NEW s \in Slot, Commit(s)
    PROVE  LET r == reqs[s]
               u == reqs[s].target
               subjects == outrun \cup unrecorded IN
           /\ u \in User /\ r.op \in Operation \ {"idle"}
           /\ r.seen.life = "absent" => ~Exists(u)
           /\ users'[u].role = IF r.new.role = r.seen.role THEN users[u].role ELSE r.new.role
           /\ users'[u].active = IF r.new.active = r.seen.active THEN users[u].active
                                 ELSE r.new.active
           /\ users'[u].life = IF r.new.life = r.seen.life THEN users[u].life ELSE r.new.life
           /\ audit'[u] = Newest(s, audit[u], Recorded(audit[u], r))
           /\ \A v \in User \ {u} : users'[v] = users[v] /\ audit'[v] = audit[v]
           /\ \A v \in User \ {u}, kind \in {"role", "status"} :
                 <<v, kind>> \in subjects => <<v, kind>> \in subjects'
           /\ About(r.op, u) \cap unrecorded' = {}
           /\ s \in late => About(r.op, u) \subseteq outrun'
           /\ \A x : x \notin About(r.op, u) => (x \in outrun' <=> x \in outrun)
           /\ \A x : x \notin About(r.op, u) =>
                        (x \in unrecorded' <=> x \in unrecorded \cup Changes(u, users'[u]))
           /\ \A t \in Slot : reqs'[t] = IF t = s THEN Idle ELSE reqs[t]
<1> DEFINE r == reqs[s]
           u == reqs[s].target
           row == Merge(Stored(u), r.seen, r.new)
<1>1. /\ u \in User /\ Busy(s) /\ r \in Request
      /\ r.seen.life = "absent" => ~Exists(u)
      /\ users' = [users EXCEPT ![u] = [role |-> row.role, active |-> row.active,
                                        life |-> row.life]]
      /\ audit' = [audit EXCEPT ![u] = Newest(s, audit[u], Recorded(audit[u], r))]
      /\ outrun' = IF s \in late THEN outrun \cup About(r.op, u) ELSE outrun \ About(r.op, u)
      /\ unrecorded' = (unrecorded \cup Changes(u, row)) \ About(r.op, u)
      /\ reqs' = [reqs EXCEPT ![s] = Idle]
  BY DEF Commit, Ends, Targeted, TypeOK
<1>2. /\ row.role = IF r.new.role = r.seen.role THEN users[u].role ELSE r.new.role
      /\ row.active = IF r.new.active = r.seen.active THEN users[u].active ELSE r.new.active
      /\ row.life = IF r.new.life = r.seen.life THEN users[u].life ELSE r.new.life
  BY DEF Merge, Column, Stored
<1>3. /\ users'[u].role = row.role /\ users'[u].active = row.active /\ users'[u].life = row.life
      /\ audit'[u] = Newest(s, audit[u], Recorded(audit[u], r))
      /\ \A v \in User \ {u} : users'[v] = users[v] /\ audit'[v] = audit[v]
  BY <1>1 DEF TypeOK, UsersTypeOK
<1>4. Changes(u, row) = Changes(u, users'[u])
  BY <1>3 DEF Changes
<1>5. r.op \in Operation \ {"idle"}
  BY <1>1 DEF Busy, Request
<1>6. \A x : x \in About(r.op, u) => x = <<u, "role">> \/ x = <<u, "status">>
  BY DEF About
<1>7. \A t \in Slot : reqs'[t] = IF t = s THEN Idle ELSE reqs[t]
  BY <1>1 DEF TypeOK
<1> HIDE DEF row
<1>8. \A v \in User \ {u}, kind \in {"role", "status"} :
        <<v, kind>> \in outrun \cup unrecorded => <<v, kind>> \in outrun' \cup unrecorded'
  BY <1>1, <1>6
<1>9. QED
  BY <1>1, <1>2, <1>3, <1>4, <1>5, <1>7, <1>8

LEMMA CommitTellsRole ==
    ASSUME TypeOK, Targeted, RoleWritten, AuditTellsRole, NEW s \in Slot, Commit(s)
    PROVE  AuditTellsRole'
<1>1. PICK r, u : r = reqs[s] /\ u = reqs[s].target
  OBVIOUS
<1>2. /\ u \in User
      /\ users'[u].role = IF r.new.role = r.seen.role THEN users[u].role ELSE r.new.role
      /\ audit'[u] = Newest(s, audit[u], Recorded(audit[u], r))
      /\ \A v \in User \ {u} : users'[v] = users[v] /\ audit'[v] = audit[v]
      /\ \A v \in User \ {u} :
            <<v, "role">> \in outrun \cup unrecorded => <<v, "role">> \in outrun' \cup unrecorded'
      /\ s \in late => About(r.op, u) \subseteq outrun'
      /\ <<u, "role">> \notin About(r.op, u) =>
           /\ <<u, "role">> \in outrun' <=> <<u, "role">> \in outrun
           /\ <<u, "role">> \in unrecorded' <=>
                <<u, "role">> \in unrecorded \cup Changes(u, users'[u])
  BY <1>1, CommitWrites
<1>3. audit[u] \in AuditTrail
  BY <1>2 DEF TypeOK
<1>4. SUFFICES ASSUME audit'[u].role # "none", <<u, "role">> \notin outrun' \cup unrecorded'
               PROVE  users'[u].role = audit'[u].role
  BY <1>2 DEF AuditTellsRole
<1>5. CASE r.op = "role"
  <2>1. s \notin late
    BY <1>2, <1>4, <1>5 DEF About
  <2>2. audit'[u].role = r.new.role
    BY <1>2, <1>3, <1>5, <2>1 DEF Newest, Recorded, AuditTrail
  <2>3. QED
    BY <1>1, <1>2, <1>5, <2>2 DEF RoleWritten
<1>6. CASE r.op # "role"
  <2>1. audit'[u].role = audit[u].role
    BY <1>2, <1>3, <1>6 DEF Newest, Recorded, AuditTrail
  <2>2. <<u, "role">> \notin About(r.op, u)
    BY <1>6 DEF About
  <2>3. <<u, "role">> \notin outrun \cup unrecorded /\ <<u, "role">> \notin Changes(u, users'[u])
    BY <1>2, <1>4, <2>2
  <2>4. users'[u].role = users[u].role
    BY <2>3 DEF Changes
  <2>5. QED
    BY <1>2, <1>4, <2>1, <2>3, <2>4 DEF AuditTellsRole
<1>7. QED
  BY <1>5, <1>6

(***************************************************************************)
(* The newest listed role entry of the audit log tells the role of the     *)
(* account, however the operations interleave, until the seed command      *)
(* changes it without an entry, or a request that began earlier than the   *)
(* one of the newest entry and commits later.                              *)
(***************************************************************************)
THEOREM AuditKnowsTheRole == Spec => []AuditTellsRole
<1> DEFINE RInv == Targeted /\ RoleWritten /\ AuditTellsRole
<1>1. Init => RInv
  BY DEF Init, Targeted, RoleWritten, AuditTellsRole, Idle, Busy
<1>2. TypeOK /\ RInv /\ [Next]_vars => RInv'
  <2> SUFFICES ASSUME TypeOK, RInv, [Next]_vars PROVE RInv'
    OBVIOUS
  <2>1. ASSUME NEW s \in Slot,
               \/ Create(s) \/ Register(s) \/ SeedAdmin(s) \/ Update(s)
               \/ SetActive(s) \/ SetRole(s) \/ Delete(s)
        PROVE  RInv'
    <3>1. PICK op \in Operation, u \in User : \E new : Load(s, op, u, new) /\ Meant(op, u, new)
      BY <2>1, BeginningMeans
    <3>2. PICK new : Load(s, op, u, new) /\ Meant(op, u, new)
      BY <3>1
    <3>3. PICK q : q = [op |-> op, target |-> u, seen |-> Stored(u), new |-> new]
      OBVIOUS
    <3>4. q.op = op /\ q.target = u /\ q.seen.role = users[u].role /\ q.new = new
      BY <3>3 DEF Stored
    <3>5. /\ UNCHANGED <<users, audit, outrun, unrecorded>>
          /\ \A t \in Slot : reqs'[t] = IF t = s THEN q ELSE reqs[t]
      BY <3>2, <3>3 DEF Load, Begins, TypeOK
    <3>6. QED
      BY <3>2, <3>4, <3>5 DEF Meant, Targeted, RoleWritten, AuditTellsRole, Busy
  <2>2. ASSUME NEW s \in Slot, reqs' = [reqs EXCEPT ![s] = Idle]
        PROVE  Targeted' /\ RoleWritten'
    BY <2>2 DEF TypeOK, Targeted, RoleWritten, Busy, Idle
  <2>3. ASSUME NEW s \in Slot, Commit(s) PROVE RInv'
    <3>1. AuditTellsRole'
      BY <2>3, CommitTellsRole
    <3>2. QED
      BY <2>2, <2>3, <3>1 DEF Commit
  <2>4. ASSUME NEW s \in Slot, Abort(s) PROVE RInv'
    <3>1. AuditTellsRole'
      BY <2>4 DEF Abort, Ends, AuditTellsRole
    <3>2. QED
      BY <2>2, <2>4, <3>1 DEF Abort
  <2>5. CASE WorkMoves \/ UNCHANGED vars
    BY <2>5 DEF WorkMoves, vars, logVars, Targeted, RoleWritten, AuditTellsRole, Busy
  <2>6. QED
    BY <2>1, <2>3, <2>4, <2>5 DEF Next
<1>3. QED
  BY <1>1, <1>2, StaffTypeCorrect, PTL DEF Spec

-----------------------------------------------------------------------------
(* The audit log and the status.                                           *)

LEMMA CommitTellsStatus ==
    ASSUME TypeOK, Targeted, StatusWritten, AuditTellsStatus, NEW s \in Slot, Commit(s)
    PROVE  StatusWritten' /\ AuditTellsStatus'
<1>1. PICK r, u : r = reqs[s] /\ u = reqs[s].target
  OBVIOUS
<1>2. /\ u \in User /\ r.op \in Operation \ {"idle"}
      /\ r.seen.life = "absent" => ~Exists(u)
      /\ users'[u].active = IF r.new.active = r.seen.active THEN users[u].active
                            ELSE r.new.active
      /\ users'[u].life = IF r.new.life = r.seen.life THEN users[u].life ELSE r.new.life
      /\ audit'[u] = Newest(s, audit[u], Recorded(audit[u], r))
      /\ \A v \in User \ {u} : users'[v] = users[v] /\ audit'[v] = audit[v]
      /\ \A v \in User \ {u} :
            <<v, "status">> \in outrun \cup unrecorded => <<v, "status">> \in outrun' \cup unrecorded'
      /\ s \in late => About(r.op, u) \subseteq outrun'
      /\ <<u, "status">> \notin About(r.op, u) =>
           /\ <<u, "status">> \in outrun' <=> <<u, "status">> \in outrun
           /\ <<u, "status">> \in unrecorded' <=>
                <<u, "status">> \in unrecorded \cup Changes(u, users'[u])
      /\ \A t \in Slot : reqs'[t] = IF t = s THEN Idle ELSE reqs[t]
  BY <1>1, CommitWrites
<1>3. audit[u] \in AuditTrail
  BY <1>2 DEF TypeOK
<1>4. /\ r.op \in {"status", "delete"} => Exists(u)
      /\ r.op = "status" => r.new.active # r.seen.active
      /\ r.seen.life # "absent" => r.new.life = r.seen.life \/ r.new.life = "deleted"
      /\ r.seen.life = "absent" => r.new.life = "present"
      /\ r.op = "delete" => r.seen.life = "present" /\ r.new.life = "deleted"
  BY <1>1, <1>2 DEF StatusWritten, LifeMoves, Busy
<1>5. \A v \in User : Exists(v) => Exists(v)'
  BY <1>2, <1>4 DEF Exists
<1>6. audit'[u].status # "none" => Exists(u)'
  <2>1. audit'[u].status # "none" => audit[u].status # "none" \/ r.op \in {"status", "delete"}
    BY <1>2, <1>3 DEF Newest, Recorded, AuditTrail
  <2>2. QED
    BY <1>2, <1>4, <1>5, <2>1 DEF StatusWritten
<1>7. StatusWritten'
  <2>1. \A v \in User : audit'[v].status # "none" => Exists(v)'
    BY <1>2, <1>5, <1>6 DEF StatusWritten
  <2>2. ASSUME NEW t \in Slot
        PROVE  /\ reqs'[t].op \in {"status", "delete"} =>
                    users'[reqs'[t].target].life # "absent"
               /\ reqs'[t].op = "status" => reqs'[t].new.active # reqs'[t].seen.active
               /\ reqs'[t].op # "idle" =>
                    LifeMoves(reqs'[t].op, reqs'[t].seen.life, reqs'[t].new.life)
    <3>1. CASE t = s
      BY <1>2, <3>1 DEF Idle
    <3>2. CASE t # s
      <4>1. PICK q : q = reqs[t]
        OBVIOUS
      <4>2. q.op \in {"status", "delete"} => q.target \in User /\ Exists(q.target)
        BY <4>1 DEF Targeted, StatusWritten, Busy
      <4>3. /\ q.op = "status" => q.new.active # q.seen.active
            /\ q.op # "idle" => LifeMoves(q.op, q.seen.life, q.new.life)
        BY <4>1 DEF StatusWritten, Busy
      <4>4. q.op \in {"status", "delete"} => users'[q.target].life # "absent"
        BY <1>5, <4>2 DEF Exists
      <4>5. reqs'[t] = q
        BY <1>2, <3>2, <4>1
      <4>6. QED
        BY <4>3, <4>4, <4>5
    <3>3. QED
      BY <3>1, <3>2
  <2>3. QED
    BY <2>1, <2>2 DEF StatusWritten, Busy, Exists, LifeMoves
<1>8. audit[u].status = "deleted" => users'[u].life = "deleted"
  BY <1>2, <1>4 DEF AuditTellsStatus, StatusWritten, Exists
<1>9. SUFFICES /\ audit'[u].status = "deleted" => users'[u].life = "deleted"
               /\ <<u, "status">> \notin outrun' \cup unrecorded' =>
                    /\ audit'[u].status = "activated" => users'[u].active
                    /\ audit'[u].status = "deactivated" => ~users'[u].active
  BY <1>2, <1>7 DEF AuditTellsStatus
<1>10. CASE r.op \in {"status", "delete"} /\ s \in late
  <2>1. audit'[u] = audit[u] /\ <<u, "status">> \in outrun'
    BY <1>2, <1>10 DEF Newest, About
  <2>2. QED
    BY <1>8, <2>1
<1>11. CASE r.op = "status" /\ s \notin late
  <2>1. audit'[u].status = IF r.new.active THEN "activated" ELSE "deactivated"
    BY <1>2, <1>3, <1>11 DEF Newest, Recorded, AuditTrail
  <2>2. users'[u].active = r.new.active
    BY <1>2, <1>4, <1>11
  <2>3. QED
    BY <2>1, <2>2
<1>12. CASE r.op = "delete" /\ s \notin late
  <2>1. audit'[u].status = "deleted" /\ users'[u].life = "deleted"
    BY <1>2, <1>3, <1>4, <1>12 DEF Newest, Recorded, AuditTrail
  <2>2. QED
    BY <2>1
<1>13. CASE r.op \notin {"status", "delete"}
  <2>1. audit'[u].status = audit[u].status /\ <<u, "status">> \notin About(r.op, u)
    BY <1>2, <1>3, <1>13 DEF Newest, Recorded, About, AuditTrail
  <2>2. ASSUME <<u, "status">> \notin outrun' \cup unrecorded'
        PROVE  users'[u].active = users[u].active /\ <<u, "status">> \notin outrun \cup unrecorded
    <3>1. /\ <<u, "status">> \notin outrun \cup unrecorded
          /\ <<u, "status">> \notin Changes(u, users'[u])
      BY <1>2, <2>1, <2>2
    <3>2. QED
      BY <3>1 DEF Changes
  <2>3. QED
    BY <1>2, <1>8, <2>1, <2>2 DEF AuditTellsStatus
<1>14. QED
  BY <1>10, <1>11, <1>12, <1>13

(***************************************************************************)
(* The newest listed status entry of the audit log tells the status of the *)
(* account, however the operations interleave, until a PUT or the seed     *)
(* command changes it without an entry, or a request that began earlier    *)
(* than the one of the newest entry and commits later.  That the account   *)
(* is deleted it tells without exception.                                  *)
(***************************************************************************)
THEOREM AuditKnowsTheStatus == Spec => []AuditTellsStatus
<1> DEFINE SInv == Targeted /\ StatusWritten /\ AuditTellsStatus
<1>1. Init => SInv
  BY DEF Init, Targeted, StatusWritten, AuditTellsStatus, Idle, Busy
<1>2. TypeOK /\ SInv /\ [Next]_vars => SInv'
  <2> SUFFICES ASSUME TypeOK, SInv, [Next]_vars PROVE SInv'
    OBVIOUS
  <2>1. ASSUME NEW s \in Slot,
               \/ Create(s) \/ Register(s) \/ SeedAdmin(s) \/ Update(s)
               \/ SetActive(s) \/ SetRole(s) \/ Delete(s)
        PROVE  SInv'
    <3>1. PICK op \in Operation, u \in User : \E new : Load(s, op, u, new) /\ Meant(op, u, new)
      BY <2>1, BeginningMeans
    <3>2. PICK new : Load(s, op, u, new) /\ Meant(op, u, new)
      BY <3>1
    <3>3. PICK q : q = [op |-> op, target |-> u, seen |-> Stored(u), new |-> new]
      OBVIOUS
    <3>4. /\ q.op = op /\ q.target = u /\ q.new = new
          /\ q.seen.active = users[u].active /\ q.seen.life = users[u].life
      BY <3>3 DEF Stored
    <3>5. /\ UNCHANGED <<users, audit, outrun, unrecorded>>
          /\ \A t \in Slot : reqs'[t] = IF t = s THEN q ELSE reqs[t]
      BY <3>2, <3>3 DEF Load, Begins, TypeOK
    <3>6. Targeted' /\ AuditTellsStatus'
      BY <3>4, <3>5 DEF Targeted, AuditTellsStatus, Busy
    <3>7. StatusWritten'
      BY <3>2, <3>4, <3>5 DEF Meant, StatusWritten, Exists, Busy
    <3>8. QED
      BY <3>6, <3>7
  <2>2. ASSUME NEW s \in Slot, reqs' = [reqs EXCEPT ![s] = Idle] PROVE Targeted'
    BY <2>2 DEF TypeOK, Targeted, Busy, Idle
  <2>3. ASSUME NEW s \in Slot, Commit(s) PROVE SInv'
    <3>1. StatusWritten' /\ AuditTellsStatus'
      BY <2>3, CommitTellsStatus
    <3>2. QED
      BY <2>2, <2>3, <3>1 DEF Commit
  <2>4. ASSUME NEW s \in Slot, Abort(s) PROVE SInv'
    BY <2>2, <2>4 DEF Abort, Ends, TypeOK, StatusWritten, AuditTellsStatus, Exists, Busy, Idle
  <2>5. CASE WorkMoves \/ UNCHANGED vars
    BY <2>5 DEF WorkMoves, vars, logVars, Targeted, StatusWritten, AuditTellsStatus, Exists, Busy
  <2>6. QED
    BY <2>1, <2>3, <2>4, <2>5 DEF Next
<1>3. QED
  BY <1>1, <1>2, StaffTypeCorrect, PTL DEF Spec

(***************************************************************************)
(* One request at a time the log is in order: no entry is ever listed      *)
(* beneath one that was added before it, so that what the two theorems     *)
(* above say is said of every account without exception.                   *)
(***************************************************************************)
THEOREM SerialLogInOrder ==
    ASSUME \A s, t \in Slot : s = t
    PROVE  Spec => [](outrun = {})
<1> DEFINE LInv == elders = [s \in Slot |-> {}] /\ late = {} /\ outrun = {}
<1>1. Init => LInv
  BY DEF Init, LogInit
<1>2. LInv /\ [Next]_vars => LInv'
  <2> SUFFICES ASSUME LInv, [Next]_vars PROVE LInv'
    OBVIOUS
  <2>1. ASSUME NEW s \in Slot, NEW op, NEW u, NEW new, Load(s, op, u, new) PROVE LInv'
    <3>1. Rivals(op, u) = {}
      BY <2>1 DEF Load, Rivals, About, Busy
    <3>2. QED
      BY <2>1, <3>1 DEF Load, Begins
  <2>2. ASSUME NEW s \in Slot,
               \/ Create(s) \/ Register(s) \/ SeedAdmin(s) \/ Update(s)
               \/ SetActive(s) \/ SetRole(s) \/ Delete(s)
        PROVE  LInv'
    BY <2>1, <2>2 DEF Create, Register, SeedAdmin, Update, SetActive, SetRole, Delete
  <2>3. ASSUME NEW s \in Slot, NEW subjects, Ends(s, subjects) PROVE LInv'
    BY <2>3 DEF Ends
  <2>4. ASSUME NEW s \in Slot, Commit(s) \/ Abort(s) PROVE LInv'
    BY <2>3, <2>4 DEF Commit, Abort
  <2>5. CASE WorkMoves \/ UNCHANGED vars
    BY <2>5 DEF WorkMoves, vars, logVars
  <2>6. QED
    BY <2>2, <2>4, <2>5 DEF Next
<1>3. QED
  BY <1>1, <1>2, PTL DEF Spec

-----------------------------------------------------------------------------
(* The administrator who remains.                                          *)

LEMMA AnotherRemains ==
    ASSUME NEW A, NEW u, Cardinality(A) > 1
    PROVE  A \ {u} # {}
<1> SUFFICES ASSUME A \ {u} = {} PROVE FALSE
  OBVIOUS
<1>1. A = {} \/ A = {u}
  OBVIOUS
<1>2. Cardinality({}) = 0 /\ Cardinality({u}) = 1
  BY FS_EmptySet, FS_Singleton
<1>3. QED
  BY <1>1, <1>2

\* The inserted row was none, so it takes no administrator away.
LEMMA InsertCovered ==
    ASSUME TypeOK, NEW s \in Slot, Create(s) \/ Register(s)
    PROVE  \E op \in Operation \ {"update"}, u \in User, new \in Account :
             /\ Load(s, op, u, new) /\ new.life = "present"
             /\ ~IsActiveAdmin(Stored(u))
<1>1. ASSUME NEW u \in User, Fresh(u) PROVE ~IsActiveAdmin(Stored(u))
  BY <1>1 DEF Fresh, Exists, IsActiveAdmin, Stored
<1>2. CASE Create(s)
  <2>1. PICK u \in User, p \in Phone, active \in BOOLEAN :
          /\ Fresh(u)
          /\ Load(s, "create", u,
                  [role |-> "employee", active |-> active, life |-> "present", phone |-> p])
    BY <1>2 DEF Create
  <2> DEFINE new == [role |-> "employee", active |-> active, life |-> "present", phone |-> p]
  <2>2. new \in Account /\ new.life = "present" /\ "create" \in Operation \ {"update"}
    BY <2>1 DEF Account, Role, Operation
  <2>3. Load(s, "create", u, new)
    BY <2>1
  <2> HIDE DEF new
  <2>4. QED
    BY <1>1, <2>1, <2>2, <2>3
<1>3. CASE Register(s)
  <2>1. PICK u \in User, p \in Phone \cup {None} :
          /\ Fresh(u)
          /\ Load(s, "register", u,
                  [role |-> "employee", active |-> TRUE, life |-> "present", phone |-> p])
    BY <1>3 DEF Register
  <2> DEFINE new == [role |-> "employee", active |-> TRUE, life |-> "present", phone |-> p]
  <2>2. new \in Account /\ new.life = "present" /\ "register" \in Operation \ {"update"}
    BY <2>1 DEF Account, Role, Operation
  <2>3. Load(s, "register", u, new)
    BY <2>1
  <2> HIDE DEF new
  <2>4. QED
    BY <1>1, <2>1, <2>2, <2>3
<1>4. QED
  BY <1>2, <1>3

(***************************************************************************)
(* What set_active, set_role and delete check is enough for the            *)
(* administrators who are there when it is checked.                        *)
(***************************************************************************)
LEMMA RemovalChecked ==
    ASSUME TypeOK, DeletedStaysInactive, NEW s \in Slot,
           SetActive(s) \/ SetRole(s) \/ Delete(s)
    PROVE  \E op \in Operation \ {"update"}, u \in User, new \in Account :
             /\ Load(s, op, u, new)
             /\ new.life = "deleted" => ~new.active
             /\ IsActiveAdmin(Stored(u)) /\ ~IsActiveAdmin(new) =>
                  ActiveCurrentAdmins(OrgOf[u]) \ {u} # {}
<1>1. ASSUME NEW u \in User
      PROVE  /\ Stored(u) \in Account
             /\ Stored(u).role = users[u].role /\ Stored(u).life = users[u].life
             /\ Stored(u).active = users[u].active /\ users[u].active \in BOOLEAN
  BY DEF TypeOK, UsersTypeOK, UserRow, Stored, Account, Role
<1>2. CASE SetActive(s)
  <2>1. PICK u \in User :
          /\ users[u].life = "present"
          /\ users[u].active /\ users[u].role = "admin" => OtherActiveAdmin(OrgOf[u])
          /\ Load(s, "status", u, [Stored(u) EXCEPT !.active = ~users[u].active])
    BY <1>2 DEF SetActive, Member
  <2> DEFINE new == [Stored(u) EXCEPT !.active = ~users[u].active]
  <2>2. /\ new \in Account /\ "status" \in Operation \ {"update"}
        /\ new.life = "deleted" => ~new.active
    BY <1>1, <2>1 DEF Account, Operation
  <2>3. IsActiveAdmin(Stored(u)) => ActiveCurrentAdmins(OrgOf[u]) \ {u} # {}
    BY <1>1, <2>1, AnotherRemains DEF IsActiveAdmin, OtherActiveAdmin
  <2>4. Load(s, "status", u, new)
    BY <2>1
  <2> HIDE DEF new
  <2>5. QED
    BY <2>2, <2>3, <2>4
<1>3. CASE SetRole(s)
  <2>1. PICK u \in User, role \in Role :
          /\ users[u].life = "present" /\ role # users[u].role
          /\ role = "employee" /\ users[u].active => OtherActiveAdmin(OrgOf[u])
          /\ Load(s, "role", u, [Stored(u) EXCEPT !.role = role])
    BY <1>3 DEF SetRole, Member
  <2> DEFINE new == [Stored(u) EXCEPT !.role = role]
  <2>2. /\ new \in Account /\ "role" \in Operation \ {"update"}
        /\ new.life = "deleted" => ~new.active
    BY <1>1, <2>1 DEF Account, Operation
  <2>3. IsActiveAdmin(Stored(u)) => ActiveCurrentAdmins(OrgOf[u]) \ {u} # {}
    BY <1>1, <2>1, AnotherRemains DEF IsActiveAdmin, OtherActiveAdmin, Role
  <2>4. Load(s, "role", u, new)
    BY <2>1
  <2> HIDE DEF new
  <2>5. QED
    BY <2>2, <2>3, <2>4
<1>4. CASE Delete(s)
  <2>1. PICK admin \in User, u \in User :
          /\ Allowed(admin, "employee:manage")
          /\ Member(OrgOf[admin], u) /\ u # admin
          /\ Load(s, "delete", u, DeletedAccount(u))
    BY <1>4 DEF Delete
  <2>2. /\ DeletedAccount(u) \in Account /\ "delete" \in Operation \ {"update"}
        /\ DeletedAccount(u).life = "deleted" => ~DeletedAccount(u).active
    BY <1>1 DEF DeletedAccount, Account, Operation
  <2>3. users[admin].role = "admin" /\ users[admin].active /\ users[admin].life = "present"
    BY <2>1 DEF Allowed, Authenticated, HasPermission, Permissions, Exists,
                DeletedStaysInactive, TypeOK, UsersTypeOK, UserRow
  <2>4. admin \in ActiveCurrentAdmins(OrgOf[u])
    BY <2>1, <2>3 DEF Member, ActiveCurrentAdmins, CurrentAdmins
  <2>5. QED
    BY <2>1, <2>2, <2>4
<1>5. QED
  BY <1>2, <1>3, <1>4

LEMMA LoadKeepsSerialInv ==
    ASSUME TypeOK, SerialInv, NEW s \in Slot,
           NEW op \in Operation, NEW u \in User, NEW new \in Account,
           Load(s, op, u, new),
           new.life = "deleted" => ~new.active,
           op = "update" => new.role = Stored(u).role /\ new.life = Stored(u).life,
           op # "update" /\ IsActiveAdmin(Stored(u)) /\ ~IsActiveAdmin(new) =>
             ActiveCurrentAdmins(OrgOf[u]) \ {u} # {}
    PROVE  SerialInv' /\ AdminKept
<1>1. /\ reqs' = [reqs EXCEPT ![s] =
                    [op |-> op, target |-> u, seen |-> Stored(u), new |-> new]]
      /\ users' = users /\ phone' = phone
  BY DEF Load
<1>2. /\ \A v \in User : Stored(v)' = Stored(v)
      /\ \A org : ActiveCurrentAdmins(org)' = ActiveCurrentAdmins(org)
  BY <1>1 DEF Stored, ActiveCurrentAdmins, CurrentAdmins, Member
<1>3. \A t \in Slot \ {s} : reqs'[t] = reqs[t]
  BY <1>1 DEF TypeOK
<1>4. reqs'[s] = [op |-> op, target |-> u, seen |-> Stored(u), new |-> new]
  BY <1>1 DEF TypeOK
<1>5. Undisturbed'
  BY <1>2, <1>3, <1>4 DEF SerialInv, Undisturbed, Busy
<1>6. RemovalCovered'
  BY <1>2, <1>3, <1>4 DEF SerialInv, RemovalCovered, Busy
<1>7. DeletionDeactivates'
  BY <1>3, <1>4 DEF SerialInv, DeletionDeactivates
<1>8. DeletedStaysInactive'
  BY <1>1, <1>2 DEF SerialInv, DeletedStaysInactive
<1>9. UpdateKeepsRole'
  BY <1>3, <1>4 DEF SerialInv, UpdateKeepsRole
<1>10. AdminKept
  BY <1>2 DEF AdminKept
<1>11. QED
  BY <1>5, <1>6, <1>7, <1>8, <1>9, <1>10 DEF SerialInv

(***************************************************************************)
(* With one request in flight a COMMIT writes the account it means to, and *)
(* keeps an administrator.                                                 *)
(***************************************************************************)
LEMMA CommitKeepsSerialInv ==
    ASSUME \A s, t \in Slot : s = t, TypeOK, SerialInv, NEW s \in Slot, Commit(s)
    PROVE  SerialInv' /\ AdminKept
<1> DEFINE r == reqs[s]
           u == reqs[s].target
<1>1. /\ Busy(s) /\ u \in User /\ r.seen = Stored(u)
      /\ users' = [users EXCEPT ![u] =
                     LET row == Merge(Stored(u), r.seen, r.new)
                     IN [role |-> row.role, active |-> row.active, life |-> row.life]]
      /\ reqs' = [reqs EXCEPT ![s] = Idle]
  BY DEF Commit, SerialInv, Undisturbed
<1>2. users' = [users EXCEPT ![u] = [role |-> r.new.role, active |-> r.new.active,
                                     life |-> r.new.life]]
  BY <1>1 DEF Merge, Column
<1>3. /\ \A v \in User \ {u} : users'[v] = users[v]
      /\ users'[u].role = r.new.role /\ users'[u].active = r.new.active
      /\ users'[u].life = r.new.life
  BY <1>1, <1>2 DEF TypeOK, UsersTypeOK
<1>4. \A t \in Slot : reqs'[t] = Idle
  BY <1>1 DEF TypeOK
<1>5. Undisturbed' /\ RemovalCovered' /\ UpdateKeepsRole' /\ DeletionDeactivates'
  BY <1>4 DEF Undisturbed, RemovalCovered, UpdateKeepsRole, DeletionDeactivates,
              Busy, Idle, NoAccount
<1>6. DeletedStaysInactive'
  BY <1>3 DEF SerialInv, DeletionDeactivates, DeletedStaysInactive
<1>7. ASSUME NEW org \in Org, ActiveCurrentAdmins(org) # {},
             ~(r.op = "update" /\ ~r.new.active)
      PROVE  ActiveCurrentAdmins(org)' # {}
  <2>1. \A v \in User \ {u} :
          v \in ActiveCurrentAdmins(org) => v \in ActiveCurrentAdmins(org)'
    BY <1>3 DEF ActiveCurrentAdmins, CurrentAdmins, Member
  <2>2. CASE OrgOf[u] = org /\ IsActiveAdmin(r.new)
    <3>1. u \in ActiveCurrentAdmins(org)'
      BY <1>1, <1>3, <2>2 DEF IsActiveAdmin, ActiveCurrentAdmins, CurrentAdmins, Member
    <3>2. QED
      BY <3>1
  <2>3. CASE OrgOf[u] = org /\ IsActiveAdmin(r.seen) /\ ~IsActiveAdmin(r.new)
    <3>0. r.op # "update"
      BY <1>7, <2>3 DEF SerialInv, UpdateKeepsRole, IsActiveAdmin
    <3>1. PICK v \in ActiveCurrentAdmins(org) \ {u} : TRUE
      BY <1>1, <2>3, <3>0 DEF SerialInv, RemovalCovered
    <3>2. v \in User
      BY <3>1 DEF ActiveCurrentAdmins, CurrentAdmins
    <3>3. QED
      BY <2>1, <3>1, <3>2
  <2>4. CASE ~(OrgOf[u] = org /\ IsActiveAdmin(r.seen))
    <3>1. u \notin ActiveCurrentAdmins(org)
      BY <1>1, <2>4 DEF IsActiveAdmin, Stored, ActiveCurrentAdmins, CurrentAdmins, Member
    <3>2. PICK v \in ActiveCurrentAdmins(org) : v \in User
      BY <1>7 DEF ActiveCurrentAdmins, CurrentAdmins
    <3>3. QED
      BY <2>1, <3>1, <3>2
  <2>5. QED
    BY <2>2, <2>3, <2>4
<1>8. AdminKept
  BY <1>7 DEF AdminKept
<1>9. QED
  BY <1>5, <1>6, <1>8 DEF SerialInv

(***************************************************************************)
(* Whatever begins while nothing is in flight keeps the invariant.         *)
(***************************************************************************)
LEMMA BeginningKeepsSerialInv ==
    ASSUME TypeOK, SerialInv, "seed" \notin Endpoints, NEW s \in Slot,
           \/ Create(s) \/ Register(s) \/ SeedAdmin(s) \/ Update(s)
           \/ SetActive(s) \/ SetRole(s) \/ Delete(s)
    PROVE  SerialInv' /\ AdminKept
<1>1. CASE Create(s) \/ Register(s)
  <2>1. PICK op \in Operation \ {"update"}, u \in User, new \in Account :
          /\ Load(s, op, u, new) /\ new.life = "present"
          /\ ~IsActiveAdmin(Stored(u))
    BY <1>1, InsertCovered
  <2>2. QED
    BY <2>1, LoadKeepsSerialInv
<1>2. CASE SetActive(s) \/ SetRole(s) \/ Delete(s)
  <2>1. DeletedStaysInactive
    BY DEF SerialInv
  <2>2. PICK op \in Operation \ {"update"}, u \in User, new \in Account :
          /\ Load(s, op, u, new)
          /\ new.life = "deleted" => ~new.active
          /\ IsActiveAdmin(Stored(u)) /\ ~IsActiveAdmin(new) =>
               ActiveCurrentAdmins(OrgOf[u]) \ {u} # {}
    BY <1>2, <2>1, RemovalChecked
  <2>3. QED
    BY <2>2, LoadKeepsSerialInv
<1>3. CASE SeedAdmin(s)
  BY <1>3 DEF SeedAdmin, Load
<1>4. CASE Update(s)
  <2>1. PICK u \in User, active \in BOOLEAN :
          /\ users[u].life = "present"
          /\ \/ Load(s, "update", u, [Stored(u) EXCEPT !.active = active])
             \/ \E p \in Phone :
                  Load(s, "update", u, [Stored(u) EXCEPT !.active = active, !.phone = p])
    BY <1>4 DEF Update, Member
  <2>2. PICK new : /\ Load(s, "update", u, new)
                   /\ \/ new = [Stored(u) EXCEPT !.active = active]
                      \/ \E p \in Phone : new = [Stored(u) EXCEPT !.active = active, !.phone = p]
    BY <2>1
  <2>3. Stored(u) \in Account /\ Stored(u).life = "present"
    BY <2>1 DEF TypeOK, UsersTypeOK, UserRow, Stored, Account, Role
  <2>4. /\ new \in Account /\ new.life = "present"
        /\ new.role = Stored(u).role /\ new.life = Stored(u).life
    BY <2>2, <2>3 DEF Account
  <2>5. "update" \in Operation
    BY DEF Operation
  <2>6. QED
    BY <2>2, <2>4, <2>5, LoadKeepsSerialInv
<1>5. QED
  BY <1>1, <1>2, <1>3, <1>4

(***************************************************************************)
(* One request at a time, and unless the seed command reactivates a        *)
(* deleted founder, whom delete() would count as the one who remains, the  *)
(* last-administrator rules keep an administrator who can sign in: no step *)
(* takes the last one away, but the PUT that skips the check.              *)
(***************************************************************************)
THEOREM SerialAdministration ==
    ASSUME \A s, t \in Slot : s = t, "seed" \notin Endpoints
    PROVE  Spec => AdminRemains
<1>1. Init => SerialInv
  <2> SUFFICES ASSUME Init PROVE SerialInv
    OBVIOUS
  <2>1. users = InitialUsers /\ \A s \in Slot : reqs[s] = Idle
    BY DEF Init
  <2>2. Undisturbed /\ RemovalCovered /\ UpdateKeepsRole /\ DeletionDeactivates
    BY <2>1 DEF Undisturbed, RemovalCovered, UpdateKeepsRole, DeletionDeactivates,
                Busy, Idle, NoAccount
  <2>3. DeletedStaysInactive
    BY <2>1, EmployeesAssumption DEF DeletedStaysInactive
  <2>4. QED
    BY <2>2, <2>3 DEF SerialInv
<1>2. TypeOK /\ SerialInv /\ [Next]_vars => SerialInv' /\ AdminKept
  <2> SUFFICES ASSUME TypeOK, SerialInv, [Next]_vars PROVE SerialInv' /\ AdminKept
    OBVIOUS
  <2>1. ASSUME NEW s \in Slot,
               \/ Create(s) \/ Register(s) \/ SeedAdmin(s) \/ Update(s)
               \/ SetActive(s) \/ SetRole(s) \/ Delete(s)
        PROVE  SerialInv' /\ AdminKept
    BY <2>1, BeginningKeepsSerialInv
  <2>2. ASSUME NEW s \in Slot, Commit(s) PROVE SerialInv' /\ AdminKept
    BY <2>2, CommitKeepsSerialInv
  <2>3. ASSUME UNCHANGED <<users, phone>>,
               \A s \in Slot : reqs'[s] \in {reqs[s], Idle}
        PROVE  SerialInv' /\ AdminKept
    <3>1. /\ \A v \in User : Stored(v)' = Stored(v)
          /\ \A org : ActiveCurrentAdmins(org)' = ActiveCurrentAdmins(org)
      BY <2>3 DEF Stored, ActiveCurrentAdmins, CurrentAdmins, Member
    <3>2. Undisturbed' /\ RemovalCovered'
      BY <2>3, <3>1 DEF SerialInv, Undisturbed, RemovalCovered, Busy, Idle
    <3>3. UpdateKeepsRole' /\ DeletionDeactivates'
      BY <2>3 DEF SerialInv, UpdateKeepsRole, DeletionDeactivates, Idle, NoAccount
    <3>4. AdminKept /\ DeletedStaysInactive'
      BY <2>3, <3>1 DEF SerialInv, AdminKept, DeletedStaysInactive
    <3>5. QED
      BY <3>2, <3>3, <3>4 DEF SerialInv
  <2>4. ASSUME NEW s \in Slot, Abort(s) PROVE SerialInv' /\ AdminKept
    BY <2>3, <2>4 DEF Abort, TypeOK
  <2>5. CASE WorkMoves
    BY <2>3, <2>5 DEF WorkMoves
  <2>6. CASE UNCHANGED vars
    BY <2>3, <2>6 DEF vars
  <2>7. QED
    BY <2>1, <2>2, <2>4, <2>5, <2>6 DEF Next
<1>3. QED
  BY <1>1, <1>2, StaffTypeCorrect, PTL DEF Spec, AdminRemains

(***************************************************************************)
(* One request in flight finds what it loaded, and leaves what it means    *)
(* to.                                                                     *)
(***************************************************************************)
LEMMA LoadAlone ==
    ASSUME \A s, t \in Slot : s = t, TypeOK, NEW s \in Slot, NEW op \in Operation,
           NEW u \in User, NEW new \in Account, Load(s, op, u, new)
    PROVE  Undisturbed'
BY DEF Load, TypeOK, Undisturbed, Stored

LEMMA CommitAlone ==
    ASSUME \A s, t \in Slot : s = t, TypeOK, Undisturbed, NEW s \in Slot, Commit(s)
    PROVE  LET r == reqs[s]
               u == reqs[s].target IN
           /\ u \in User /\ r.seen = Stored(u)
           /\ users'[u] = [role |-> r.new.role, active |-> r.new.active, life |-> r.new.life]
           /\ phone'[u] = r.new.phone
           /\ \A v \in User : v # u => users'[v] = users[v] /\ phone'[v] = phone[v]
           /\ \A t \in Slot : reqs'[t] = Idle
<1> DEFINE r == reqs[s]
           u == reqs[s].target
           row == Merge(Stored(u), r.seen, r.new)
<1>1. /\ u \in User /\ r.seen = Stored(u)
      /\ users' = [users EXCEPT ![u] = [role |-> row.role, active |-> row.active,
                                       life |-> row.life]]
      /\ phone' = [phone EXCEPT ![u] = row.phone]
      /\ reqs' = [reqs EXCEPT ![s] = Idle]
  BY DEF Commit, Undisturbed
<1>2. /\ row.role = r.new.role /\ row.active = r.new.active
      /\ row.life = r.new.life /\ row.phone = r.new.phone
  BY <1>1 DEF Merge, Column
<1>3. QED
  BY <1>1, <1>2 DEF TypeOK, UsersTypeOK

(***************************************************************************)
(* What each operation means to leave, as far as deletion and the phone    *)
(* number go.                                                              *)
(***************************************************************************)
LEMMA BeginningDeactivates ==
    ASSUME TypeOK, DeletedStaysInactive, "seed" \notin Endpoints, NEW s \in Slot,
           \/ Create(s) \/ Register(s) \/ SeedAdmin(s) \/ Update(s)
           \/ SetActive(s) \/ SetRole(s) \/ Delete(s)
    PROVE  \E op \in Operation, u \in User, new \in Account :
             Load(s, op, u, new) /\ (new.life = "deleted" => ~new.active)
<1>1. CASE Create(s) \/ Register(s)
  <2>1. PICK op \in Operation, u \in User, new \in Account :
          Load(s, op, u, new) /\ new.life = "present"
    BY <1>1, InsertCovered
  <2>2. QED
    BY <2>1
<1>2. CASE SetActive(s) \/ SetRole(s) \/ Delete(s)
  <2>1. PICK op \in Operation, u \in User, new \in Account :
          Load(s, op, u, new) /\ (new.life = "deleted" => ~new.active)
    BY <1>2, RemovalChecked
  <2>2. QED
    BY <2>1
<1>3. CASE SeedAdmin(s)
  BY <1>3 DEF SeedAdmin, Load
<1>4. CASE Update(s)
  <2>1. PICK u \in User, active \in BOOLEAN, p \in Phone \cup {None} :
          /\ users[u].life = "present"
          /\ \/ Load(s, "update", u, [Stored(u) EXCEPT !.active = active])
             \/ p \in Phone
                /\ Load(s, "update", u, [Stored(u) EXCEPT !.active = active, !.phone = p])
    BY <1>4 DEF Update, Member
  <2>2. Stored(u) \in Account /\ Stored(u).life = "present"
    BY <2>1 DEF TypeOK, UsersTypeOK, UserRow, Stored, Account, Role
  <2> DEFINE new1 == [Stored(u) EXCEPT !.active = active]
             new2 == [Stored(u) EXCEPT !.active = active, !.phone = p]
  <2>3. /\ new1 \in Account /\ new1.life = "present"
        /\ p \in Phone => new2 \in Account /\ new2.life = "present"
    BY <2>2 DEF Account
  <2>4. Load(s, "update", u, new1) \/ (p \in Phone /\ Load(s, "update", u, new2))
    BY <2>1
  <2> HIDE DEF new1, new2
  <2>5. QED
    BY <2>3, <2>4 DEF Operation
<1>5. QED
  BY <1>1, <1>2, <1>3, <1>4

LEMMA BeginningReserves ==
    ASSUME TypeOK, PhoneReserved, PhoneUnique, NEW s \in Slot,
           \/ Create(s) \/ Register(s) \/ SeedAdmin(s) \/ Update(s)
           \/ SetActive(s) \/ SetRole(s) \/ Delete(s)
    PROVE  \E op \in Operation, u \in User, new \in Account :
             /\ Load(s, op, u, new)
             /\ new.life # "absent"
             /\ new.phone # None => \A v \in User \ {u} : phone[v] # new.phone
<1> DEFINE Free(p, u) == p # None => \A v \in User \ {u} : phone[v] # p
           Goal == \E op \in Operation, u \in User, new \in Account :
                     Load(s, op, u, new) /\ new.life # "absent" /\ Free(new.phone, u)
<1> SUFFICES Goal
  OBVIOUS
<1>1. ASSUME NEW u \in User
      PROVE  /\ Stored(u) \in Account
             /\ Stored(u).life = users[u].life /\ Stored(u).phone = phone[u]
             /\ Free(phone[u], u)
  BY DEF TypeOK, UsersTypeOK, UserRow, Stored, Account, Role, PhoneUnique
<1>2. ASSUME NEW u \in User, NEW p \in Phone, PhoneFree(p, u) PROVE Free(p, u)
  BY <1>2 DEF PhoneFree, PhoneReserved
<1>3. CASE Create(s)
  <2>1. PICK u \in User, p \in Phone, active \in BOOLEAN :
          /\ PhoneFree(p, u)
          /\ Load(s, "create", u,
                  [role |-> "employee", active |-> active, life |-> "present", phone |-> p])
    BY <1>3 DEF Create
  <2> DEFINE new == [role |-> "employee", active |-> active, life |-> "present", phone |-> p]
  <2>2. new \in Account /\ new.life = "present" /\ new.phone = p /\ "create" \in Operation
    BY DEF Account, Role, Operation
  <2>3. Load(s, "create", u, new)
    BY <2>1
  <2> HIDE DEF new
  <2>4. QED
    BY <1>2, <2>1, <2>2, <2>3
<1>4. CASE Register(s)
  <2>1. PICK u \in User, p \in Phone \cup {None} :
          /\ p # None => PhoneFree(p, u)
          /\ Load(s, "register", u,
                  [role |-> "employee", active |-> TRUE, life |-> "present", phone |-> p])
    BY <1>4 DEF Register
  <2> DEFINE new == [role |-> "employee", active |-> TRUE, life |-> "present", phone |-> p]
  <2>2. new \in Account /\ new.life = "present" /\ new.phone = p /\ "register" \in Operation
    BY DEF Account, Role, Operation
  <2>3. Load(s, "register", u, new)
    BY <2>1
  <2>4. Free(p, u)
    BY <1>2, <2>1
  <2> HIDE DEF new
  <2>5. QED
    BY <2>2, <2>3, <2>4
<1>5. CASE SeedAdmin(s)
  <2> DEFINE life == IF Exists(Founder) THEN users[Founder].life ELSE "present"
             new == [Stored(Founder) EXCEPT !.role = "admin", !.active = TRUE, !.life = life]
  <2>1. Load(s, "seed", Founder, new) /\ Founder \in User
    BY <1>5, EmployeesAssumption DEF SeedAdmin
  <2>2. life \in {"present", "deleted"}
    BY <2>1 DEF TypeOK, UsersTypeOK, UserRow, Exists
  <2>3. new \in Account /\ new.life = life /\ new.phone = phone[Founder]
    BY <1>1, <2>1, <2>2 DEF Account, Role
  <2> HIDE DEF new
  <2>4. QED
    BY <1>1, <2>1, <2>2, <2>3 DEF Operation
<1>6. CASE Update(s)
  <2>1. PICK u \in User, active \in BOOLEAN, p \in Phone \cup {None} :
          /\ users[u].life = "present"
          /\ \/ Load(s, "update", u, [Stored(u) EXCEPT !.active = active])
             \/ /\ p \in Phone /\ PhoneFree(p, u)
                /\ Load(s, "update", u, [Stored(u) EXCEPT !.active = active, !.phone = p])
    BY <1>6 DEF Update, Member
  <2> DEFINE new1 == [Stored(u) EXCEPT !.active = active]
             new2 == [Stored(u) EXCEPT !.active = active, !.phone = p]
  <2>2. new1 \in Account /\ new1.life = "present" /\ new1.phone = phone[u]
    BY <1>1, <2>1 DEF Account
  <2>3. p \in Phone => new2 \in Account /\ new2.life = "present" /\ new2.phone = p
    BY <1>1, <2>1 DEF Account
  <2>4. \/ Load(s, "update", u, new1)
        \/ p \in Phone /\ PhoneFree(p, u) /\ Load(s, "update", u, new2)
    BY <2>1
  <2> HIDE DEF new1, new2
  <2>5. QED
    BY <1>1, <1>2, <2>2, <2>3, <2>4 DEF Operation
<1>7. CASE SetActive(s)
  <2>1. PICK u \in User :
          users[u].life = "present" /\ Load(s, "status", u, [Stored(u) EXCEPT !.active = ~users[u].active])
    BY <1>7 DEF SetActive, Member
  <2> DEFINE new == [Stored(u) EXCEPT !.active = ~users[u].active]
  <2>2. new \in Account /\ new.life # "absent" /\ new.phone = phone[u]
    BY <1>1, <2>1 DEF Account, TypeOK, UsersTypeOK, UserRow
  <2>3. Load(s, "status", u, new)
    BY <2>1
  <2> HIDE DEF new
  <2>4. QED
    BY <1>1, <2>2, <2>3 DEF Operation
<1>8. CASE SetRole(s)
  <2>1. PICK u \in User, role \in Role :
          users[u].life = "present" /\ Load(s, "role", u, [Stored(u) EXCEPT !.role = role])
    BY <1>8 DEF SetRole, Member
  <2> DEFINE new == [Stored(u) EXCEPT !.role = role]
  <2>2. new \in Account /\ new.life # "absent" /\ new.phone = phone[u]
    BY <1>1, <2>1 DEF Account
  <2>3. Load(s, "role", u, new)
    BY <2>1
  <2> HIDE DEF new
  <2>4. QED
    BY <1>1, <2>2, <2>3 DEF Operation
<1>9. CASE Delete(s)
  <2>1. PICK u \in User :
          users[u].life = "present" /\ Load(s, "delete", u, DeletedAccount(u))
    BY <1>9 DEF Delete, Member
  <2> DEFINE new == DeletedAccount(u)
  <2>2. new \in Account /\ new.life # "absent" /\ new.phone = phone[u]
    BY <1>1, <2>1 DEF DeletedAccount, Account
  <2>3. Load(s, "delete", u, new)
    BY <2>1
  <2> HIDE DEF new
  <2>4. QED
    BY <1>1, <2>2, <2>3 DEF Operation
<1>10. QED
  BY <1>3, <1>4, <1>5, <1>6, <1>7, <1>8, <1>9

(***************************************************************************)
(* One request at a time, and unless the seed command reactivates it, a    *)
(* deleted account stays inactive and cannot sign in, whatever a PUT says. *)
(***************************************************************************)
THEOREM SerialDeletions ==
    ASSUME \A s, t \in Slot : s = t, "seed" \notin Endpoints
    PROVE  Spec => []DeletedStaysInactive
<1> DEFINE IInv == Undisturbed /\ DeletionDeactivates /\ DeletedStaysInactive
<1>1. Init => IInv
  BY EmployeesAssumption
     DEF Init, Undisturbed, DeletionDeactivates, DeletedStaysInactive, Busy, Idle, NoAccount
<1>2. TypeOK /\ IInv /\ [Next]_vars => IInv'
  <2> SUFFICES ASSUME TypeOK, IInv, [Next]_vars PROVE IInv'
    OBVIOUS
  <2>1. ASSUME NEW s \in Slot,
               \/ Create(s) \/ Register(s) \/ SeedAdmin(s) \/ Update(s)
               \/ SetActive(s) \/ SetRole(s) \/ Delete(s)
        PROVE  IInv'
    <3>1. PICK op \in Operation, u \in User, new \in Account :
            Load(s, op, u, new) /\ (new.life = "deleted" => ~new.active)
      BY <2>1, BeginningDeactivates
    <3>2. DeletionDeactivates' /\ DeletedStaysInactive'
      BY <3>1 DEF Load, TypeOK, DeletionDeactivates, DeletedStaysInactive
    <3>3. QED
      BY <3>1, <3>2, LoadAlone
  <2>2. ASSUME NEW s \in Slot, Commit(s) PROVE IInv'
    <3> DEFINE r == reqs[s]
               u == reqs[s].target
    <3>1. /\ u \in User
          /\ users'[u] = [role |-> r.new.role, active |-> r.new.active, life |-> r.new.life]
          /\ \A v \in User : v # u => users'[v] = users[v]
          /\ \A t \in Slot : reqs'[t] = Idle
      BY <2>2, CommitAlone
    <3>2. r.new.life = "deleted" => ~r.new.active
      BY DEF DeletionDeactivates
    <3>3. Undisturbed' /\ DeletionDeactivates'
      BY <3>1 DEF Undisturbed, DeletionDeactivates, Busy, Idle, NoAccount
    <3>4. DeletedStaysInactive'
      BY <3>1, <3>2 DEF DeletedStaysInactive
    <3>5. QED
      BY <3>3, <3>4
  <2>3. ASSUME NEW s \in Slot, Abort(s) PROVE IInv'
    BY <2>3 DEF Abort, TypeOK, Undisturbed, DeletionDeactivates, DeletedStaysInactive,
                Busy, Idle, NoAccount
  <2>4. CASE WorkMoves \/ UNCHANGED vars
    BY <2>4 DEF WorkMoves, vars, Undisturbed, DeletionDeactivates, DeletedStaysInactive,
                Busy, Stored
  <2>5. QED
    BY <2>1, <2>2, <2>3, <2>4 DEF Next
<1>3. QED
  BY <1>1, <1>2, StaffTypeCorrect, PTL DEF Spec

-----------------------------------------------------------------------------
(* Phone numbers.                                                          *)

(***************************************************************************)
(* One request at a time, whatever operation is called, a phone number is  *)
(* never given to two accounts, if no two had the same one at first: the   *)
(* check looks at every account that is there, deleted ones included.      *)
(***************************************************************************)
THEOREM SerialPhones ==
    ASSUME \A s, t \in Slot : s = t,
           \A u, v \in User : u # v /\ InitialPhone[u] # None => InitialPhone[u] # InitialPhone[v]
    PROVE  Spec => []PhoneUnique
<1> DEFINE IInv == Undisturbed /\ PhoneReserved /\ PhoneUnique
<1>1. Init => IInv
  <2> SUFFICES ASSUME Init PROVE IInv
    OBVIOUS
  <2>1. Undisturbed /\ PhoneUnique
    BY DEF Init, Undisturbed, PhoneUnique, Busy, Idle
  <2>2. PhoneReserved
    BY EmployeesAssumption DEF Init, PhoneReserved, Exists, Busy, Idle
  <2>3. QED
    BY <2>1, <2>2
<1>2. TypeOK /\ IInv /\ [Next]_vars => IInv'
  <2> SUFFICES ASSUME TypeOK, IInv, [Next]_vars PROVE IInv'
    OBVIOUS
  <2>1. ASSUME NEW s \in Slot,
               \/ Create(s) \/ Register(s) \/ SeedAdmin(s) \/ Update(s)
               \/ SetActive(s) \/ SetRole(s) \/ Delete(s)
        PROVE  IInv'
    <3>1. PICK op \in Operation, u \in User, new \in Account :
            /\ Load(s, op, u, new)
            /\ new.life # "absent"
            /\ new.phone # None => \A v \in User \ {u} : phone[v] # new.phone
      BY <2>1, BeginningReserves
    <3>2. /\ users' = users /\ phone' = phone
          /\ reqs'[s] = [op |-> op, target |-> u, seen |-> Stored(u), new |-> new]
          /\ \A t \in Slot : t = s
      BY <3>1 DEF Load, TypeOK
    <3>3. PhoneReserved' /\ PhoneUnique'
      BY <3>1, <3>2 DEF PhoneReserved, PhoneUnique, Exists
    <3>4. QED
      BY <3>1, <3>3, LoadAlone
  <2>2. ASSUME NEW s \in Slot, Commit(s) PROVE IInv'
    <3> DEFINE r == reqs[s]
               u == reqs[s].target
    <3>1. /\ u \in User
          /\ users'[u] = [role |-> r.new.role, active |-> r.new.active, life |-> r.new.life]
          /\ phone'[u] = r.new.phone
          /\ \A v \in User : v # u => users'[v] = users[v] /\ phone'[v] = phone[v]
          /\ \A t \in Slot : reqs'[t] = Idle
      BY <2>2, CommitAlone
    <3>2. Busy(s)
      BY <2>2 DEF Commit
    <3>3. Undisturbed' /\ PhoneReserved'
      BY <3>1, <3>2 DEF Undisturbed, PhoneReserved, Exists, Busy, Idle
    <3>4. PhoneUnique'
      BY <3>1, <3>2 DEF PhoneUnique, PhoneReserved
    <3>5. QED
      BY <3>3, <3>4
  <2>3. ASSUME NEW s \in Slot, Abort(s) PROVE IInv'
    BY <2>3 DEF Abort, TypeOK, Undisturbed, PhoneReserved, PhoneUnique, Exists, Busy, Idle
  <2>4. CASE WorkMoves \/ UNCHANGED vars
    BY <2>4 DEF WorkMoves, vars, Undisturbed, PhoneReserved, PhoneUnique, Exists, Busy, Stored
  <2>5. QED
    BY <2>1, <2>2, <2>3, <2>4 DEF Next
<1>3. QED
  BY <1>1, <1>2, StaffTypeCorrect, PTL DEF Spec

=============================================================================
