-------------------------- MODULE WorkOrdersProofs --------------------------
(***************************************************************************)
(* Theorems about WorkOrders, for every set of users, orders and requests, *)
(* every choice of endpoints and every initial table of accounts.          *)
(***************************************************************************)
EXTENDS WorkOrders, TLAPS

(***************************************************************************)
(* A session that read a well-typed order and computed a well-typed row    *)
(* leaves a well-typed request: what every READ step has in common.        *)
(***************************************************************************)
LEMMA LoadTypeOK ==
    ASSUME TypeOK, NEW s \in Slot, NEW op \in Operation, NEW u \in User,
           NEW o \in Order, NEW new \in SessionRow, Load(s, op, u, o, new)
    PROVE  TypeOK'
<1>1. [op |-> op, by |-> u, order |-> o, seen |-> orders[o], new |-> new,
       elders |-> {t \in Slot : Busy(t)}, late |-> FALSE] \in Request
  BY DEF TypeOK, Request
<1>2. reqs' \in [Slot -> Request]
  BY <1>1 DEF Load, TypeOK
<1>3. QED
  BY <1>2 DEF Load, TypeOK, UsersTypeOK

(***************************************************************************)
(* Merging the columns of a well-typed session into a well-typed row gives *)
(* a well-typed row.                                                       *)
(***************************************************************************)
LEMMA MergeTypeOK ==
    ASSUME NEW row \in Row, NEW seen \in Row, NEW new \in SessionRow
    PROVE  Merge(row, seen, new) \in Row
BY DEF Merge, Column, Row, SessionRow

(***************************************************************************)
(* Ending a request keeps the other requests well typed.                   *)
(***************************************************************************)
LEMMA FinishTypeOK ==
    ASSUME TypeOK, NEW s \in Slot, NEW entered, Finish(s, entered)
    PROVE  reqs' \in [Slot -> Request]
<1>1. Idle \in Request
  BY DEF Idle, Request, Operation, Blank, Row, SessionRow, Status, Lifecycle!Stage, Category
<1>2. ASSUME NEW t \in Slot
      PROVE  [reqs[t] EXCEPT !.elders = @ \ {s},
                !.late = IF t \in reqs[s].elders /\ reqs[t].order = entered
                           THEN TRUE ELSE @] \in Request
  <2> DEFINE passed == t \in reqs[s].elders /\ reqs[t].order = entered
  <2>1. reqs[t] \in Request
    BY DEF TypeOK
  <2>2. reqs[t].elders \ {s} \in SUBSET Slot
    BY <2>1 DEF Request
  <2>3. CASE passed
    BY <2>1, <2>2, <2>3 DEF Request
  <2>4. CASE ~passed
    BY <2>1, <2>2, <2>4 DEF Request
  <2>5. QED
    BY <2>3, <2>4
<1>3. QED
  BY <1>1, <1>2 DEF Finish
-----------------------------------------------------------------------------
(* The READ steps.                                                         *)

(***************************************************************************)
(* What the checks of a handler establish about the row it wants to leave. *)
(***************************************************************************)
InTenant(row) ==
    /\ row.org \in Org
    /\ row.requester \in User /\ OrgOf[row.requester] = row.org
    /\ row.assignee # None => OrgOf[row.assignee] = row.org

Checked(op, o, new) ==
    /\ op \in {"create", "request"} =>
         /\ Fresh(o)
         /\ new.status \in {"awaiting_assignment", "assigned"}
    /\ op \notin {"create", "request"} => orders[o].status \in LiveStatus
    /\ op # "delete" =>
         /\ InTenant(new)
         /\ new.status = "completed" /\ orders[o].status # "completed" => new.completed = "now"
         /\ new.completed = "null" /\ orders[o].completed = "set" =>
              new.status \notin {"completed", orders[o].status}
    /\ op \notin {"create", "request", "delete"} =>
         /\ new.org = orders[o].org /\ new.requester = orders[o].requester
         /\ new.status \in LiveStatus
         /\ new.status = orders[o].status \/ <<orders[o].status, new.status>> \in Lifecycle!Edge

(***************************************************************************)
(* Every handler's READ step loads a request whose row passed the checks.  *)
(***************************************************************************)
LEMMA HandlerChecks ==
    ASSUME Inv, NEW s \in Slot, Handler(s)
    PROVE  \E op \in Operation \ {"idle"}, u \in User, o \in Order, new \in SessionRow :
             Load(s, op, u, o, new) /\ Checked(op, o, new)
<1> DEFINE Goal == \E op \in Operation \ {"idle"}, u \in User, o \in Order, new \in SessionRow :
                     Load(s, op, u, o, new) /\ Checked(op, o, new)
<1> SUFFICES Goal
  OBVIOUS
<1>0. /\ Blank \in SessionRow /\ Gone \in SessionRow
      /\ \A o \in Order : orders[o] \in Row /\ orders[o] \in SessionRow
      /\ \A org \in Org : \A a \in Resolvable(org) : a \in User /\ OrgOf[a] = org
      /\ \A o \in Order : orders[o].status \in LiveStatus => InTenant(orders[o])
  BY DEF Inv, TypeOK, Blank, Gone, Row, SessionRow, Status, LiveStatus, Lifecycle!Stage,
         Lifecycle!LiveStage, Category, Resolvable, Assignable, Staff, InTenant, TenantIsolation
<1>1. ASSUME NEW u \in User, NEW o \in Order, NEW c \in Category, NEW t \in Text \cup {None},
             NEW status \in {"awaiting_assignment", "assigned"},
             NEW a \in User \cup {None}, a # None => OrgOf[a] = OrgOf[u],
             Fresh(o), NEW op \in {"create", "request"}
      PROVE  /\ NewOrder(u, status, a, c, t) \in SessionRow
             /\ Checked(op, o, NewOrder(u, status, a, c, t))
  <2> DEFINE new == NewOrder(u, status, a, c, t)
  <2>1. OrgOf[u] \in Org /\ TextFor(c, t) \in Text \cup {None}
    BY DirectoryAssumption DEF TextFor
  <2>2. new \in SessionRow
    BY <2>1 DEF NewOrder, SessionRow, Status, Lifecycle!Stage, Lifecycle!LiveStage
  <2>3. InTenant(new) /\ new.status = status
    BY <1>1, <2>1 DEF NewOrder, InTenant
  <2>4. orders[o].status = "none"
    BY <1>1 DEF Fresh
  <2>5. Checked(op, o, new)
    BY <1>1, <2>3, <2>4 DEF Checked
  <2>6. QED
    BY <2>2, <2>5
<1>2. CASE Create(s)
  <2>1. PICK u \in User, o \in Order, c \in Category, t \in Text \cup {None} :
          /\ Fresh(o)
          /\ \/ Load(s, "create", u, o, NewOrder(u, "awaiting_assignment", None, c, t))
             \/ \E a \in Resolvable(OrgOf[u]) :
                  Load(s, "create", u, o, NewOrder(u, "assigned", a, c, t))
    BY <1>2 DEF Create
  <2>2. CASE Load(s, "create", u, o, NewOrder(u, "awaiting_assignment", None, c, t))
    <3>1. /\ NewOrder(u, "awaiting_assignment", None, c, t) \in SessionRow
          /\ Checked("create", o, NewOrder(u, "awaiting_assignment", None, c, t))
      BY <1>1, <2>1
    <3>2. QED
      BY <2>2, <3>1 DEF Operation
  <2>3. ASSUME NEW a \in Resolvable(OrgOf[u]),
               Load(s, "create", u, o, NewOrder(u, "assigned", a, c, t))
        PROVE  Goal
    <3>1. a \in User /\ OrgOf[a] = OrgOf[u]
      BY <1>0, DirectoryAssumption
    <3>2. /\ NewOrder(u, "assigned", a, c, t) \in SessionRow
          /\ Checked("create", o, NewOrder(u, "assigned", a, c, t))
      BY <1>1, <2>1, <3>1
    <3>3. QED
      BY <2>3, <3>2 DEF Operation
  <2>4. QED
    BY <2>1, <2>2, <2>3 DEF Operation
<1>3. CASE RequestWork(s)
  <2>1. PICK u \in User, o \in Order, c \in Category, t \in Text \cup {None} :
          /\ Fresh(o)
          /\ Load(s, "request", u, o, NewOrder(u, "awaiting_assignment", None, c, t))
    BY <1>3 DEF RequestWork
  <2>2. /\ NewOrder(u, "awaiting_assignment", None, c, t) \in SessionRow
        /\ Checked("request", o, NewOrder(u, "awaiting_assignment", None, c, t))
    BY <1>1, <2>1
  <2>3. QED
    BY <2>1, <2>2 DEF Operation
<1>4. CASE Progress(s)
  <2>0. PICK u \in User, o \in Order :
          /\ Found(u, o)
          /\ \E next \in ProgressNext(orders[o].status) :
               Load(s, "progress", u, o,
                    [orders[o] EXCEPT !.status = next, !.completed = Stamp(next)])
    BY <1>4 DEF Progress
  <2>1. PICK next \in ProgressNext(orders[o].status) :
          Load(s, "progress", u, o,
               [orders[o] EXCEPT !.status = next, !.completed = Stamp(next)])
    BY <2>0
  <2> DEFINE new == [orders[o] EXCEPT !.status = next, !.completed = Stamp(next)]
  <2>2. /\ <<orders[o].status, next>> \in Lifecycle!Edge
        /\ next \in {"in_progress", "completed"} /\ next # orders[o].status
    BY <2>1 DEF ProgressNext, Lifecycle!Edge
  <2>3. new \in SessionRow
    <3>1. Stamp(next) \in {"null", "now"}
      BY DEF Stamp
    <3>2. next \in Status
      BY <2>2 DEF Status, Lifecycle!Stage, Lifecycle!LiveStage
    <3>3. QED
      BY <1>0, <3>1, <3>2 DEF SessionRow
  <2>4. Checked("progress", o, new)
    BY <1>0, <2>0, <2>2
       DEF Checked, Found, Stamp, InTenant, LiveStatus, Lifecycle!LiveStage
  <2>5. QED
    BY <2>1, <2>3, <2>4 DEF Operation
<1>5. CASE Assign(s)
  <2>0. PICK u \in User, o \in Order :
          /\ Found(u, o)
          /\ orders[o].status \in {"awaiting_assignment", "assigned"}
          /\ \E a \in Resolvable(OrgOf[u]) :
               Load(s, "assign", u, o,
                    [orders[o] EXCEPT !.status = "assigned", !.assignee = a])
    BY <1>5 DEF Assign
  <2>1. PICK a \in Resolvable(OrgOf[u]) :
          Load(s, "assign", u, o,
               [orders[o] EXCEPT !.status = "assigned", !.assignee = a])
    BY <2>0
  <2> DEFINE new == [orders[o] EXCEPT !.status = "assigned", !.assignee = a]
  <2>2. a \in User /\ OrgOf[a] = orders[o].org
    BY <1>0, <2>0, DirectoryAssumption DEF Found
  <2>3. new \in SessionRow
    BY <1>0, <2>2 DEF SessionRow, Status, Lifecycle!Stage, Lifecycle!LiveStage
  <2>4. Checked("assign", o, new)
    BY <1>0, <2>0, <2>2
       DEF Checked, Found, InTenant, Row, LiveStatus, Lifecycle!Edge, Lifecycle!LiveStage
  <2>5. QED
    BY <2>1, <2>3, <2>4 DEF Operation
<1>6. CASE Close(s)
  <2>1. PICK u \in User, o \in Order :
          /\ orders[o].status = "completed"
          /\ Load(s, "close", u, o, [orders[o] EXCEPT !.status = "closed"])
    BY <1>6 DEF Close
  <2> DEFINE new == [orders[o] EXCEPT !.status = "closed"]
  <2>2. new \in SessionRow
    BY <1>0 DEF SessionRow, Status, Lifecycle!Stage, Lifecycle!LiveStage
  <2>3. Checked("close", o, new)
    BY <1>0, <2>1
       DEF Checked, InTenant, Row, LiveStatus, Lifecycle!Edge, Lifecycle!LiveStage
  <2>4. QED
    BY <2>1, <2>2, <2>3 DEF Operation
<1>7. CASE Cancel(s)
  <2>1. PICK u \in User, o \in Order :
          /\ orders[o].status \in Cancellable
          /\ Load(s, "cancel", u, o, [orders[o] EXCEPT !.status = "cancelled"])
    BY <1>7 DEF Cancel
  <2> DEFINE new == [orders[o] EXCEPT !.status = "cancelled"]
  <2>2. new \in SessionRow
    BY <1>0 DEF SessionRow, Status, Lifecycle!Stage, Lifecycle!LiveStage
  <2>3. Checked("cancel", o, new)
    BY <1>0, <2>1
       DEF Checked, Cancellable, InTenant, Row, LiveStatus, Lifecycle!Edge,
           Lifecycle!LiveStage
  <2>4. QED
    BY <2>1, <2>2, <2>3 DEF Operation
<1>8. CASE Update(s)
  <2>1. PICK u \in User, o \in Order, c \in Category, t \in Text \cup {None} :
          /\ Found(u, o)
          /\ \E a \in Resolvable(OrgOf[u]) \cup {None, orders[o].assignee} :
               Load(s, "update", u, o,
                    [orders[o] EXCEPT !.category = c, !.text = TextFor(c, t), !.assignee = a])
    BY <1>8 DEF Update
  <2>2. PICK a \in Resolvable(OrgOf[u]) \cup {None, orders[o].assignee} :
               Load(s, "update", u, o,
                    [orders[o] EXCEPT !.category = c, !.text = TextFor(c, t), !.assignee = a])
    BY <2>1
  <2> DEFINE new == [orders[o] EXCEPT !.category = c, !.text = TextFor(c, t), !.assignee = a]
  <2>3. a \in User \cup {None} /\ (a # None => OrgOf[a] = orders[o].org)
    BY <1>0, <2>1, DirectoryAssumption DEF Found, InTenant, Row
  <2>4. new \in SessionRow
    <3>1. TextFor(c, t) \in Text \cup {None}
      BY DEF TextFor
    <3>2. orders[o] \in SessionRow
      BY <1>0
    <3>3. QED
      BY <2>3, <3>1, <3>2 DEF SessionRow
  <2>5. Checked("update", o, new)
    <3>1. /\ new.org = orders[o].org /\ new.requester = orders[o].requester
          /\ new.status = orders[o].status /\ new.completed = orders[o].completed
          /\ new.assignee = a
      BY <1>0 DEF SessionRow
    <3>2. orders[o].status \in LiveStatus
      BY <2>1 DEF Found
    <3>3. InTenant(new)
      BY <1>0, <2>3, <3>1, <3>2 DEF InTenant
    <3>4. QED
      BY <3>1, <3>2, <3>3 DEF Checked
  <2>6. QED
    BY <2>2, <2>4, <2>5 DEF Operation
<1>9. CASE Delete(s)
  BY <1>0, <1>9 DEF Delete, Found, Checked, Operation
<1>10. QED
  BY <1>2, <1>3, <1>4, <1>5, <1>6, <1>7, <1>8, <1>9 DEF Handler

(***************************************************************************)
(* A READ step whose checks passed keeps the invariant.                    *)
(***************************************************************************)
LEMMA LoadKeepsInv ==
    ASSUME Inv, NEW s \in Slot, NEW op \in Operation \ {"idle"}, NEW u \in User,
           NEW o \in Order, NEW new \in SessionRow,
           Load(s, op, u, o, new), Checked(op, o, new)
    PROVE  Inv'
<1> DEFINE r == [op |-> op, by |-> u, order |-> o, seen |-> orders[o], new |-> new,
                 elders |-> {t \in Slot : Busy(t)}, late |-> FALSE]
<1>1. /\ reqs' = [reqs EXCEPT ![s] = r]
      /\ users' = users /\ orders' = orders /\ told' = told
      /\ ~Busy(s)
      /\ reqs \in [Slot -> Request]
  BY DEF Load, Inv, TypeOK
<1>2. reqs'[s] = r /\ \A t \in Slot \ {s} : reqs'[t] = reqs[t]
  BY <1>1
<1>3. TypeOK'
  BY LoadTypeOK DEF Inv
<1>4. orders[o] \in Row
  BY DEF Inv, TypeOK
<1>5. RequestsPlaced'
  <2>1. ASSUME NEW t \in Slot \ {s}, Busy(t), Inserts(reqs[t])
        PROVE  orders[reqs[t].order].status = "none" /\ reqs[t].order # o
    BY <2>1, <1>1 DEF Inv, RequestsPlaced, Checked, Fresh, LiveStatus, Lifecycle!LiveStage
  <2>2. Inserts(r) => \A t \in Slot \ {s} : reqs[t].order # o
    BY DEF Checked, Fresh, Inserts
  <2>3. Inserts(r) => orders[o].status = "none"
    BY DEF Checked, Fresh, Inserts
  <2>4. Inserts(r) => orders[o] = Blank
    BY <2>3 DEF Inv, NoRowBeforeInsert
  <2>5. QED
    BY <1>1, <1>2, <2>1, <2>2, <2>4
       DEF RequestsPlaced, Inv, Busy, Inserts, Checked, Blank
<1>6. RequestsLawful'
  <2>1. CASE op \in {"create", "request"}
    <3>1. /\ orders[o].status = "none"
          /\ new.status \in {"awaiting_assignment", "assigned"}
      BY <2>1 DEF Checked, Fresh
    <3>2. new.status \in LiveStatus /\ <<orders[o].status, new.status>> \in Lifecycle!Edge
      BY <3>1 DEF LiveStatus, Lifecycle!LiveStage, Lifecycle!Edge
    <3>3. QED
      BY <1>1, <1>2, <3>2 DEF RequestsLawful, Inv, Writes
  <2>2. CASE op \notin {"create", "request"}
    BY <1>1, <1>2, <2>2 DEF RequestsLawful, Inv, Writes, Checked
  <2>3. QED
    BY <2>1, <2>2
<1>7. RequestsStamped'
  BY <1>1, <1>2, <1>4 DEF RequestsStamped, Inv, Writes, Checked, Row
<1>8. RequestsInTenant'
  BY <1>1, <1>2 DEF RequestsInTenant, Inv, Writes, Checked, InTenant, Inserts
<1>9. CompletedStamped' /\ TenantIsolation' /\ NoRowBeforeInsert'
  BY <1>1 DEF Inv, CompletedStamped, TenantIsolation, NoRowBeforeInsert
<1>10. QED
  BY <1>3, <1>5, <1>6, <1>7, <1>8, <1>9 DEF Inv

-----------------------------------------------------------------------------
(* The other steps.                                                        *)

(***************************************************************************)
(* Ending a request keeps what every other request carries.  The order of  *)
(* a request that had to find its row may only have stayed or gone, and no *)
(* row has changed tenant.                                                 *)
(***************************************************************************)
LEMMA FinishKeepsRequests ==
    ASSUME Inv, NEW s \in Slot, Busy(s), NEW entered, Finish(s, entered),
           orders' \in [Order -> Row],
           \A o \in Order : o # reqs[s].order => orders'[o] = orders[o],
           LET o == reqs[s].order IN
             \/ orders'[o] = orders[o]
             \/ orders'[o].status = "deleted" /\ ~Inserts(reqs[s])
             \/ orders'[o].status \in LiveStatus /\ Inserts(reqs[s])
             \/ /\ orders'[o].status \in LiveStatus /\ orders[o].status \in LiveStatus
                /\ orders'[o].org = orders[o].org
    PROVE  RequestsPlaced' /\ RequestsLawful' /\ RequestsStamped' /\ RequestsInTenant'
<1>1. reqs'[s] = Idle
  BY DEF Finish
<1>2. ASSUME NEW t \in Slot, t # s
      PROVE  /\ reqs'[t].op = reqs[t].op /\ reqs'[t].by = reqs[t].by
             /\ reqs'[t].order = reqs[t].order
             /\ reqs'[t].seen = reqs[t].seen /\ reqs'[t].new = reqs[t].new
  <2>1. reqs[t] \in Request
    BY DEF Inv, TypeOK
  <2>2. reqs'[t] = [reqs[t] EXCEPT !.elders = @ \ {s},
                      !.late = IF t \in reqs[s].elders /\ reqs[t].order = entered
                                 THEN TRUE ELSE @]
    BY <1>2 DEF Finish
  <2>3. QED
    BY <2>1, <2>2 DEF Request
<1>3. ASSUME NEW t \in Slot, t # s, Busy(t)
      PROVE  LET o == reqs[t].order IN
             /\ Inserts(reqs[t]) => orders'[o] = orders[o]
             /\ ~Inserts(reqs[t]) =>
                  /\ orders'[o].status \in LiveStatus \cup {"deleted"}
                  /\ orders'[o].status \in LiveStatus =>
                       orders[o].status \in LiveStatus /\ orders'[o].org = orders[o].org
  <2>1. CASE reqs[t].order # reqs[s].order
    BY <1>3, <2>1 DEF Inv, RequestsPlaced
  <2>2. CASE reqs[t].order = reqs[s].order
    <3>1. ~Inserts(reqs[s]) /\ ~Inserts(reqs[t])
      BY <1>3, <2>2 DEF Inv, RequestsPlaced
    <3>2. orders[reqs[t].order].status \in LiveStatus \cup {"deleted"}
      BY <1>3, <3>1 DEF Inv, RequestsPlaced
    <3>3. QED
      BY <2>2, <3>1, <3>2 DEF LiveStatus, Lifecycle!LiveStage
  <2>3. QED
    BY <2>1, <2>2
<1>4. RequestsPlaced'
  <2>1. ASSUME NEW t \in Slot, t # s, Busy(t)
        PROVE  LET r == reqs[t] IN
               /\ r.by \in User /\ r.order \in Order
               /\ Inserts(r) => /\ orders'[r.order].status = "none"
                               /\ r.seen = Blank
                               /\ \A v \in Slot \ {t} : reqs'[v].order # r.order
               /\ ~Inserts(r) => /\ orders'[r.order].status \in LiveStatus \cup {"deleted"}
                                /\ r.seen.status \in LiveStatus
    <3>1. \A v \in Slot \ {s} : reqs'[v].order = reqs[v].order
      BY <1>2
    <3>2. reqs'[s].order = None
      BY <1>1 DEF Idle
    <3>3. QED
      BY <1>3, <2>1, <3>1, <3>2, WorkOrdersAssumption DEF RequestsPlaced, Inv
  <2>2. QED
    BY <1>1, <1>2, <2>1 DEF RequestsPlaced, Busy, Inserts, Idle
<1>5. RequestsLawful'
  BY <1>1, <1>2 DEF RequestsLawful, Inv, Writes, Idle
<1>6. RequestsStamped'
  BY <1>1, <1>2 DEF RequestsStamped, Inv, Writes, Idle
<1>7. RequestsInTenant'
  <2>1. ASSUME NEW t \in Slot, t # s, Writes(reqs[t])
        PROVE  LET r == reqs[t] IN
               /\ r.new.org \in Org
               /\ r.new.requester \in User /\ OrgOf[r.new.requester] = r.new.org
               /\ r.new.assignee # None => OrgOf[r.new.assignee] = r.new.org
               /\ ~Inserts(r) =>
                    /\ r.new.org = r.seen.org /\ r.new.requester = r.seen.requester
                    /\ orders'[r.order].status \in LiveStatus =>
                         orders'[r.order].org = r.new.org
    <3>1. Busy(t)
      BY <2>1 DEF Writes, Busy
    <3>2. QED
      BY <1>3, <2>1, <3>1 DEF RequestsInTenant, Inv
  <2>2. ~Writes(reqs'[s])
    BY <1>1 DEF Writes, Idle
  <2>3. \A t \in Slot : t # s =>
          (Writes(reqs'[t]) <=> Writes(reqs[t])) /\ (Inserts(reqs'[t]) <=> Inserts(reqs[t]))
    BY <1>2 DEF Writes, Inserts
  <2>4. QED
    BY <1>2, <2>1, <2>2, <2>3 DEF RequestsInTenant
<1>8. QED
  BY <1>4, <1>5, <1>6, <1>7

(***************************************************************************)
(* What a COMMIT leaves of its order: a live row of the same tenant, whose *)
(* completion time is there if its status says so.                         *)
(***************************************************************************)
LEMMA CommitRow ==
    ASSUME Inv, NEW s \in Slot, Commit(s)
    PROVE  LET r == reqs[s]
               o == reqs[s].order IN
           /\ o \in Order
           /\ orders' = [orders EXCEPT ![o] = Merge(orders[o], r.seen, r.new)]
           /\ orders' \in [Order -> Row]
           /\ orders'[o].status \in LiveStatus
           /\ InTenant(orders'[o])
           /\ orders'[o].status = "completed" => orders'[o].completed = "set"
           /\ ~Inserts(r) => /\ orders[o].status \in LiveStatus
                             /\ orders'[o].org = orders[o].org
           /\ orders'[o].org = r.new.org
           /\ orders[o].status = r.seen.status => orders'[o].status = r.new.status
<1> DEFINE r == reqs[s]
           o == reqs[s].order
           row == Merge(orders[o], r.seen, r.new)
<1>1. /\ Busy(s) /\ Writes(r) /\ o \in Order
      /\ orders[o].status # "deleted"
      /\ orders' = [orders EXCEPT ![o] = row]
  BY DEF Commit, Inv, RequestsPlaced, Busy, Writes
<1>2. orders \in [Order -> Row] /\ r \in Request
  BY DEF Inv, TypeOK
<1>3. orders[o] \in Row /\ r.seen \in Row /\ r.new \in SessionRow
  BY <1>1, <1>2 DEF Request
<1>4. row \in Row
  BY <1>3, MergeTypeOK
<1>5. orders' \in [Order -> Row] /\ orders'[o] = row
  BY <1>1, <1>2, <1>4
<1>6. /\ row.status = Column(orders[o].status, r.seen.status, r.new.status)
      /\ row.org = Column(orders[o].org, r.seen.org, r.new.org)
      /\ row.requester = Column(orders[o].requester, r.seen.requester, r.new.requester)
      /\ row.assignee = Column(orders[o].assignee, r.seen.assignee, r.new.assignee)
      /\ row.completed = IF r.new.completed = "now" THEN "set"
                         ELSE Column(orders[o].completed, r.seen.completed, r.new.completed)
  BY DEF Merge
<1>7. /\ r.new.status \in LiveStatus
      /\ InTenant(r.new)
      /\ r.new.status = "completed" /\ r.seen.status # "completed" => r.new.completed = "now"
      /\ r.new.completed = "null" /\ r.seen.completed = "set" =>
           r.new.status \notin {"completed", r.seen.status}
  BY <1>1 DEF Inv, RequestsLawful, RequestsInTenant, RequestsStamped, InTenant
<1>8. CASE Inserts(r)
  <2>1. orders[o] = Blank /\ r.seen = Blank
    BY <1>1, <1>8 DEF Inv, RequestsPlaced, NoRowBeforeInsert
  <2>2. /\ row.status = r.new.status /\ row.org = r.new.org
        /\ row.requester = r.new.requester /\ row.assignee = r.new.assignee
    BY <1>6, <2>1 DEF Column
  <2>3. row.status = "completed" => row.completed = "set"
    BY <1>6, <1>7, <2>1, <2>2 DEF Column, Blank
  <2>4. QED
    BY <1>1, <1>5, <1>7, <1>8, <2>2, <2>3 DEF InTenant
<1>9. CASE ~Inserts(r)
  <2>1. orders[o].status \in LiveStatus
    BY <1>1, <1>9 DEF Inv, RequestsPlaced
  <2>2. /\ r.new.org = r.seen.org /\ r.new.requester = r.seen.requester
        /\ orders[o].org = r.new.org
    BY <1>1, <1>9, <2>1 DEF Inv, RequestsInTenant
  <2>3. row.status \in LiveStatus
    BY <1>6, <1>7, <2>1 DEF Column
  <2>4. row.org = orders[o].org /\ row.requester = orders[o].requester
    BY <1>6, <2>2 DEF Column
  <2>5. InTenant(orders[o])
    BY <1>1, <2>1 DEF Inv, TenantIsolation, InTenant
  <2>6. InTenant(row)
    BY <1>6, <1>7, <2>2, <2>4, <2>5 DEF InTenant, Column
  <2>7. row.status = "completed" => row.completed = "set"
    <3>1. orders[o].status = "completed" => orders[o].completed = "set"
      BY <1>1 DEF Inv, CompletedStamped
    <3>2. /\ orders[o].completed \in {"null", "set"} /\ r.seen.completed \in {"null", "set"}
          /\ r.new.completed \in {"null", "set", "now"}
      BY <1>3 DEF Row, SessionRow
    <3>3. QED
      BY <1>6, <1>7, <3>1, <3>2 DEF Column
  <2>8. orders[o].status = r.seen.status => row.status = r.new.status
    BY <1>6 DEF Column
  <2>9. QED
    BY <1>1, <1>5, <1>9, <2>1, <2>2, <2>3, <2>4, <2>6, <2>7, <2>8
<1>10. QED
  BY <1>8, <1>9

(***************************************************************************)
(* Whom a handler notifies: users of the organization of the order.        *)
(***************************************************************************)
LEMMA NoticesInTenant ==
    ASSUME Inv, NEW s \in Slot, Busy(s), reqs[s].op # "delete"
    PROVE  \A n \in Notices(reqs[s]) :
             /\ n \in Notice
             /\ n.order = reqs[s].order
             /\ OrgOf[n.user] = reqs[s].new.org
<1> DEFINE r == reqs[s]
<1>1. InTenant(r.new) /\ r.order \in Order
  BY DEF Inv, RequestsInTenant, RequestsPlaced, Writes, Busy, InTenant
<1>2. r.new.assignee \in User \cup {None}
  BY DEF Inv, TypeOK, Request, SessionRow
<1>3. \A u \in ActiveAdmins(r.new.org) : u \in User /\ OrgOf[u] = r.new.org
  BY DEF ActiveAdmins, Staff
<1>4. ASSUME NEW to, NEW type \in {"requested", "assigned", "completed", "closed"},
             \A u \in to : u # None => u \in User /\ OrgOf[u] = r.new.org
      PROVE  \A n \in NoticeTo(to, type, r.order) :
               n \in Notice /\ n.order = r.order /\ OrgOf[n.user] = r.new.org
  BY <1>1, <1>4 DEF NoticeTo, Notice
<1>5. QED
  BY <1>1, <1>2, <1>3, <1>4 DEF Notices, InTenant

LEMMA CommitKeepsInv ==
    ASSUME Inv, NEW s \in Slot, Commit(s)
    PROVE  Inv'
<1> DEFINE r == reqs[s]
           o == reqs[s].order
<1>1. /\ Busy(s) /\ r.op # "delete"
      /\ users' = users
      /\ told' = told \cup Notices(r)
      /\ Finish(s, IF AddsEntry(r) THEN o ELSE None)
      /\ timeline' = IF AddsEntry(r) /\ ~r.late
                       THEN [timeline EXCEPT ![o] = EntryOf(r)] ELSE timeline
  BY DEF Commit
<1>2. /\ o \in Order /\ orders' \in [Order -> Row]
      /\ \A p \in Order : p # o => orders'[p] = orders[p]
      /\ orders'[o].status \in LiveStatus
      /\ InTenant(orders'[o])
      /\ orders'[o].status = "completed" => orders'[o].completed = "set"
      /\ ~Inserts(r) => /\ orders[o].status \in LiveStatus /\ orders'[o].org = orders[o].org
      /\ orders'[o].org = r.new.org
  BY CommitRow DEF Inv, TypeOK
<1>3. RequestsPlaced' /\ RequestsLawful' /\ RequestsStamped' /\ RequestsInTenant'
  BY <1>1, <1>2, FinishKeepsRequests
<1>4. reqs' \in [Slot -> Request]
  BY <1>1, FinishTypeOK DEF Inv
<1>5. EntryOf(r) \in Entry
  <2>1. r \in Request
    BY DEF Inv, TypeOK
  <2>2. r.seen.status \in Status
    BY <2>1 DEF Request, Row
  <2>3. r.new.status \in Status
    BY <2>1 DEF Request, SessionRow
  <2>4. EventType(r.op) \in
          {"none", "created", "status_changed", "assigned", "closed", "cancelled"}
    BY <2>1 DEF EventType
  <2>5. QED
    BY <2>2, <2>3, <2>4 DEF EntryOf, Entry
<1>6. timeline' \in [Order -> Entry]
  BY <1>1, <1>5 DEF Inv, TypeOK
<1>7. told' \subseteq Notice
  BY <1>1, NoticesInTenant DEF Inv, TypeOK
<1>8. TypeOK'
  BY <1>1, <1>2, <1>4, <1>6, <1>7 DEF Inv, TypeOK, UsersTypeOK
<1>9. CompletedStamped'
  BY <1>2 DEF Inv, CompletedStamped
<1>10. TenantIsolation'
  <2>1. ASSUME NEW p \in Order, orders'[p].status \in LiveStatus
        PROVE  InTenant(orders'[p])
    BY <1>2, <2>1 DEF Inv, TenantIsolation, InTenant
  <2>2. ASSUME NEW n \in told, n.order # None
        PROVE  orders'[n.order].status \in LiveStatus /\ OrgOf[n.user] = orders'[n.order].org
    <3>1. /\ n.order \in Order
          /\ orders[n.order].status \in LiveStatus /\ OrgOf[n.user] = orders[n.order].org
      BY <2>2 DEF Inv, TypeOK, Notice, TenantIsolation
    <3>2. Inserts(r) => orders[o].status = "none"
      BY <1>1 DEF Inv, RequestsPlaced
    <3>3. QED
      BY <1>2, <3>1, <3>2 DEF LiveStatus, Lifecycle!LiveStage
  <2>3. ASSUME NEW n \in Notices(r)
        PROVE  orders'[n.order].status \in LiveStatus /\ OrgOf[n.user] = orders'[n.order].org
    BY <1>1, <1>2, <2>3, NoticesInTenant
  <2>4. QED
    BY <1>1, <2>1, <2>2, <2>3 DEF TenantIsolation, InTenant
<1>11. NoRowBeforeInsert'
  BY <1>2 DEF Inv, NoRowBeforeInsert, LiveStatus, Lifecycle!LiveStage
<1>12. QED
  BY <1>3, <1>8, <1>9, <1>10, <1>11 DEF Inv

LEMMA CommitDeleteKeepsInv ==
    ASSUME Inv, NEW s \in Slot, CommitDelete(s)
    PROVE  Inv'
<1> DEFINE r == reqs[s]
           o == reqs[s].order
<1>1. /\ Busy(s) /\ r.op = "delete" /\ ~Inserts(r) /\ o \in Order
      /\ users' = users
      /\ orders' = [orders EXCEPT ![o] = Gone]
      /\ timeline' = [timeline EXCEPT ![o] = NoEntry]
      /\ told' = Unlink(o)
      /\ Finish(s, None)
  BY DEF CommitDelete, Inv, RequestsPlaced, Inserts
<1>2. /\ Gone \in Row /\ Gone.status = "deleted"
      /\ NoEntry \in Entry
      /\ orders \in [Order -> Row]
  BY DEF Gone, Blank, Row, Status, Lifecycle!Stage, Category, NoEntry, Entry, Inv, TypeOK
<1>3. /\ orders' \in [Order -> Row]
      /\ \A p \in Order : p # o => orders'[p] = orders[p]
      /\ orders'[o].status = "deleted"
  BY <1>1, <1>2
<1>4. RequestsPlaced' /\ RequestsLawful' /\ RequestsStamped' /\ RequestsInTenant'
  BY <1>1, <1>3, FinishKeepsRequests
<1>5. \A n \in told' : n \in Notice
  BY <1>1 DEF Unlink, Notice, Inv, TypeOK
<1>6. TypeOK'
  BY <1>1, <1>2, <1>3, <1>5, FinishTypeOK DEF Inv, TypeOK, UsersTypeOK
<1>7. CompletedStamped' /\ NoRowBeforeInsert'
  BY <1>3 DEF Inv, CompletedStamped, NoRowBeforeInsert
<1>8. TenantIsolation'
  <2>1. "deleted" \notin LiveStatus
    BY DEF LiveStatus, Lifecycle!LiveStage
  <2>2. ASSUME NEW n \in told', n.order # None
        PROVE  n \in told /\ n.order # o
    BY <1>1, <2>2 DEF Unlink, Notice, Inv, TypeOK
  <2>3. ASSUME NEW n \in told', n.order # None
        PROVE  orders'[n.order].status \in LiveStatus /\ OrgOf[n.user] = orders'[n.order].org
    BY <1>3, <2>2, <2>3 DEF Inv, TypeOK, Notice, TenantIsolation
  <2>4. QED
    BY <1>3, <2>1, <2>3 DEF Inv, TenantIsolation
<1>9. QED
  BY <1>4, <1>6, <1>7, <1>8 DEF Inv

LEMMA AbortKeepsInv ==
    ASSUME Inv, NEW s \in Slot, Abort(s)
    PROVE  Inv'
<1>1. /\ Busy(s) /\ Finish(s, None)
      /\ users' = users /\ orders' = orders /\ timeline' = timeline /\ told' = told
  BY DEF Abort
<1>2. RequestsPlaced' /\ RequestsLawful' /\ RequestsStamped' /\ RequestsInTenant'
  BY <1>1, FinishKeepsRequests DEF Inv, TypeOK, RequestsPlaced
<1>3. TypeOK'
  BY <1>1, FinishTypeOK DEF Inv, TypeOK, UsersTypeOK
<1>4. QED
  BY <1>1, <1>2, <1>3
     DEF Inv, CompletedStamped, TenantIsolation, NoRowBeforeInsert

LEMMA StaffChangeKeepsInv ==
    ASSUME Inv, NEW u \in User, StaffChange(u)
    PROVE  Inv'
<1>1. /\ orders' = orders /\ timeline' = timeline /\ told' = told /\ reqs' = reqs
      /\ users' \in [User -> UserRow]
  BY DEF StaffChange, Inv, TypeOK, UsersTypeOK
<1>2. QED
  BY <1>1
     DEF Inv, TypeOK, UsersTypeOK, CompletedStamped, TenantIsolation, NoRowBeforeInsert,
         RequestsPlaced, RequestsLawful, RequestsStamped, RequestsInTenant, Busy

-----------------------------------------------------------------------------
(* The theorems.                                                           *)

LEMMA InitInv == Init => Inv
<1> SUFFICES ASSUME Init PROVE Inv
  OBVIOUS
<1>1. Blank \in Row /\ NoEntry \in Entry /\ Idle \in Request
  BY DEF Blank, Row, SessionRow, Status, Lifecycle!Stage, Category, NoEntry, Entry, Idle,
         Request, Operation
<1>2. TypeOK
  BY <1>1, DirectoryAssumption DEF Init, TypeOK, UsersTypeOK
<1>3. /\ \A o \in Order : orders[o] = Blank
      /\ \A s \in Slot : reqs[s] = Idle
      /\ told = {}
  BY DEF Init
<1>4. RequestsPlaced /\ RequestsLawful /\ RequestsStamped /\ RequestsInTenant
  BY <1>3 DEF RequestsPlaced, RequestsLawful, RequestsStamped, RequestsInTenant, Idle,
              Busy, Writes
<1>5. CompletedStamped /\ TenantIsolation /\ NoRowBeforeInsert
  BY <1>3 DEF CompletedStamped, TenantIsolation, NoRowBeforeInsert, Blank, LiveStatus,
              Lifecycle!LiveStage
<1>6. QED
  BY <1>2, <1>4, <1>5 DEF Inv

LEMMA NextInv == Inv /\ [Next]_vars => Inv'
<1> SUFFICES ASSUME Inv, [Next]_vars PROVE Inv'
  OBVIOUS
<1>1. ASSUME NEW s \in Slot, Handler(s) PROVE Inv'
  BY <1>1, HandlerChecks, LoadKeepsInv
<1>2. ASSUME NEW s \in Slot, Commit(s) PROVE Inv'
  BY <1>2, CommitKeepsInv
<1>3. ASSUME NEW s \in Slot, CommitDelete(s) PROVE Inv'
  BY <1>3, CommitDeleteKeepsInv
<1>4. ASSUME NEW s \in Slot, Abort(s) PROVE Inv'
  BY <1>4, AbortKeepsInv
<1>5. ASSUME NEW u \in Movable, StaffChange(u) PROVE Inv'
  BY <1>5, StaffChangeKeepsInv, WorkOrdersAssumption
<1>6. CASE UNCHANGED vars
  BY <1>6 DEF vars, Inv, TypeOK, UsersTypeOK, CompletedStamped, TenantIsolation,
              NoRowBeforeInsert, RequestsPlaced, RequestsLawful, RequestsStamped,
              RequestsInTenant, Busy
<1>7. QED
  BY <1>1, <1>2, <1>3, <1>4, <1>5, <1>6 DEF Next

(***************************************************************************)
(* The invariant holds of every execution.                                 *)
(***************************************************************************)
THEOREM Invariance == Spec => []Inv
<1>1. QED
  BY InitInv, NextInv, PTL DEF Spec

(***************************************************************************)
(* Type correctness: no interleaving leaves a row, an entry or a           *)
(* notification outside its columns' types.                                *)
(***************************************************************************)
THEOREM TypeCorrect == Spec => []TypeOK
<1>1. Inv => TypeOK
  BY DEF Inv
<1>2. QED
  BY <1>1, Invariance, PTL

(***************************************************************************)
(* A completed order always carries its completion time, whatever stale    *)
(* sessions write meanwhile.                                               *)
(***************************************************************************)
THEOREM CompletedIsStamped == Spec => []CompletedStamped
<1>1. Inv => CompletedStamped
  BY DEF Inv
<1>2. QED
  BY <1>1, Invariance, PTL

(***************************************************************************)
(* Orders, assignees, requesters and notifications never mix tenants.      *)
(***************************************************************************)
THEOREM TenantsAreIsolated == Spec => []TenantIsolation
<1>1. Inv => TenantIsolation
  BY DEF Inv
<1>2. QED
  BY <1>1, Invariance, PTL

-----------------------------------------------------------------------------
(* The lifecycle.                                                          *)

(***************************************************************************)
(* The one step that can end a request and move its order at once.         *)
(***************************************************************************)
LEMMA EndOfRequest ==
    ASSUME Inv, NEW s \in Slot, Busy(s), ~Busy(s)', [Next]_vars
    PROVE  Commit(s) \/ CommitDelete(s) \/ orders' = orders
<1>1. ASSUME NEW t \in Slot, Handler(t) PROVE FALSE
  <2>1. PICK op \in Operation \ {"idle"}, u \in User, o \in Order, new \in SessionRow :
          Load(t, op, u, o, new)
    BY <1>1, HandlerChecks
  <2>2. t # s /\ reqs'[s] = reqs[s]
    BY <2>1 DEF Load, Inv, TypeOK, Busy
  <2>3. QED
    BY <2>2 DEF Busy
<1>2. ASSUME NEW t \in Slot, t # s, NEW entered, Finish(t, entered) PROVE FALSE
  <2>1. reqs[s] \in Request
    BY DEF Inv, TypeOK
  <2>2. reqs'[s].op = reqs[s].op
    BY <1>2, <2>1 DEF Finish, Request
  <2>3. QED
    BY <2>2 DEF Busy
<1>3. ASSUME NEW t \in Slot, Commit(t) PROVE t = s
  BY <1>2, <1>3 DEF Commit
<1>4. ASSUME NEW t \in Slot, CommitDelete(t) PROVE t = s
  BY <1>2, <1>4 DEF CommitDelete
<1>5. QED
  BY <1>1, <1>3, <1>4 DEF Next, Abort, StaffChange, vars

(***************************************************************************)
(* A commit whose order still has the status it read is a step of the      *)
(* lifecycle, in every interleaving: the checks of the handlers are        *)
(* complete, and only a stale read can take an order out of its flow.      *)
(***************************************************************************)
THEOREM FreshCommits == Spec => FreshCommitFollowsLifecycle
<1> DEFINE Body == \A s \in Slot :
              LET o == reqs[s].order IN
              Busy(s) /\ ~Busy(s)' /\ orders[o].status = reqs[s].seen.status
                  => \/ orders'[o].status = orders[o].status
                     \/ <<orders[o].status, orders'[o].status>> \in Lifecycle!Edge
<1>1. Inv /\ [Next]_vars => [Body]_vars
  <2> SUFFICES ASSUME Inv, [Next]_vars, NEW s \in Slot, Busy(s), ~Busy(s)',
                      orders[reqs[s].order].status = reqs[s].seen.status
               PROVE  LET o == reqs[s].order IN
                      \/ orders'[o].status = orders[o].status
                      \/ <<orders[o].status, orders'[o].status>> \in Lifecycle!Edge
    OBVIOUS
  <2>1. CASE Commit(s)
    <3>1. orders'[reqs[s].order].status = reqs[s].new.status
      BY <2>1, CommitRow
    <3>2. QED
      BY <2>1, <3>1 DEF Inv, RequestsLawful, Writes, Commit, Busy
  <2>2. CASE CommitDelete(s)
    <3>1. /\ reqs[s].order \in Order
          /\ reqs[s].seen.status \in LiveStatus
          /\ orders'[reqs[s].order].status = "deleted"
      BY <2>2 DEF CommitDelete, Inv, TypeOK, RequestsPlaced, Inserts, Gone
    <3>2. QED
      BY <3>1 DEF Lifecycle!Edge, LiveStatus
  <2>3. CASE orders' = orders
    BY <2>3
  <2>4. QED
    BY <2>1, <2>2, <2>3, EndOfRequest
<1>2. QED
  BY <1>1, Invariance, PTL DEF Spec, FreshCommitFollowsLifecycle

(***************************************************************************)
(* A request alone in flight finds its order as it read it.                *)
(***************************************************************************)
LEMMA InitUndisturbed == Init => Undisturbed
BY DEF Init, Undisturbed, Busy, Idle

LEMMA AloneUndisturbed ==
    ASSUME \A s, t \in Slot : s = t, Inv, Undisturbed, [Next]_vars
    PROVE  Undisturbed'
<1>1. ASSUME NEW s \in Slot, Handler(s) PROVE Undisturbed'
  <2>1. PICK op \in Operation \ {"idle"}, u \in User, o \in Order, new \in SessionRow :
          Load(s, op, u, o, new)
    BY <1>1, HandlerChecks
  <2>2. reqs'[s].seen = orders'[reqs'[s].order] /\ ~reqs'[s].late
    BY <2>1 DEF Load, Inv, TypeOK
  <2>3. QED
    BY <2>2 DEF Undisturbed
<1>2. ASSUME NEW s \in Slot, NEW entered, Finish(s, entered) PROVE Undisturbed'
  BY <1>2 DEF Finish, Undisturbed, Busy, Idle
<1>3. CASE UNCHANGED <<orders, reqs>>
  BY <1>3 DEF Undisturbed, Busy
<1>4. QED
  BY <1>1, <1>2, <1>3 DEF Next, Commit, CommitDelete, Abort, StaffChange, vars

(***************************************************************************)
(* Requests served one at a time implement the lifecycle.                  *)
(***************************************************************************)
THEOREM SerialLifecycle ==
    ASSUME \A s, t \in Slot : s = t
    PROVE  Spec => LifecycleSpec
<1> DEFINE stage == [o \in Order |-> orders[o].status]
<1>1. Init => Lifecycle!Init /\ Undisturbed
  BY InitUndisturbed DEF Init, Lifecycle!Init, Blank
<1>2. Inv /\ Undisturbed /\ [Next]_vars => Undisturbed'
  BY AloneUndisturbed
<1>3. Inv /\ Undisturbed /\ [Next]_vars => [Lifecycle!Next]_stage
  <2> SUFFICES ASSUME Inv, Undisturbed, [Next]_vars PROVE [Lifecycle!Next]_stage
    OBVIOUS
  <2>1. ASSUME NEW o \in Order, orders' \in [Order -> Row],
               \A p \in Order : p # o => orders'[p] = orders[p],
               \/ orders'[o].status = orders[o].status
               \/ <<orders[o].status, orders'[o].status>> \in Lifecycle!Edge
        PROVE  [Lifecycle!Next]_stage
    <3>1. CASE orders'[o].status = orders[o].status
      BY <2>1, <3>1
    <3>2. CASE <<orders[o].status, orders'[o].status>> \in Lifecycle!Edge
      <4>1. orders'[o].status \in Lifecycle!Stage
        BY <2>1 DEF Row, Status
      <4>2. stage' = [stage EXCEPT ![o] = orders'[o].status]
        BY <2>1
      <4>3. QED
        BY <3>2, <4>1, <4>2 DEF Lifecycle!Next, Lifecycle!Advance
    <3>3. QED
      BY <2>1, <3>1, <3>2
  <2>2. ASSUME NEW s \in Slot, Commit(s) PROVE [Lifecycle!Next]_stage
    <3>1. orders[reqs[s].order].status = reqs[s].seen.status
      BY <2>2 DEF Undisturbed, Commit
    <3>2. /\ reqs[s].order \in Order /\ orders' \in [Order -> Row]
          /\ \A p \in Order : p # reqs[s].order => orders'[p] = orders[p]
          /\ orders'[reqs[s].order].status = reqs[s].new.status
      BY <2>2, <3>1, CommitRow DEF Inv, TypeOK
    <3>3. \/ reqs[s].new.status = reqs[s].seen.status
          \/ <<reqs[s].seen.status, reqs[s].new.status>> \in Lifecycle!Edge
      BY <2>2 DEF Inv, RequestsLawful, Writes, Commit, Busy
    <3>4. QED
      BY <2>1, <3>1, <3>2, <3>3
  <2>3. ASSUME NEW s \in Slot, CommitDelete(s) PROVE [Lifecycle!Next]_stage
    <3>1. /\ reqs[s].order \in Order
          /\ orders[reqs[s].order].status \in LiveStatus
      BY <2>3 DEF CommitDelete, Inv, RequestsPlaced, Inserts, Undisturbed
    <3>2. /\ orders' \in [Order -> Row]
          /\ \A p \in Order : p # reqs[s].order => orders'[p] = orders[p]
          /\ orders'[reqs[s].order].status = "deleted"
      <4>1. Inv'
        BY <2>3, CommitDeleteKeepsInv
      <4>2. orders \in [Order -> Row] /\ orders' \in [Order -> Row]
        BY <4>1 DEF Inv, TypeOK
      <4>3. orders' = [orders EXCEPT ![reqs[s].order] = Gone]
        BY <2>3 DEF CommitDelete
      <4>4. QED
        BY <3>1, <4>2, <4>3 DEF Gone
    <3>3. QED
      BY <2>1, <3>1, <3>2 DEF Lifecycle!Edge, LiveStatus
  <2>4. CASE orders' = orders
    BY <2>4
  <2>5. ASSUME NEW s \in Slot, Handler(s) PROVE orders' = orders
    BY <2>5, HandlerChecks DEF Load
  <2>6. QED
    BY <2>2, <2>3, <2>4, <2>5 DEF Next, Abort, StaffChange, vars
<1>4. QED
  BY <1>1, <1>2, <1>3, Invariance, PTL DEF Spec, LifecycleSpec, Lifecycle!Spec

=============================================================================
