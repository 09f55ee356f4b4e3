------------------------------ MODULE WorkOrders ------------------------------
(***************************************************************************)
(* The work-order feature (app/features/work_orders), with the timeline    *)
(* and the notifications its handlers write.                               *)
(*                                                                         *)
(* A handler is a synchronous function that runs in a thread of its own    *)
(* with a database session of its own (app/db/session.py), on PostgreSQL   *)
(* at READ COMMITTED.  It is two steps here:                               *)
(*                                                                         *)
(*   - the READ step authenticates the caller, loads the order, runs every *)
(*     check of the handler on what it loaded and computes the new row in  *)
(*     the session; a check that fails answers an error, changes nothing   *)
(*     and is no step;                                                     *)
(*   - the COMMIT step flushes: the UPDATE names only the columns whose    *)
(*     value differs from the one loaded, and applies to the row as it is  *)
(*     then; the timeline entry and the notifications go with it.          *)
(*                                                                         *)
(* Between the two, any other request may commit.  A request may also end  *)
(* without a commit: a dropped connection, a crash, an UPDATE that finds   *)
(* its row deleted.  The session rolls back, so it leaves nothing behind.  *)
(***************************************************************************)
EXTENDS Directory

CONSTANTS
    Order,        \* ids of work orders
    Slot,         \* requests that can be in flight at once
    Text,         \* free-text category descriptions
    Endpoints,    \* the endpoints called in the instance
    Movable       \* the users whose row the employee feature changes meanwhile

ASSUME WorkOrdersAssumption ==
    /\ None \notin Text \cup Order
    /\ Movable \subseteq User

VARIABLES
    orders,       \* the work_orders table
    timeline,     \* of each order, the entry its history lists last
    told,         \* the notifications table, as a set
    reqs          \* the requests in flight

vars == <<users, orders, timeline, told, reqs>>

-----------------------------------------------------------------------------
(* Rows, entries and requests.                                             *)

Lifecycle == INSTANCE WorkOrderLifecycle
               WITH stage <- [o \in Order |-> orders[o].status]

LiveStatus == Lifecycle!LiveStage

Status == Lifecycle!Stage          \* "none" and "deleted": there is no row

\* The service categories: "plain" stands for all but OTHERS.
Category == {"plain", "others"}

(***************************************************************************)
(* The columns some handler or property tests.  Names, dates, priority and *)
(* notes are written and never read by a decision, and are left out.  In a *)
(* session "now" is a fresh timestamp, which always counts as changed.     *)
(***************************************************************************)
Row == [status: Status, org: Org \cup {None}, assignee: User \cup {None},
        requester: User \cup {None}, completed: {"null", "set"},
        category: Category, text: Text \cup {None}]

SessionRow == [status: Status, org: Org \cup {None}, assignee: User \cup {None},
               requester: User \cup {None}, completed: {"null", "set", "now"},
               category: Category, text: Text \cup {None}]

Blank == [status |-> "none", org |-> None, assignee |-> None, requester |-> None,
          completed |-> "null", category |-> "plain", text |-> None]

Gone == [Blank EXCEPT !.status = "deleted"]

Entry == [kind: {"none", "created", "status_changed", "assigned", "closed", "cancelled"},
          from: Status, to: Status]

NoEntry == [kind |-> "none", from |-> "none", to |-> "none"]

Notice == [user: User, type: {"requested", "assigned", "completed", "closed"},
           order: Order \cup {None}]

Operation == {"idle", "request", "create", "progress", "assign", "close",
              "cancel", "update", "delete"}

(***************************************************************************)
(* A request: its operation, caller and order, the row it loaded and the   *)
(* row it means to leave.  An entry's created_at is now(), the start of    *)
(* its transaction: "elders" are the requests in flight that began before  *)
(* this one, and "late" holds once one that began after it has added an    *)
(* entry to the same order, which the history then lists after its own.    *)
(***************************************************************************)
Request == [op: Operation, by: User \cup {None}, order: Order \cup {None},
            seen: Row, new: SessionRow, elders: SUBSET Slot, late: BOOLEAN]

Idle == [op |-> "idle", by |-> None, order |-> None, seen |-> Blank,
         new |-> Blank, elders |-> {}, late |-> FALSE]

TypeOK ==
    /\ UsersTypeOK
    /\ orders \in [Order -> Row]
    /\ timeline \in [Order -> Entry]
    /\ told \subseteq Notice
    /\ reqs \in [Slot -> Request]

Busy(s) == reqs[s].op # "idle"

Init ==
    /\ users = InitialUsers
    /\ orders = [o \in Order |-> Blank]
    /\ timeline = [o \in Order |-> NoEntry]
    /\ told = {}
    /\ reqs = [s \in Slot |-> Idle]

-----------------------------------------------------------------------------
(* The checks of the handlers.                                             *)

\* Mutant: the lookup forgets the tenant guard.
FoundAnywhere(u, o) == orders[o].status \in LiveStatus

\* WorkOrderRepository.get, scoped to the caller's organization.
Found(u, o) == orders[o].status \in LiveStatus /\ orders[o].org = OrgOf[u]

\* A primary key that no row ever had and no request in flight has drawn.
Fresh(o) == orders[o].status = "none" /\ \A s \in Slot : reqs[s].order # o

\* Mutant: the table moves an order to a status the enumeration lacks.
UnlistedProgress(status) == IF status = "assigned" THEN {"started"} ELSE {}

\* Mutant: an order may be completed without having been started.
SkippingProgress(status) ==
    IF status = "assigned" THEN {"in_progress", "completed"}
    ELSE IF status = "in_progress" THEN {"completed"} ELSE {}

\* _PROGRESS_NEXT
ProgressNext(status) ==
    IF status = "assigned" THEN {"in_progress"}
    ELSE IF status = "in_progress" THEN {"completed"} ELSE {}

\* Mutant: a completed order may still be cancelled.
CancellableOnceCompleted ==
    {"awaiting_assignment", "assigned", "in_progress", "completed"}

\* _CANCELLABLE
Cancellable == {"awaiting_assignment", "assigned", "in_progress"}

\* Mutant: any employee may progress any order of the organization.
MayProgressAny(u, o) ==
    HasPermission(u, "workorder:manage") \/ HasPermission(u, "workorder:update_status")

\* Who may progress an order: a manager, or the employee it is assigned to.
MayProgress(u, o) ==
    \/ HasPermission(u, "workorder:manage")
    \/ HasPermission(u, "workorder:update_status") /\ orders[o].assignee = u

\* Mutant: a manager may pick an employee of any organization.
ResolvableAnywhere(org) == {u \in User : Exists(u) /\ users[u].role = "employee"}

\* Mutant: a missing assignee is accepted.
ResolvableOrNone(org) == Assignable(org) \cup {None}

\* _resolve_assignee: neither is_active nor deleted_at is tested.
Resolvable(org) == Assignable(org)

\* Mutant: the description is kept whatever the category.
KeptText(category, text) == text

\* Only OTHERS carries a description.
TextFor(category, text) == IF category = "others" THEN text ELSE None

\* The description is mandatory with OTHERS.
TextGiven(category, text) == category = "others" => text # None

(***************************************************************************)
(* The READ step of every handler, once its checks have passed.            *)
(***************************************************************************)
Load(s, op, u, o, new) ==
    /\ ~Busy(s)
    /\ reqs' = [reqs EXCEPT ![s] =
                  [op |-> op, by |-> u, order |-> o, seen |-> orders[o], new |-> new,
                   elders |-> {t \in Slot : Busy(t)}, late |-> FALSE]]
    /\ UNCHANGED <<users, orders, timeline, told>>

-----------------------------------------------------------------------------
(* The handlers.                                                           *)

NewOrder(u, status, assignee, category, text) ==
    [status |-> status, org |-> OrgOf[u], assignee |-> assignee, requester |-> u,
     completed |-> "null", category |-> category, text |-> TextFor(category, text)]

\* create() by an administrator, who may assign at once.
Create(s) ==
    /\ "create" \in Endpoints
    /\ \E u \in User, o \in Order, c \in Category, t \in Text \cup {None} :
         /\ Allowed(u, "workorder:create_request")
         /\ HasPermission(u, "workorder:manage")
         /\ Fresh(o)
         /\ TextGiven(c, t)
         /\ \/ Load(s, "create", u, o, NewOrder(u, "awaiting_assignment", None, c, t))
            \/ \E a \in Resolvable(OrgOf[u]) :
                 Load(s, "create", u, o, NewOrder(u, "assigned", a, c, t))

\* create() by an employee: it always enters the queue, unassigned.
RequestWork(s) ==
    /\ "create" \in Endpoints
    /\ \E u \in User, o \in Order, c \in Category, t \in Text \cup {None} :
         /\ Allowed(u, "workorder:create_request")
         /\ ~HasPermission(u, "workorder:manage")
         /\ Fresh(o)
         /\ TextGiven(c, t)
         /\ Load(s, "request", u, o, NewOrder(u, "awaiting_assignment", None, c, t))

\* Mutant: the completion is not stamped.
NeverStamp(status) == "null"

\* completed_at as update_status sets it.
Stamp(status) == IF status = "completed" THEN "now" ELSE "null"

\* update_status(); the same status again only adds a note, and is no step.
Progress(s) ==
    /\ "progress" \in Endpoints
    /\ \E u \in User, o \in Order :
         /\ Authenticated(u)
         /\ Found(u, o)
         /\ MayProgress(u, o)
         /\ \E next \in ProgressNext(orders[o].status) :
              Load(s, "progress", u, o,
                   [orders[o] EXCEPT !.status = next, !.completed = Stamp(next)])

\* assign(), also used to reassign.
Assign(s) ==
    /\ "assign" \in Endpoints
    /\ \E u \in User, o \in Order :
         /\ Allowed(u, "workorder:manage")
         /\ Found(u, o)
         /\ orders[o].status \in {"awaiting_assignment", "assigned"}
         /\ \E a \in Resolvable(OrgOf[u]) :
              Load(s, "assign", u, o,
                   [orders[o] EXCEPT !.status = "assigned", !.assignee = a])

\* close()
Close(s) ==
    /\ "close" \in Endpoints
    /\ \E u \in User, o \in Order :
         /\ Allowed(u, "workorder:manage")
         /\ Found(u, o)
         /\ orders[o].status = "completed"
         /\ Load(s, "close", u, o, [orders[o] EXCEPT !.status = "closed"])

\* cancel()
Cancel(s) ==
    /\ "cancel" \in Endpoints
    /\ \E u \in User, o \in Order :
         /\ Allowed(u, "workorder:manage")
         /\ Found(u, o)
         /\ orders[o].status \in Cancellable
         /\ Load(s, "cancel", u, o, [orders[o] EXCEPT !.status = "cancelled"])

\* update(): a PUT of the fields the body names; the others keep their value.
Update(s) ==
    /\ "update" \in Endpoints
    /\ \E u \in User, o \in Order, c \in Category, t \in Text \cup {None} :
         /\ Allowed(u, "workorder:manage")
         /\ Found(u, o)
         /\ TextGiven(c, t)
         /\ \E a \in Resolvable(OrgOf[u]) \cup {None, orders[o].assignee} :
              Load(s, "update", u, o,
                   [orders[o] EXCEPT !.category = c, !.text = TextFor(c, t),
                                     !.assignee = a])

\* delete(), whatever the status.
Delete(s) ==
    /\ "delete" \in Endpoints
    /\ \E u \in User, o \in Order :
         /\ Allowed(u, "workorder:manage")
         /\ Found(u, o)
         /\ Load(s, "delete", u, o, Gone)

-----------------------------------------------------------------------------
(* What a commit leaves.                                                   *)

\* One column of the UPDATE: written only if the session changed what it loaded.
Column(current, loaded, new) == IF new = loaded THEN current ELSE new

Merge(row, seen, new) ==
    [status    |-> Column(row.status, seen.status, new.status),
     org       |-> Column(row.org, seen.org, new.org),
     assignee  |-> Column(row.assignee, seen.assignee, new.assignee),
     requester |-> Column(row.requester, seen.requester, new.requester),
     completed |-> IF new.completed = "now" THEN "set"
                   ELSE Column(row.completed, seen.completed, new.completed),
     category  |-> Column(row.category, seen.category, new.category),
     text      |-> Column(row.text, seen.text, new.text)]

\* The handlers that add a timeline entry, and its event_type.
EventType(op) ==
    CASE op \in {"create", "request"} -> "created"
      [] op = "progress"              -> "status_changed"
      [] op = "assign"                -> "assigned"
      [] op = "close"                 -> "closed"
      [] op = "cancel"                -> "cancelled"
      [] OTHER                        -> "none"

AddsEntry(r) == EventType(r.op) # "none"

\* Mutant: the entry is written from the row as it was before the change.
EntryBefore(r) == [kind |-> EventType(r.op), from |-> r.seen.status, to |-> r.seen.status]

\* "previous -> next", both as the session knows them.
EntryOf(r) == [kind |-> EventType(r.op), from |-> r.seen.status, to |-> r.new.status]

NoticeTo(recipients, type, o) ==
    {[user |-> u, type |-> type, order |-> o] : u \in recipients \ {None}}

\* Mutant: the closing is notified to the administrator who closes.
NoticesToCaller(r) ==
    CASE r.op = "assign" -> NoticeTo({r.new.assignee}, "assigned", r.order)
      [] r.op = "create" -> NoticeTo({r.new.assignee}, "assigned", r.order)
      [] r.op = "close"  -> NoticeTo({r.by}, "closed", r.order)
      [] OTHER           -> {}

\* Mutant: an order assigned at creation is not notified.
NoticesWithoutCreate(r) ==
    CASE r.op = "assign" -> NoticeTo({r.new.assignee}, "assigned", r.order)
      [] r.op = "close"  -> NoticeTo({r.new.requester}, "closed", r.order)
      [] OTHER           -> {}

\* The notifications a handler adds, by operation; none for cancel, update, delete.
Notices(r) ==
    CASE r.op = "request" ->
           NoticeTo(ActiveAdmins(r.new.org) \ {r.by}, "requested", r.order)
      [] r.op = "create" -> NoticeTo({r.new.assignee}, "assigned", r.order)
      [] r.op = "progress" /\ r.new.status = "completed" ->
           NoticeTo(ActiveAdmins(r.new.org), "completed", r.order)
      [] r.op = "assign" -> NoticeTo({r.new.assignee}, "assigned", r.order)
      [] r.op = "close"  -> NoticeTo({r.new.requester}, "closed", r.order)
      [] OTHER           -> {}

\* notifications.work_order_id is SET NULL when its order is deleted.
Unlink(o) ==
    {IF n.order = o THEN [n EXCEPT !.order = None] ELSE n : n \in told}

\* The request of slot s is over; "entered" is the order it added an entry to.
Finish(s, entered) ==
    reqs' = [t \in Slot |->
        IF t = s THEN Idle
        ELSE [reqs[t] EXCEPT
                !.elders = @ \ {s},
                !.late = IF t \in reqs[s].elders /\ reqs[t].order = entered THEN TRUE ELSE @]]

(***************************************************************************)
(* COMMIT of every handler but delete().  A new order is an insert, where  *)
(* every column is written; an UPDATE needs the row to be there still.     *)
(***************************************************************************)
Commit(s) ==
    LET r == reqs[s]
        o == reqs[s].order IN
    /\ Busy(s) /\ r.op # "delete"
    /\ orders[o].status # "deleted"
    /\ orders' = [orders EXCEPT ![o] = Merge(orders[o], r.seen, r.new)]
    /\ timeline' = IF AddsEntry(r) /\ ~r.late
                     THEN [timeline EXCEPT ![o] = EntryOf(r)] ELSE timeline
    /\ told' = told \cup Notices(r)
    /\ Finish(s, IF AddsEntry(r) THEN o ELSE None)
    /\ UNCHANGED users

\* COMMIT of delete(): the row goes, its entries and notes with it.
CommitDelete(s) ==
    LET o == reqs[s].order IN
    /\ Busy(s) /\ reqs[s].op = "delete"
    /\ orders' = [orders EXCEPT ![o] = Gone]
    /\ timeline' = [timeline EXCEPT ![o] = NoEntry]
    /\ told' = Unlink(o)
    /\ Finish(s, None)
    /\ UNCHANGED users

\* The session closes without a commit.
Abort(s) ==
    /\ Busy(s)
    /\ Finish(s, None)
    /\ UNCHANGED <<users, orders, timeline, told>>

(***************************************************************************)
(* The employee feature rewrites accounts meanwhile: it promotes, demotes, *)
(* activates, deactivates and deletes, and never revives a deleted user.   *)
(***************************************************************************)
StaffChange(u) ==
    /\ Exists(u)
    /\ \E row \in UserRow :
         /\ row.life # "absent"
         /\ users[u].life = "deleted" => row.life = "deleted"
         /\ users' = [users EXCEPT ![u] = row]
    /\ UNCHANGED <<orders, timeline, told, reqs>>

Handler(s) ==
    \/ Create(s) \/ RequestWork(s) \/ Progress(s) \/ Assign(s)
    \/ Close(s) \/ Cancel(s) \/ Update(s) \/ Delete(s)

Next ==
    \/ \E s \in Slot : Handler(s) \/ Commit(s) \/ CommitDelete(s) \/ Abort(s)
    \/ \E u \in Movable : StaffChange(u)

Spec == Init /\ [][Next]_vars

-----------------------------------------------------------------------------
(* What holds however requests interleave.                                 *)

(***************************************************************************)
(* A completed order carries its completion time: update_status sets       *)
(* completed_at with the status, and no other flush separates the two.     *)
(***************************************************************************)
CompletedStamped ==
    \A o \in Order : orders[o].status = "completed" => orders[o].completed = "set"

(***************************************************************************)
(* Tenants do not mix: the requester and the assignee of an order, and     *)
(* whoever is notified about it, belong to the organization of the order.  *)
(***************************************************************************)
TenantIsolation ==
    /\ \A o \in Order : orders[o].status \in LiveStatus =>
         /\ orders[o].org \in Org
         /\ orders[o].requester \in User /\ OrgOf[orders[o].requester] = orders[o].org
         /\ orders[o].assignee # None => OrgOf[orders[o].assignee] = orders[o].org
    /\ \A n \in told : n.order # None =>
         /\ orders[n.order].status \in LiveStatus
         /\ OrgOf[n.user] = orders[n.order].org

(***************************************************************************)
(* When an order is closed its requester has been notified (close()).      *)
(***************************************************************************)
ClosedRequesterTold ==
    \A o \in Order : orders[o].status = "closed" =>
        [user |-> orders[o].requester, type |-> "closed", order |-> o] \in told

(***************************************************************************)
(* Whoever an order is assigned to has been notified of it.  update()      *)
(* breaks it; the other endpoints keep it, even interleaved.               *)
(***************************************************************************)
AssigneeTold ==
    \A o \in Order : orders[o].assignee # None =>
        [user |-> orders[o].assignee, type |-> "assigned", order |-> o] \in told

StageMatches(row) ==
    row.status \in LiveStatus \ {"cancelled"} =>
        (row.status = "awaiting_assignment" <=> row.assignee = None)

(***************************************************************************)
(* The documented flow: an order awaits assignment exactly as long as it   *)
(* has no assignee, unless it was cancelled (enums.py, WorkOrderStatus).   *)
(* update() breaks it; the other endpoints keep it, even interleaved.      *)
(***************************************************************************)
AssigneeMatchesStage == \A o \in Order : StageMatches(orders[o])

(***************************************************************************)
(* A request whose order still has the status it loaded moves it along the *)
(* lifecycle: the checks are complete, and only a stale read defeats them. *)
(***************************************************************************)
FreshCommitFollowsLifecycle ==
    [][\A s \in Slot :
         LET o == reqs[s].order IN
         Busy(s) /\ ~Busy(s)' /\ orders[o].status = reqs[s].seen.status
             => \/ orders'[o].status = orders[o].status
                \/ <<orders[o].status, orders'[o].status>> \in Lifecycle!Edge]_vars

-----------------------------------------------------------------------------
(* What holds when requests are served one at a time.                      *)

(***************************************************************************)
(* Served one at a time, the orders implement the lifecycle.               *)
(***************************************************************************)
LifecycleSpec == Lifecycle!Spec

(***************************************************************************)
(* The timeline tells where the order is: its last entry ends in the       *)
(* current status (docs/ER-DIAGRAM.md, the immutable timeline).            *)
(***************************************************************************)
TimelineShowsStatus ==
    \A o \in Order : orders[o].status \in LiveStatus =>
        timeline[o].to = orders[o].status

(***************************************************************************)
(* Only OTHERS has a free-text description, and OTHERS always has one.     *)
(***************************************************************************)
TextOnlyForOthers ==
    \A o \in Order : orders[o].category = "others" <=> orders[o].text # None

(***************************************************************************)
(* An employee progresses an order only while it is assigned to them.      *)
(***************************************************************************)
ProgressByAssignee ==
    [][\A s \in Slot :
         LET r == reqs[s] IN
         r.op = "progress" /\ orders'[r.order].status # orders[r.order].status
             => users[r.by].role = "admin" \/ orders[r.order].assignee = r.by]_vars

-----------------------------------------------------------------------------
(* What the code's own words promise and interleaved requests break.       *)

(***************************************************************************)
(* "Forward-only progress transitions": an order changes status along the  *)
(* lifecycle only (service.py, the comment on _PROGRESS_NEXT).             *)
(***************************************************************************)
ForwardOnly ==
    [][\A o \in Order :
         orders'[o].status # orders[o].status =>
             <<orders[o].status, orders'[o].status>> \in Lifecycle!Edge]_vars

-----------------------------------------------------------------------------
(* Why it holds: what every request in flight carries from its checks.     *)

Inserts(r) == r.op \in {"create", "request"}

Writes(r) == r.op \notin {"idle", "delete"}

(***************************************************************************)
(* A request is about one order: the one it will insert, which nobody else *)
(* knows of, or one that was there when it was loaded.                     *)
(***************************************************************************)
RequestsPlaced ==
    \A s \in Slot : Busy(s) =>
        LET r == reqs[s] IN
        /\ r.by \in User
        /\ r.order \in Order
        /\ Inserts(r) =>
             /\ orders[r.order].status = "none"
             /\ r.seen = Blank
             /\ \A t \in Slot \ {s} : reqs[t].order # r.order
        /\ ~Inserts(r) =>
             /\ orders[r.order].status \in LiveStatus \cup {"deleted"}
             /\ r.seen.status \in LiveStatus

\* An order nobody inserted has no columns.
NoRowBeforeInsert == \A o \in Order : orders[o].status = "none" => orders[o] = Blank

\* What a request writes is one step of the lifecycle away from what it read.
RequestsLawful ==
    \A s \in Slot : LET r == reqs[s] IN
        Writes(r) =>
            /\ r.new.status \in LiveStatus
            /\ r.new.status = r.seen.status \/ <<r.seen.status, r.new.status>> \in Lifecycle!Edge

\* A request sets and clears the completion time together with the status.
RequestsStamped ==
    \A s \in Slot : LET r == reqs[s] IN
        Writes(r) =>
            /\ r.new.status = "completed" /\ r.seen.status # "completed" => r.new.completed = "now"
            /\ r.new.completed = "null" /\ r.seen.completed = "set" =>
                 r.new.status \notin {"completed", r.seen.status}

\* A request stays within the organization of its order.
RequestsInTenant ==
    \A s \in Slot : LET r == reqs[s] IN
        Writes(r) =>
            /\ r.new.org \in Org
            /\ r.new.requester \in User /\ OrgOf[r.new.requester] = r.new.org
            /\ r.new.assignee # None => OrgOf[r.new.assignee] = r.new.org
            /\ ~Inserts(r) =>
                 /\ r.new.org = r.seen.org /\ r.new.requester = r.seen.requester
                 /\ orders[r.order].status \in LiveStatus => orders[r.order].org = r.new.org

(***************************************************************************)
(* What each operation asks of the row it read, whatever the row becomes   *)
(* meanwhile.                                                              *)
(***************************************************************************)
Asked(r) ==
    /\ r.op \in {"create", "request"} =>
         r.new.status = IF r.new.assignee = None THEN "awaiting_assignment" ELSE "assigned"
    /\ r.op = "request" => r.new.assignee = None
    /\ r.op = "progress" => r.new.status \in ProgressNext(r.seen.status)
    /\ r.op = "assign" =>
         /\ r.seen.status \in {"awaiting_assignment", "assigned"}
         /\ r.new.status = "assigned" /\ r.new.assignee \in User
    /\ r.op = "close" => r.seen.status = "completed" /\ r.new.status = "closed"
    /\ r.op = "cancel" => r.seen.status \in Cancellable /\ r.new.status = "cancelled"
    /\ r.op = "update" => "update" \in Endpoints /\ r.new.status = r.seen.status
    /\ r.op \in {"progress", "close", "cancel"} => r.new.assignee = r.seen.assignee
    /\ r.op \in {"progress", "assign", "close", "cancel"} =>
         r.new.category = r.seen.category /\ r.new.text = r.seen.text

RequestsAsked == \A s \in Slot : Asked(reqs[s])

\* An order keeps the requester it had when a request read it.
RequesterKept ==
    \A s \in Slot : LET r == reqs[s] IN
        Writes(r) /\ ~Inserts(r) /\ orders[r.order].status \in LiveStatus =>
            orders[r.order].requester = r.seen.requester

(***************************************************************************)
(* Without update(): what a request read was a row in which stage and      *)
(* assignee agree, and an order that had left the queue, or had got an     *)
(* assignee, never goes back on it while the request is in flight.         *)
(***************************************************************************)
NeverBackInQueue ==
    \A s \in Slot : LET r == reqs[s] IN
        Writes(r) /\ ~Inserts(r) =>
            /\ StageMatches(r.seen)
            /\ orders[r.order].status \in LiveStatus =>
                 /\ r.seen.status # "awaiting_assignment" =>
                      orders[r.order].status # "awaiting_assignment"
                 /\ r.seen.assignee # None => orders[r.order].assignee # None

(***************************************************************************)
(* With one request in flight, what it loaded is what is there, and none   *)
(* that began later has added an entry before it.                          *)
(***************************************************************************)
Undisturbed ==
    \A s \in Slot : Busy(s) => reqs[s].seen = orders[reqs[s].order] /\ ~reqs[s].late

\* What a request writes describes OTHERS and nothing else.
RequestsDescribed ==
    \A s \in Slot : LET r == reqs[s] IN
        Writes(r) => (r.new.category = "others" <=> r.new.text # None)

\* While roles stay as they are: whoever progresses an order may do so.
ProgressAllowed ==
    \A s \in Slot : LET r == reqs[s] IN
        r.op = "progress" => users[r.by].role = "admin" \/ r.seen.assignee = r.by

(***************************************************************************)
(* The inductive invariant behind the theorems of WorkOrdersProofs.        *)
(***************************************************************************)
Inv ==
    /\ TypeOK
    /\ NoRowBeforeInsert
    /\ RequestsPlaced
    /\ RequestsLawful
    /\ RequestsStamped
    /\ RequestsInTenant
    /\ CompletedStamped
    /\ TenantIsolation

=============================================================================
