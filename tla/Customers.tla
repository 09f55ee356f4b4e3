------------------------------ MODULE Customers ------------------------------
(***************************************************************************)
(* The customer master (app/features/customers) with its audit trail, and  *)
(* the work orders that refer to a customer (customer_id in                *)
(* app/features/work_orders).                                              *)
(*                                                                         *)
(* As in WorkOrders a request is a READ step and a COMMIT step, and a      *)
(* foreign key or a unique constraint that the commit would break rolls it *)
(* back.  customers are deleted for good.  The foreign key of a work order *)
(* is ON DELETE RESTRICT, but the session that deletes a customer first    *)
(* sets the customer_id of its orders to NULL, as SQLAlchemy does for a    *)
(* relationship without passive_deletes: what protects the orders is the   *)
(* check alone.  No code inserts into invoices, so that has_invoices never *)
(* finds one.                                                              *)
(***************************************************************************)
EXTENDS Directory, AuditLog

CONSTANTS
    Customer,     \* ids of customers
    CustomerOrg,  \* customers.organization_id, once there is a row
    Order,        \* ids of work orders
    Code,         \* the sequence numbers of customer codes: 1..n
    Existing      \* the customers there from the start

ASSUME CustomersAssumption ==
    /\ CustomerOrg \in [Customer -> Org]
    /\ None \notin Customer
    /\ Code \subseteq Nat \ {0}
    /\ Existing \subseteq Customer
    \* a code each
    /\ \A c, d \in Existing : CustomerOrg[c] = CustomerOrg[d] => c = d
    /\ Existing # {} => 1 \in Code

VARIABLES
    customers,    \* the customers table
    orders,       \* of each work order: its organization and its customer_id
    trail,        \* of each customer, the newest listed audit entry about it
    reqs          \* the requests in flight

vars == <<users, customers, orders, trail, reqs, logVars>>

-----------------------------------------------------------------------------

(***************************************************************************)
(* The columns that something depends on.  A deleted customer is a row     *)
(* that is no more; its code is free again.                                *)
(***************************************************************************)
CustomerRow == [life: {"absent", "present", "deleted"}, active: BOOLEAN, code: Code \cup {0}]

Absent == [life |-> "absent", active |-> FALSE, code |-> 0]

Gone == [life |-> "deleted", active |-> FALSE, code |-> 0]

OrderRow == [org: Org \cup {None}, customer: Customer \cup {None}]

NoOrder == [org |-> None, customer |-> None]

Action == {"none", "created", "updated", "activated", "deactivated", "deleted"}

(***************************************************************************)
(* For the properties a request remembers whether another customer got the *)
(* code it drew, and which orders were linked to its customer since it     *)
(* looked.                                                                 *)
(***************************************************************************)
Request == [op: {"idle", "create", "update", "status", "delete", "order"},
            customer: Customer \cup {None}, seen: CustomerRow, new: CustomerRow,
            order: Order \cup {None}, org: Org \cup {None},
            rivalled: BOOLEAN, since: SUBSET Order]

Idle == [op |-> "idle", customer |-> None, seen |-> Absent, new |-> Absent,
         order |-> None, org |-> None, rivalled |-> FALSE, since |-> {}]

TypeOK ==
    /\ UsersTypeOK
    /\ customers \in [Customer -> CustomerRow]
    /\ orders \in [Order -> OrderRow]
    /\ trail \in [Customer -> Action]
    /\ reqs \in [Slot -> Request]
    /\ LogTypeOK(Customer)

Busy(s) == reqs[s].op # "idle"

Init ==
    /\ users = InitialUsers
    /\ customers = [c \in Customer |->
                      IF c \in Existing THEN [life |-> "present", active |-> TRUE, code |-> 1]
                      ELSE Absent]
    /\ orders = [o \in Order |-> NoOrder]
    /\ trail = [c \in Customer |-> "none"]
    /\ reqs = [s \in Slot |-> Idle]
    /\ LogInit

-----------------------------------------------------------------------------
(* What a request reads.                                                   *)

Present(c) == customers[c].life = "present"

\* Mutant: the customer is looked up without the organization.
FoundAnywhere(org, c) == Present(c)

\* CustomerRepository.get and _validate_customer: the organization is part of the query.
FoundIn(org, c) == Present(c) /\ CustomerOrg[c] = org

CodesOf(org) == {customers[c].code : c \in {c \in Customer : Present(c) /\ CustomerOrg[c] = org}}

\* Mutant: the customers are counted, so that a deletion makes a code be drawn twice.
IsCountOfCodes(n, org) == n = Cardinality(CodesOf(org)) + 1

\* next_code_sequence: max + 1.
IsNextCode(n, org) ==
    /\ n - 1 \in CodesOf(org) \cup {0}
    /\ \A m \in CodesOf(org) : m < n

LinkedTo(c) == {o \in Order : orders[o].customer = c}

\* Mutant: an inactive customer's orders do not count.
UnreferencedIfActive(c) == customers[c].active => LinkedTo(c) = {}

\* not has_work_orders: of any status.
Unreferenced(c) == LinkedTo(c) = {}

\* Primary keys that no row has had and no request in flight has drawn.
FreshCustomer(c) == customers[c].life = "absent" /\ \A s \in Slot : reqs[s].customer # c
FreshOrder(o) == orders[o].org = None /\ \A s \in Slot : reqs[s].order # o

\* The customer that the entry of a request is about; an order leaves none.
About(r) == IF r.op \in {"create", "update", "status", "delete"} THEN {r.customer} ELSE {}

\* The READ step of an operation on customer c, once its checks have passed.
Load(s, op, c, new) ==
    /\ ~Busy(s)
    /\ reqs' = [reqs EXCEPT ![s] = [Idle EXCEPT !.op = op, !.customer = c,
                                                !.seen = customers[c], !.new = new]]
    /\ Begins(s, {t \in Slot : c \in About(reqs[t])})
    /\ UNCHANGED <<users, customers, orders, trail>>

-----------------------------------------------------------------------------
(* The operations.                                                         *)

\* create(): the code is drawn with the read.
Create(s) ==
    \E admin \in User, c \in Customer, n \in Code, active \in BOOLEAN :
        /\ Allowed(admin, "customer:manage")
        /\ FreshCustomer(c) /\ CustomerOrg[c] = OrgOf[admin]
        /\ IsNextCode(n, OrgOf[admin])
        /\ Load(s, "create", c, [life |-> "present", active |-> active, code |-> n])

\* update(): is_active is one of the fields; the code is not.
Update(s) ==
    \E admin \in User, c \in Customer, active \in BOOLEAN :
        /\ Allowed(admin, "customer:manage")
        /\ FoundIn(OrgOf[admin], c)
        /\ Load(s, "update", c, [customers[c] EXCEPT !.active = active])

\* set_active(): no entry and no change when the customer has that status already.
SetActive(s) ==
    \E admin \in User, c \in Customer :
        /\ Allowed(admin, "customer:manage")
        /\ FoundIn(OrgOf[admin], c)
        /\ Load(s, "status", c, [customers[c] EXCEPT !.active = ~customers[c].active])

\* delete(): refused while an order refers to the customer.
Delete(s) ==
    \E admin \in User, c \in Customer :
        /\ Allowed(admin, "customer:manage")
        /\ FoundIn(OrgOf[admin], c)
        /\ Unreferenced(c)
        /\ Load(s, "delete", c, Gone)

\* WorkOrderService.create: with a customer of the organization, whatever its status, or none.
CreateOrder(s) ==
    \E caller \in User, o \in Order, c \in Customer \cup {None} :
        /\ ~Busy(s)
        /\ Allowed(caller, "workorder:create_request")
        /\ FreshOrder(o)
        /\ c # None => FoundIn(OrgOf[caller], c)
        /\ reqs' = [reqs EXCEPT ![s] = [Idle EXCEPT !.op = "order", !.customer = c,
                                                    !.order = o, !.org = OrgOf[caller]]]
        /\ Begins(s, {})
        /\ UNCHANGED <<users, customers, orders, trail>>

-----------------------------------------------------------------------------
(* What a commit leaves.                                                   *)

\* Mutant: the entry of a status change tells the status that was loaded.
RecordsLoaded(r) ==
    CASE r.op = "create" -> "created"
      [] r.op = "update" -> "updated"
      [] r.op = "status" -> IF r.seen.active THEN "activated" ELSE "deactivated"
      [] r.op = "delete" -> "deleted"

\* Mutant: a status change goes by a name the audit log does not know.
RecordsUnlisted(r) ==
    CASE r.op = "create" -> "created"
      [] r.op = "update" -> "updated"
      [] r.op = "status" -> IF r.new.active THEN "on" ELSE "off"
      [] r.op = "delete" -> "deleted"

\* AuditRepository.record: every operation of the service leaves an entry.
Recorded(r) ==
    CASE r.op = "create" -> "created"
      [] r.op = "update" -> "updated"
      [] r.op = "status" -> IF r.new.active THEN "activated" ELSE "deactivated"
      [] r.op = "delete" -> "deleted"

\* A commit with the entry, which the log lists by the time the request began.
AddEntry(s) ==
    LET c == reqs[s].customer IN
    /\ trail' = [trail EXCEPT ![c] = Newest(s, trail[c], Recorded(reqs[s]))]
    /\ Ends(s, {c})

\* The session closes with no entry.
AddNone(s) == Ends(s, {}) /\ UNCHANGED trail

\* uq_customers_org_code.
CodeFree(c, n) ==
    \A d \in Customer \ {c} :
        Present(d) /\ CustomerOrg[d] = CustomerOrg[c] => customers[d].code # n

\* Customer c comes into being with code n: whoever drew that code has a rival.
Rivalled(c, n) ==
    [t \in Slot |->
        IF reqs[t].op = "create" /\ CustomerOrg[reqs[t].customer] = CustomerOrg[c]
             /\ reqs[t].new.code = n
          THEN [reqs[t] EXCEPT !.rivalled = TRUE]
          ELSE reqs[t]]

CommitCreate(s) ==
    LET r == reqs[s] IN
    /\ r.op = "create"
    /\ CodeFree(r.customer, r.new.code)
    /\ customers' = [customers EXCEPT ![r.customer] = r.new]
    /\ AddEntry(s)
    /\ reqs' = [Rivalled(r.customer, r.new.code) EXCEPT ![s] = Idle]
    /\ UNCHANGED <<users, orders>>

\* The UPDATE names is_active only if the session changed it; the row must still be there.
CommitChange(s) ==
    LET r == reqs[s]
        active == IF r.new.active = r.seen.active THEN customers[r.customer].active
                  ELSE r.new.active IN
    /\ r.op \in {"update", "status"}
    /\ Present(r.customer)
    /\ customers' = [customers EXCEPT ![r.customer].active = active]
    /\ AddEntry(s)
    /\ reqs' = [reqs EXCEPT ![s] = Idle]
    /\ UNCHANGED <<users, orders>>

\* The session loads the orders of the customer, unlinks them and deletes the row.
CommitDelete(s) ==
    LET r == reqs[s] IN
    /\ r.op = "delete"
    /\ Present(r.customer)
    /\ customers' = [customers EXCEPT ![r.customer] = Gone]
    /\ orders' = [o \in Order |-> IF o \in LinkedTo(r.customer)
                                    THEN [orders[o] EXCEPT !.customer = None]
                                    ELSE orders[o]]
    /\ AddEntry(s)
    /\ reqs' = [reqs EXCEPT ![s] = Idle]
    /\ UNCHANGED users

\* A deletion in flight that looked before order o was linked to c.
Surprised(c, o) ==
    [t \in Slot |->
        IF reqs[t].op = "delete" /\ reqs[t].customer = c
          THEN [reqs[t] EXCEPT !.since = @ \cup {o}]
          ELSE reqs[t]]

\* The foreign key of the order: its customer must still be there.
CommitOrder(s) ==
    LET r == reqs[s] IN
    /\ r.op = "order"
    /\ r.customer # None => Present(r.customer)
    /\ orders' = [orders EXCEPT ![r.order] = [org |-> r.org, customer |-> r.customer]]
    /\ reqs' = [Surprised(r.customer, r.order) EXCEPT ![s] = Idle]
    /\ AddNone(s)
    /\ UNCHANGED <<users, customers>>

(***************************************************************************)
(* The session closes without a commit.  So end a creation whose code was  *)
(* taken (it is not tried again), whatever finds its row gone, a blank     *)
(* name that _normalize turned into NULL, a deletion whose orders grew     *)
(* between the unlinking and the DELETE (the RESTRICT then does fire), and *)
(* the loser of two deletions that wait for each other: each holds the     *)
(* lock its audit entry took on the customer's row.                        *)
(***************************************************************************)
Abort(s) ==
    /\ Busy(s)
    /\ reqs' = [reqs EXCEPT ![s] = Idle]
    /\ AddNone(s)
    /\ UNCHANGED <<users, customers, orders>>

-----------------------------------------------------------------------------
(* What else writes these tables.                                          *)

\* The import adds a customer, with the next code and without an audit entry.
Import ==
    \E c \in Customer, n \in Code :
        /\ FreshCustomer(c)
        /\ IsNextCode(n, CustomerOrg[c])
        /\ customers' = [customers EXCEPT ![c] =
                           [life |-> "present", active |-> TRUE, code |-> n]]
        /\ reqs' = Rivalled(c, n)
        /\ UNCHANGED <<users, orders, trail, logVars>>

\* WorkOrderService.delete.
DeleteOrder ==
    \E o \in Order :
        /\ orders[o].org # None
        /\ orders' = [orders EXCEPT ![o] = NoOrder]
        /\ UNCHANGED <<users, customers, trail, reqs, logVars>>

Next ==
    \/ \E s \in Slot :
         \/ Create(s) \/ Update(s) \/ SetActive(s) \/ Delete(s) \/ CreateOrder(s)
         \/ CommitCreate(s) \/ CommitChange(s) \/ CommitDelete(s) \/ CommitOrder(s)
         \/ Abort(s)
    \/ Import \/ DeleteOrder

Spec == Init /\ [][Next]_vars

-----------------------------------------------------------------------------
(* Properties.                                                             *)

(***************************************************************************)
(* An order that names a customer names one that is there, in its own      *)
(* organization, although the customer was looked up long before the order *)
(* was committed and may have been deleted meanwhile.                      *)
(***************************************************************************)
LinksHold ==
    \A o \in Order :
        LET c == orders[o].customer IN
        c # None => Present(c) /\ CustomerOrg[c] = orders[o].org

(***************************************************************************)
(* A creation in flight finds its code taken only if another customer was  *)
(* created since it drew the code: it is the race alone that makes one     *)
(* fail, never a hole that a deletion left.                                *)
(***************************************************************************)
CreationLosesToRival ==
    \A s \in Slot :
        LET r == reqs[s] IN
        r.op = "create" /\ ~CodeFree(r.customer, r.new.code) => r.rivalled

(***************************************************************************)
(* A deletion that is about to commit unlinks no order that was linked     *)
(* when it looked: only orders that came later lose their customer.        *)
(***************************************************************************)
DeletionLooked ==
    \A s \in Slot : reqs[s].op = "delete" => LinkedTo(reqs[s].customer) \subseteq reqs[s].since

(***************************************************************************)
(* The newest listed audit entry of a customer agrees with its row in      *)
(* every interleaving, with one exception: until the next entry about the  *)
(* customer, a request that began before that entry's and committed after  *)
(* it has left another status than it tells, or has deleted the customer.  *)
(* (The entries about a deleted customer are those that carry its name:    *)
(* their customer_id is NULL.)                                             *)
(***************************************************************************)
TrailTells ==
    \A c \in Customer :
        /\ trail[c] = "deleted" => customers[c].life = "deleted"
        /\ c \notin outrun =>
             /\ trail[c] = "activated" => customers[c].active
             /\ trail[c] = "deactivated" => ~customers[c].active
             /\ customers[c].life = "deleted" => trail[c] = "deleted"

(***************************************************************************)
(* "Customer cannot be deleted while referenced by work orders / invoices  *)
(* (the FKs are ON DELETE RESTRICT)": no step deletes a customer that an   *)
(* order refers to.                                                        *)
(***************************************************************************)
ReferencedNotDeleted ==
    [][\A c \in Customer :
         Present(c) /\ LinkedTo(c) # {} => customers'[c].life # "deleted"]_vars

-----------------------------------------------------------------------------
(* Why it holds.                                                           *)

(***************************************************************************)
(* What a request in flight carries: a customer of the organization it     *)
(* acts for, and, if it is about the status, another status than it saw.   *)
(***************************************************************************)
Carried ==
    \A s \in Slot : LET r == reqs[s] IN
        /\ r.op \in {"create", "update", "status", "delete"} => r.customer \in Customer
        /\ r.op = "create" => r.new.life = "present"
        /\ r.op \in {"update", "status", "delete"} => customers[r.customer].life # "absent"
        /\ r.op = "create" => customers[r.customer].life = "absent"
                              /\ \A t \in Slot \ {s} : reqs[t].customer # r.customer
        /\ r.op = "status" => r.new.active # r.seen.active
        /\ r.op = "order" => /\ r.order \in Order /\ r.org \in Org
                             /\ r.customer # None => CustomerOrg[r.customer] = r.org
                                                     /\ customers[r.customer].life # "absent"

\* A customer that is not there yet has no history.
TrailStarts == \A c \in Customer : customers[c].life = "absent" => trail[c] = "none"

Inv ==
    /\ Carried /\ TrailStarts
    /\ LinksHold /\ CreationLosesToRival /\ DeletionLooked /\ TrailTells

=============================================================================
