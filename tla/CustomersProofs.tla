--------------------------- MODULE CustomersProofs ---------------------------
(***************************************************************************)
(* Theorems about Customers, for every set of organizations, accounts,     *)
(* customers, orders and codes, and any number of requests in flight.      *)
(***************************************************************************)
EXTENDS Customers, TLAPS

-----------------------------------------------------------------------------
(* What the bookkeeping of the requests changes.                           *)

LEMMA IdleRequest == Idle \in Request /\ Idle.op = "idle"
BY DEF Idle, Request, Absent, CustomerRow

\* The bookkeeping of the audit log stays well typed, whoever begins or ends.
LEMMA LogTypes ==
    ASSUME LogTypeOK(Customer), NEW s \in Slot,
           \/ \E rivals \in SUBSET Slot : Begins(s, rivals)
           \/ \E subjects \in SUBSET Customer : Ends(s, subjects)
    PROVE  LogTypeOK(Customer)'
<1>1. ASSUME NEW rivals \in SUBSET Slot, Begins(s, rivals) PROVE LogTypeOK(Customer)'
  BY <1>1 DEF Begins, LogTypeOK
<1>2. ASSUME NEW subjects \in SUBSET Customer, Ends(s, subjects) PROVE LogTypeOK(Customer)'
  BY <1>2 DEF Ends, LogTypeOK
<1>3. QED
  BY <1>1, <1>2

\* An entry about c: the newest listed entries and the history of the others are as before.
LEMMA EntryAdded ==
    ASSUME TypeOK, NEW s \in Slot, NEW c \in Customer, reqs[s].customer = c, AddEntry(s)
    PROVE  /\ trail' = [trail EXCEPT ![c] = Newest(s, trail[c], Recorded(reqs[s]))]
           /\ trail'[c] = IF s \in late THEN trail[c] ELSE Recorded(reqs[s])
           /\ c \in outrun' <=> s \in late
           /\ \A d \in Customer \ {c} : /\ trail'[d] = trail[d]
                                        /\ d \in outrun' <=> d \in outrun
           /\ LogTypeOK(Customer)'
<1>1. {c} \in SUBSET Customer /\ Ends(s, {c}) /\ LogTypeOK(Customer)
  BY DEF AddEntry, TypeOK
<1>2. LogTypeOK(Customer)'
  BY <1>1, LogTypes
<1>3. QED
  BY <1>1, <1>2 DEF AddEntry, Newest, Ends, TypeOK

\* A request that ends with no entry leaves what the log tells.
LEMMA NoneAdded ==
    ASSUME TypeOK, NEW s \in Slot, AddNone(s)
    PROVE  trail' = trail /\ outrun' = outrun /\ LogTypeOK(Customer)'
<1>1. {} \in SUBSET Customer /\ Ends(s, {}) /\ LogTypeOK(Customer)
  BY DEF AddNone, TypeOK
<1>2. LogTypeOK(Customer)'
  BY <1>1, LogTypes
<1>3. QED
  BY <1>2 DEF AddNone, Ends

LEMMA RivalledRequests ==
    ASSUME TypeOK, NEW c \in Customer, NEW n
    PROVE  /\ Rivalled(c, n) \in [Slot -> Request]
           /\ \A t \in Slot :
                LET q == Rivalled(c, n)[t] IN
                /\ q.op = reqs[t].op /\ q.customer = reqs[t].customer
                /\ q.seen = reqs[t].seen /\ q.new = reqs[t].new /\ q.order = reqs[t].order
                /\ q.org = reqs[t].org /\ q.since = reqs[t].since
                /\ reqs[t].rivalled => q.rivalled
                /\ reqs[t].op = "create" /\ CustomerOrg[reqs[t].customer] = CustomerOrg[c]
                     /\ reqs[t].new.code = n => q.rivalled
<1> SUFFICES ASSUME NEW t \in Slot
             PROVE  LET q == Rivalled(c, n)[t] IN
                    /\ q \in Request
                    /\ q.op = reqs[t].op /\ q.customer = reqs[t].customer
                    /\ q.seen = reqs[t].seen /\ q.new = reqs[t].new /\ q.order = reqs[t].order
                    /\ q.org = reqs[t].org /\ q.since = reqs[t].since
                    /\ reqs[t].rivalled => q.rivalled
                    /\ reqs[t].op = "create"
                         /\ CustomerOrg[reqs[t].customer] = CustomerOrg[c]
                         /\ reqs[t].new.code = n => q.rivalled
  BY DEF Rivalled
<1>1. reqs[t] \in Request
  BY DEF TypeOK
<1>2. QED
  BY <1>1 DEF Rivalled, Request

LEMMA SurprisedRequests ==
    ASSUME TypeOK, NEW c, NEW o \in Order
    PROVE  /\ Surprised(c, o) \in [Slot -> Request]
           /\ \A t \in Slot :
                LET q == Surprised(c, o)[t] IN
                /\ q.op = reqs[t].op /\ q.customer = reqs[t].customer
                /\ q.seen = reqs[t].seen /\ q.new = reqs[t].new /\ q.order = reqs[t].order
                /\ q.org = reqs[t].org /\ q.rivalled = reqs[t].rivalled
                /\ reqs[t].since \subseteq q.since
                /\ reqs[t].op = "delete" /\ reqs[t].customer = c => o \in q.since
<1> SUFFICES ASSUME NEW t \in Slot
             PROVE  LET q == Surprised(c, o)[t] IN
                    /\ q \in Request
                    /\ q.op = reqs[t].op /\ q.customer = reqs[t].customer
                    /\ q.seen = reqs[t].seen /\ q.new = reqs[t].new /\ q.order = reqs[t].order
                    /\ q.org = reqs[t].org /\ q.rivalled = reqs[t].rivalled
                    /\ reqs[t].since \subseteq q.since
                    /\ reqs[t].op = "delete" /\ reqs[t].customer = c => o \in q.since
  BY DEF Surprised
<1>1. reqs[t] \in Request
  BY DEF TypeOK
<1>2. QED
  BY <1>1 DEF Surprised, Request

-----------------------------------------------------------------------------
(* A request begins: the tables are what they were, so that only what the  *)
(* new request carries is to be shown.                                     *)

LEMMA BeginInv ==
    ASSUME TypeOK, Inv, NEW s \in Slot, ~Busy(s), NEW q \in Request,
           reqs' = [reqs EXCEPT ![s] = q],
           UNCHANGED <<users, customers, orders, trail, outrun>>, LogTypeOK(Customer)',
           q.op \in {"create", "update", "status", "delete"} => q.customer \in Customer,
           q.op = "create" => /\ q.new.life = "present"
                              /\ customers[q.customer].life = "absent"
                              /\ CodeFree(q.customer, q.new.code)
                              /\ \A t \in Slot : reqs[t].customer # q.customer,
           q.op # "create" /\ q.customer # None => customers[q.customer].life # "absent",
           q.op = "status" => q.new.active # q.seen.active,
           q.op = "delete" => LinkedTo(q.customer) = {},
           q.op = "order" => /\ q.order \in Order /\ q.org \in Org
                             /\ q.customer # None => CustomerOrg[q.customer] = q.org
    PROVE  TypeOK' /\ Inv'
<1>1. reqs'[s] = q /\ \A t \in Slot \ {s} : reqs'[t] = reqs[t]
  BY DEF TypeOK
<1>2. TypeOK'
  BY DEF TypeOK, UsersTypeOK
<1>3. None \notin Customer
  BY CustomersAssumption
<1>4. Carried'
  BY <1>1, <1>3 DEF Inv, Carried
<1>5. TrailStarts' /\ TrailTells' /\ LinksHold'
  BY DEF Inv, TrailStarts, TrailTells, LinksHold, Present
<1>6. CreationLosesToRival'
  BY <1>1 DEF Inv, CreationLosesToRival, CodeFree, Present
<1>7. DeletionLooked'
  BY <1>1 DEF Inv, DeletionLooked, LinkedTo
<1>8. QED
  BY <1>2, <1>4, <1>5, <1>6, <1>7 DEF Inv

\* A code that is next is taken by nobody.
LEMMA NextCodeFree ==
    ASSUME TypeOK, NEW c \in Customer, NEW n \in Code, IsNextCode(n, CustomerOrg[c])
    PROVE  CodeFree(c, n)
BY CustomersAssumption DEF IsNextCode, CodesOf, CodeFree

LEMMA LoadInv ==
    ASSUME TypeOK, Inv, NEW s \in Slot, NEW c \in Customer, NEW new \in CustomerRow,
           NEW op \in {"create", "update", "status", "delete"}, Load(s, op, c, new),
           op = "create" => /\ new.life = "present" /\ CodeFree(c, new.code)
                            /\ FreshCustomer(c),
           op # "create" => Present(c),
           op = "status" => new.active # customers[c].active,
           op = "delete" => Unreferenced(c)
    PROVE  TypeOK' /\ Inv'
<1>1. customers[c] \in CustomerRow
  BY DEF TypeOK
<1>2. PICK q : q = [Idle EXCEPT !.op = op, !.customer = c, !.seen = customers[c], !.new = new]
  OBVIOUS
<1>3. /\ q \in Request /\ q.op = op /\ q.customer = c
      /\ q.seen = customers[c] /\ q.new = new
  BY <1>1, <1>2 DEF Idle, Request
<1>4. /\ ~Busy(s) /\ reqs' = [reqs EXCEPT ![s] = q]
      /\ UNCHANGED <<users, customers, orders, trail, outrun>>
      /\ LogTypeOK(Customer)'
  BY <1>2, LogTypes DEF Load, Begins, TypeOK
<1>5. q.op = "create" => /\ customers[q.customer].life = "absent"
                         /\ \A t \in Slot : reqs[t].customer # q.customer
  BY <1>3 DEF FreshCustomer
<1>6. q.op # "create" => customers[q.customer].life # "absent"
  BY <1>3 DEF Present
<1>7. q.op = "delete" => LinkedTo(q.customer) = {}
  BY <1>3 DEF Unreferenced
<1>8. q.op # "order"
  BY <1>3
<1>9. QED
  BY <1>3, <1>4, <1>5, <1>6, <1>7, <1>8, BeginInv

LEMMA LoadsInv ==
    ASSUME TypeOK, Inv, NEW s \in Slot,
           Create(s) \/ Update(s) \/ SetActive(s) \/ Delete(s)
    PROVE  TypeOK' /\ Inv'
<1>1. ASSUME NEW c \in Customer PROVE customers[c] \in CustomerRow /\ c # None
  BY CustomersAssumption DEF TypeOK
<1>2. CASE Create(s)
  <2>1. PICK admin \in User, c \in Customer, n \in Code, active \in BOOLEAN :
          /\ FreshCustomer(c) /\ CustomerOrg[c] = OrgOf[admin]
          /\ IsNextCode(n, OrgOf[admin])
          /\ Load(s, "create", c, [life |-> "present", active |-> active, code |-> n])
    BY <1>2 DEF Create
  <2> DEFINE new == [life |-> "present", active |-> active, code |-> n]
  <2>2. new \in CustomerRow /\ new.life = "present" /\ new.code = n
    BY DEF CustomerRow
  <2>3. Load(s, "create", c, new) /\ CodeFree(c, n)
    BY <2>1, NextCodeFree
  <2> HIDE DEF new
  <2>4. QED
    BY <2>1, <2>2, <2>3, LoadInv
<1>3. CASE Update(s)
  <2>1. PICK c \in Customer, active \in BOOLEAN :
          Present(c) /\ Load(s, "update", c, [customers[c] EXCEPT !.active = active])
    BY <1>3 DEF Update, FoundIn
  <2>2. [customers[c] EXCEPT !.active = active] \in CustomerRow
    BY <1>1 DEF CustomerRow
  <2>3. QED
    BY <2>1, <2>2, LoadInv
<1>4. CASE SetActive(s)
  <2>1. PICK c \in Customer :
          Present(c) /\ Load(s, "status", c, [customers[c] EXCEPT !.active = ~customers[c].active])
    BY <1>4 DEF SetActive, FoundIn
  <2> DEFINE new == [customers[c] EXCEPT !.active = ~customers[c].active]
  <2>2. new \in CustomerRow /\ new.active # customers[c].active
    BY <1>1 DEF CustomerRow
  <2>3. Load(s, "status", c, new)
    BY <2>1
  <2> HIDE DEF new
  <2>4. QED
    BY <2>1, <2>2, <2>3, LoadInv
<1>5. CASE Delete(s)
  <2>1. PICK c \in Customer : Present(c) /\ Unreferenced(c) /\ Load(s, "delete", c, Gone)
    BY <1>5 DEF Delete, FoundIn
  <2>2. Gone \in CustomerRow
    BY DEF Gone, CustomerRow
  <2>3. QED
    BY <2>1, <2>2, LoadInv
<1>6. QED
  BY <1>2, <1>3, <1>4, <1>5

LEMMA CreateOrderInv ==
    ASSUME TypeOK, Inv, NEW s \in Slot, CreateOrder(s)
    PROVE  TypeOK' /\ Inv'
<1>1. PICK caller \in User, o \in Order, c \in Customer \cup {None} :
        /\ ~Busy(s)
        /\ c # None => FoundIn(OrgOf[caller], c)
        /\ reqs' = [reqs EXCEPT ![s] = [Idle EXCEPT !.op = "order", !.customer = c,
                                                    !.order = o, !.org = OrgOf[caller]]]
        /\ Begins(s, {})
        /\ UNCHANGED <<users, customers, orders, trail>>
  BY DEF CreateOrder
<1> DEFINE q == [Idle EXCEPT !.op = "order", !.customer = c,
                             !.order = o, !.org = OrgOf[caller]]
<1>2. OrgOf[caller] \in Org
  BY DirectoryAssumption
<1>3. /\ q \in Request /\ q.op = "order" /\ q.customer = c /\ q.order = o
      /\ q.org = OrgOf[caller]
  BY <1>2 DEF Idle, Request, Absent, CustomerRow
<1>4. reqs' = [reqs EXCEPT ![s] = q]
  BY <1>1
<1>5. /\ ~Busy(s) /\ UNCHANGED <<users, customers, orders, trail, outrun>>
      /\ LogTypeOK(Customer)'
      /\ c # None => customers[c].life # "absent" /\ CustomerOrg[c] = OrgOf[caller]
  BY <1>1, LogTypes DEF FoundIn, Present, Begins, TypeOK
<1> HIDE DEF q
<1>6. QED
  BY <1>2, <1>3, <1>4, <1>5, BeginInv

-----------------------------------------------------------------------------
(* A customer comes into being: by a creation, or by the import.           *)

LEMMA BornInv ==
    ASSUME TypeOK, Inv, NEW c \in Customer, NEW row \in CustomerRow,
           NEW answered \in SUBSET Slot, NEW entry \in {"none", "created"},
           customers[c].life = "absent", row.life = "present",
           customers' = [customers EXCEPT ![c] = row],
           trail' = [trail EXCEPT ![c] = entry], LogTypeOK(Customer)',
           \A d \in Customer \ {c} : d \in outrun' <=> d \in outrun,
           reqs' = [t \in Slot |-> IF t \in answered THEN Idle ELSE Rivalled(c, row.code)[t]],
           \A t \in Slot \ answered : reqs[t].customer # c,
           users' = users, orders' = orders
    PROVE  TypeOK' /\ Inv'
<1>1. /\ Rivalled(c, row.code) \in [Slot -> Request]
      /\ \A t \in Slot :
           LET q == Rivalled(c, row.code)[t] IN
           /\ q.op = reqs[t].op /\ q.customer = reqs[t].customer
           /\ q.seen = reqs[t].seen /\ q.new = reqs[t].new /\ q.order = reqs[t].order
           /\ q.org = reqs[t].org /\ q.since = reqs[t].since
           /\ reqs[t].rivalled => q.rivalled
           /\ reqs[t].op = "create" /\ CustomerOrg[reqs[t].customer] = CustomerOrg[c]
                /\ reqs[t].new.code = row.code => q.rivalled
  BY RivalledRequests
<1>2. TypeOK'
  <2>1. reqs' \in [Slot -> Request]
    BY <1>1, IdleRequest
  <2>2. QED
    BY <2>1 DEF TypeOK, UsersTypeOK, Action
<1>3. ASSUME NEW t \in Slot, reqs'[t].op # "idle"
      PROVE  /\ t \notin answered /\ reqs'[t] = Rivalled(c, row.code)[t]
             /\ reqs[t].customer # c
             /\ reqs'[t].op = reqs[t].op /\ reqs'[t].customer = reqs[t].customer
             /\ reqs'[t].seen = reqs[t].seen /\ reqs'[t].new = reqs[t].new
             /\ reqs'[t].order = reqs[t].order /\ reqs'[t].org = reqs[t].org
             /\ reqs'[t].since = reqs[t].since
  BY <1>1, <1>3, IdleRequest
<1>4. \A t \in answered : reqs'[t] = Idle
  OBVIOUS
<1>5. /\ customers'[c] = row
      /\ \A d \in Customer \ {c} : customers'[d] = customers[d] /\ trail'[d] = trail[d]
      /\ trail'[c] = entry
  BY DEF TypeOK
<1>6. Carried'
  <2> SUFFICES ASSUME NEW t \in Slot, reqs'[t].op # "idle"
               PROVE  LET r == reqs'[t] IN
        /\ r.op \in {"create", "update", "status", "delete"} => r.customer \in Customer
        /\ r.op = "create" => r.new.life = "present"
        /\ r.op \in {"update", "status", "delete"} => customers'[r.customer].life # "absent"
        /\ r.op = "create" => customers'[r.customer].life = "absent"
                              /\ \A u \in Slot \ {t} : reqs'[u].customer # r.customer
        /\ r.op = "status" => r.new.active # r.seen.active
        /\ r.op = "order" => /\ r.order \in Order /\ r.org \in Org
                             /\ r.customer # None => CustomerOrg[r.customer] = r.org
                                                     /\ customers'[r.customer].life # "absent"
    BY DEF Carried
  <2>1. reqs[t].customer \in Customer \cup {None}
    BY DEF TypeOK, Request
  <2>2. ASSUME reqs[t].op = "create", NEW u \in Slot \ {t}
        PROVE  reqs'[u].customer # reqs[t].customer
    <3>1. reqs[t].customer \in Customer /\ reqs[u].customer # reqs[t].customer
      BY <2>2 DEF Inv, Carried
    <3>2. reqs'[u].customer \in {None, reqs[u].customer}
      BY <1>1, <1>4 DEF Idle
    <3>3. QED
      BY <3>1, <3>2, CustomersAssumption
  <2>3. QED
    BY <1>3, <1>5, <2>1, <2>2 DEF Inv, Carried
<1>7. TrailStarts' /\ TrailTells'
  BY <1>5 DEF Inv, TrailStarts, TrailTells
<1>8. LinksHold'
  BY <1>5 DEF Inv, LinksHold, Present, TypeOK, OrderRow
<1>9. CreationLosesToRival'
  <2> SUFFICES ASSUME NEW t \in Slot, reqs'[t].op = "create", NEW d \in Customer,
                      d # reqs'[t].customer, customers'[d].life = "present",
                      CustomerOrg[d] = CustomerOrg[reqs'[t].customer],
                      customers'[d].code = reqs'[t].new.code
               PROVE  reqs'[t].rivalled
    BY DEF CreationLosesToRival, CodeFree, Present
  <2>1. CASE d = c
    BY <1>1, <1>3, <1>5, <2>1
  <2>2. CASE d # c
    <3>1. ~CodeFree(reqs[t].customer, reqs[t].new.code)
      BY <1>3, <1>5, <2>2 DEF CodeFree, Present
    <3>2. QED
      BY <1>1, <1>3, <3>1 DEF Inv, CreationLosesToRival
  <2>3. QED
    BY <2>1, <2>2
<1>10. DeletionLooked'
  BY <1>3 DEF Inv, DeletionLooked, LinkedTo
<1>11. QED
  BY <1>2, <1>6, <1>7, <1>8, <1>9, <1>10 DEF Inv

LEMMA CommitCreateInv ==
    ASSUME TypeOK, Inv, NEW s \in Slot, CommitCreate(s)
    PROVE  TypeOK' /\ Inv'
<1> DEFINE c == reqs[s].customer
           row == reqs[s].new
<1>1. /\ c \in Customer /\ row \in CustomerRow /\ row.life = "present"
      /\ customers[c].life = "absent" /\ \A t \in Slot \ {s} : reqs[t].customer # c
  BY DEF CommitCreate, Inv, Carried, TypeOK, Request
<1>2. /\ customers' = [customers EXCEPT ![c] = row]
      /\ AddEntry(s) /\ Recorded(reqs[s]) = "created"
      /\ users' = users /\ orders' = orders
  BY DEF CommitCreate, Recorded
<1>3. reqs' = [t \in Slot |-> IF t \in {s} THEN Idle ELSE Rivalled(c, row.code)[t]]
  BY DEF CommitCreate, Rivalled
<1>4. {s} \in SUBSET Slot
  OBVIOUS
<1>5. PICK entry \in {"none", "created"} : entry = Newest(s, trail[c], Recorded(reqs[s]))
  BY <1>1, <1>2 DEF Newest, Inv, TrailStarts
<1>6. /\ trail' = [trail EXCEPT ![c] = entry] /\ LogTypeOK(Customer)'
      /\ \A d \in Customer \ {c} : d \in outrun' <=> d \in outrun
  BY <1>1, <1>2, <1>5, EntryAdded
<1> HIDE DEF c, row
<1>7. QED
  BY <1>1, <1>2, <1>3, <1>4, <1>6, BornInv

LEMMA ImportInv ==
    ASSUME TypeOK, Inv, Import
    PROVE  TypeOK' /\ Inv'
<1>1. PICK c \in Customer, n \in Code :
        /\ FreshCustomer(c)
        /\ customers' = [customers EXCEPT ![c] =
                           [life |-> "present", active |-> TRUE, code |-> n]]
        /\ reqs' = Rivalled(c, n)
        /\ UNCHANGED <<users, orders, trail, logVars>>
  BY DEF Import
<1>2. PICK row : row = [life |-> "present", active |-> TRUE, code |-> n]
  OBVIOUS
<1>3. row \in CustomerRow /\ row.life = "present" /\ row.code = n
  BY <1>2 DEF CustomerRow
<1>4. customers[c].life = "absent" /\ \A t \in Slot : reqs[t].customer # c
  BY <1>1 DEF FreshCustomer
<1>5. trail' = [trail EXCEPT ![c] = "none"]
  BY <1>1, <1>4 DEF Inv, TrailStarts, TypeOK
<1>6. PICK answered : answered = {}
  OBVIOUS
<1>7. /\ reqs' = [t \in Slot |-> IF t \in answered THEN Idle ELSE Rivalled(c, row.code)[t]]
      /\ answered \in SUBSET Slot
      /\ \A t \in Slot \ answered : reqs[t].customer # c
  BY <1>1, <1>3, <1>4, <1>6 DEF Rivalled
<1>8. customers' = [customers EXCEPT ![c] = row] /\ users' = users /\ orders' = orders
  BY <1>1, <1>2
<1>9. PICK entry \in {"none", "created"} : trail' = [trail EXCEPT ![c] = entry]
  BY <1>5
<1>10. LogTypeOK(Customer)' /\ \A d \in Customer \ {c} : d \in outrun' <=> d \in outrun
  BY <1>1 DEF logVars, LogTypeOK, TypeOK
<1>11. customers[c].life = "absent" /\ row \in CustomerRow /\ row.life = "present"
  BY <1>3, <1>4
<1>12. QED
  BY <1>7, <1>8, <1>9, <1>10, <1>11, BornInv, Zenon

-----------------------------------------------------------------------------
(* The other commits.                                                      *)

LEMMA CommitChangeInv ==
    ASSUME TypeOK, Inv, NEW s \in Slot, CommitChange(s)
    PROVE  TypeOK' /\ Inv'
<1> DEFINE r == reqs[s]
           c == r.customer
           active == IF r.new.active = r.seen.active THEN customers[c].active ELSE r.new.active
<1>1. /\ r \in Request /\ r.op \in {"update", "status"} /\ c \in Customer
      /\ customers[c].life = "present" /\ customers[c] \in CustomerRow
      /\ r.op = "status" => r.new.active # r.seen.active
  BY DEF CommitChange, Inv, Carried, TypeOK, Present
<1>2. active \in BOOLEAN
  BY <1>1 DEF Request, CustomerRow
<1>3. /\ customers' = [customers EXCEPT ![c].active = active]
      /\ AddEntry(s)
      /\ reqs' = [reqs EXCEPT ![s] = Idle]
      /\ users' = users /\ orders' = orders
  BY DEF CommitChange
<1>4. /\ Recorded(r) \in {"updated", "activated", "deactivated"}
      /\ Recorded(r) = "activated" => active
      /\ Recorded(r) = "deactivated" => ~active
  BY <1>1 DEF Recorded
<1> HIDE DEF active
<1>5. /\ customers'[c].life = "present" /\ customers'[c].active = active
      /\ customers'[c].code = customers[c].code /\ customers'[c] \in CustomerRow
      /\ \A d \in Customer \ {c} : customers'[d] = customers[d]
  BY <1>1, <1>2, <1>3 DEF TypeOK, CustomerRow
<1>6. \A d \in Customer : /\ customers'[d].life = customers[d].life
                          /\ customers'[d].code = customers[d].code
  BY <1>1, <1>5
<1>7. reqs'[s] = Idle /\ \A t \in Slot \ {s} : reqs'[t] = reqs[t]
  BY <1>3 DEF TypeOK
<1>8. /\ trail' = [trail EXCEPT ![c] = Newest(s, trail[c], Recorded(r))]
      /\ trail'[c] = IF s \in late THEN trail[c] ELSE Recorded(r)
      /\ c \in outrun' <=> s \in late
      /\ \A d \in Customer \ {c} : trail'[d] = trail[d] /\ (d \in outrun' <=> d \in outrun)
      /\ LogTypeOK(Customer)'
  BY <1>1, <1>3, EntryAdded
<1>9. TypeOK'
  <2>1. trail' \in [Customer -> Action]
    BY <1>1, <1>4, <1>8 DEF Newest, TypeOK, Action
  <2>2. QED
    BY <1>1, <1>3, <1>5, <1>8, <2>1, IdleRequest DEF TypeOK, UsersTypeOK
<1> HIDE DEF r, c
<1>10. Carried'
  <2>1. Carried /\ \A t \in Slot : reqs[t].customer \in Customer \cup {None}
    BY DEF Inv, TypeOK, Request
  <2>2. ASSUME NEW t \in Slot
        PROVE  reqs'[t] = reqs[t] \/ (reqs'[t].op = "idle" /\ reqs'[t].customer = None)
    BY <1>7 DEF Idle
  <2>3. QED
    BY <1>6, <2>1, <2>2, CustomersAssumption DEF Carried
<1>11. TrailStarts' /\ TrailTells'
  BY <1>1, <1>4, <1>5, <1>8 DEF Inv, TrailStarts, TrailTells
<1>12. LinksHold'
  BY <1>3, <1>6 DEF Inv, LinksHold, Present, TypeOK, OrderRow
<1>13. CreationLosesToRival' /\ DeletionLooked'
  BY <1>3, <1>6, <1>7 DEF Inv, CreationLosesToRival, CodeFree, Present, DeletionLooked,
                         LinkedTo, Idle
<1>14. QED
  BY <1>9, <1>10, <1>11, <1>12, <1>13 DEF Inv

LEMMA CommitDeleteInv ==
    ASSUME TypeOK, Inv, NEW s \in Slot, CommitDelete(s)
    PROVE  TypeOK' /\ Inv'
<1> DEFINE c == reqs[s].customer
<1>1. /\ reqs[s].op = "delete" /\ c \in Customer /\ customers[c].life = "present"
      /\ c # None
  BY CustomersAssumption DEF CommitDelete, Inv, Carried, Present
<1>2. /\ customers' = [customers EXCEPT ![c] = Gone]
      /\ orders' = [o \in Order |-> IF o \in LinkedTo(c)
                                      THEN [orders[o] EXCEPT !.customer = None]
                                      ELSE orders[o]]
      /\ AddEntry(s) /\ Recorded(reqs[s]) = "deleted"
      /\ reqs' = [reqs EXCEPT ![s] = Idle]
      /\ users' = users
  BY <1>1 DEF CommitDelete, Recorded
<1>3. Gone \in CustomerRow /\ Gone.life = "deleted" /\ ~Gone.active
  BY DEF Gone, CustomerRow
<1>4. /\ customers'[c] = Gone
      /\ \A d \in Customer \ {c} : customers'[d] = customers[d]
  BY <1>1, <1>2 DEF TypeOK
<1>5. /\ trail' = [trail EXCEPT ![c] = Newest(s, trail[c], "deleted")]
      /\ trail'[c] = IF s \in late THEN trail[c] ELSE "deleted"
      /\ c \in outrun' <=> s \in late
      /\ \A d \in Customer \ {c} : trail'[d] = trail[d] /\ (d \in outrun' <=> d \in outrun)
      /\ LogTypeOK(Customer)'
  BY <1>1, <1>2, EntryAdded
<1> HIDE DEF c
<1>6. ASSUME NEW o \in Order
      PROVE  /\ orders'[o] \in OrderRow /\ orders'[o].org = orders[o].org
             /\ orders[o].customer = c => orders'[o].customer = None
             /\ orders[o].customer # c => orders'[o] = orders[o]
  BY <1>2 DEF TypeOK, OrderRow, LinkedTo
<1>7. reqs'[s] = Idle /\ \A t \in Slot \ {s} : reqs'[t] = reqs[t]
  BY <1>2 DEF TypeOK
<1>8. TypeOK'
  <2>1. orders' \in [Order -> OrderRow]
    BY <1>2, <1>6
  <2>2. trail' \in [Customer -> Action]
    BY <1>1, <1>5 DEF Newest, TypeOK, Action
  <2>3. QED
    BY <1>1, <1>2, <1>3, <1>5, <2>1, <2>2, IdleRequest DEF TypeOK, UsersTypeOK
<1>9. Carried'
  <2>1. \A d \in Customer : customers'[d].life = "absent" <=> customers[d].life = "absent"
    BY <1>1, <1>3, <1>4
  <2>2. QED
    BY <1>7, <2>1, CustomersAssumption DEF Inv, Carried, Idle, TypeOK, Request
<1>10. TrailStarts' /\ TrailTells'
  BY <1>3, <1>4, <1>5 DEF Inv, TrailStarts, TrailTells
<1>11. LinksHold'
  BY <1>1, <1>4, <1>6 DEF Inv, LinksHold, Present, TypeOK, OrderRow
<1>12. CreationLosesToRival'
  BY <1>3, <1>4, <1>7 DEF Inv, CreationLosesToRival, CodeFree, Present, Idle
<1>13. DeletionLooked'
  <2>1. \A d \in Customer : {o \in Order : orders'[o].customer = d} \subseteq LinkedTo(d)
    BY <1>1, <1>6, CustomersAssumption DEF LinkedTo
  <2>2. QED
    BY <1>7, <2>1 DEF Inv, DeletionLooked, LinkedTo, Idle, Carried
<1>14. QED
  BY <1>8, <1>9, <1>10, <1>11, <1>12, <1>13 DEF Inv

LEMMA CommitOrderInv ==
    ASSUME TypeOK, Inv, NEW s \in Slot, CommitOrder(s)
    PROVE  TypeOK' /\ Inv'
<1> DEFINE r == reqs[s]
           row == [org |-> r.org, customer |-> r.customer]
<1>1. /\ r \in Request /\ r.op = "order" /\ r.order \in Order /\ r.org \in Org
      /\ r.customer # None => /\ r.customer \in Customer
                              /\ customers[r.customer].life = "present"
                              /\ CustomerOrg[r.customer] = r.org
  BY DEF CommitOrder, Inv, Carried, Present, TypeOK, Request
<1>2. /\ orders' = [orders EXCEPT ![r.order] = row]
      /\ reqs' = [Surprised(r.customer, r.order) EXCEPT ![s] = Idle]
      /\ UNCHANGED <<users, customers, trail, outrun>> /\ LogTypeOK(Customer)'
  BY NoneAdded DEF CommitOrder
<1>3. row \in OrderRow /\ row.org = r.org /\ row.customer = r.customer
  BY <1>1 DEF Request, OrderRow
<1>4. /\ Surprised(r.customer, r.order) \in [Slot -> Request]
      /\ \A t \in Slot :
           LET q == Surprised(r.customer, r.order)[t] IN
           /\ q.op = reqs[t].op /\ q.customer = reqs[t].customer
           /\ q.seen = reqs[t].seen /\ q.new = reqs[t].new /\ q.order = reqs[t].order
           /\ q.org = reqs[t].org /\ q.rivalled = reqs[t].rivalled
           /\ reqs[t].since \subseteq q.since
           /\ reqs[t].op = "delete" /\ reqs[t].customer = r.customer => r.order \in q.since
  BY <1>1, SurprisedRequests
<1> HIDE DEF row
<1>5. TypeOK'
  BY <1>1, <1>2, <1>3, <1>4, IdleRequest DEF TypeOK, UsersTypeOK
<1>6. /\ orders'[r.order] = row /\ \A o \in Order \ {r.order} : orders'[o] = orders[o]
      /\ reqs'[s] = Idle
      /\ \A t \in Slot \ {s} : reqs'[t] = Surprised(r.customer, r.order)[t]
  BY <1>1, <1>2, <1>4 DEF TypeOK
<1> HIDE DEF r
<1>7. Carried'
  BY <1>2, <1>4, <1>6, CustomersAssumption DEF Inv, Carried, Idle, TypeOK, Request
<1>8. TrailStarts' /\ TrailTells'
  BY <1>2 DEF Inv, TrailStarts, TrailTells
<1>9. LinksHold'
  BY <1>1, <1>2, <1>3, <1>6 DEF Inv, LinksHold, Present
<1>10. CreationLosesToRival'
  BY <1>2, <1>4, <1>6 DEF Inv, CreationLosesToRival, CodeFree, Present, Idle
<1>11. DeletionLooked'
  BY <1>1, <1>3, <1>4, <1>6 DEF Inv, DeletionLooked, LinkedTo, Idle
<1>12. QED
  BY <1>5, <1>7, <1>8, <1>9, <1>10, <1>11 DEF Inv

LEMMA QuietInv ==
    ASSUME TypeOK, Inv, DeleteOrder \/ (\E s \in Slot : Abort(s)) \/ UNCHANGED vars
    PROVE  TypeOK' /\ Inv'
<1>1. CASE DeleteOrder
  <2>1. PICK o \in Order : /\ orders' = [orders EXCEPT ![o] = NoOrder]
                           /\ UNCHANGED <<users, customers, trail, reqs, logVars>>
    BY <1>1 DEF DeleteOrder
  <2>2. NoOrder \in OrderRow /\ NoOrder.customer = None
    BY DEF NoOrder, OrderRow
  <2>3. orders'[o] = NoOrder /\ \A p \in Order \ {o} : orders'[p] = orders[p]
    BY <2>1 DEF TypeOK
  <2>4. TypeOK'
    BY <2>1, <2>2 DEF TypeOK, UsersTypeOK, LogTypeOK, logVars
  <2>5. Carried' /\ TrailStarts' /\ TrailTells' /\ CreationLosesToRival'
    BY <2>1 DEF logVars, Inv, Carried, TrailStarts, TrailTells, CreationLosesToRival,
                CodeFree, Present
  <2>6. LinksHold'
    BY <2>1, <2>2, <2>3 DEF Inv, LinksHold, Present
  <2>7. DeletionLooked'
    BY <2>1, <2>2, <2>3, CustomersAssumption DEF Inv, DeletionLooked, LinkedTo, Carried
  <2>8. QED
    BY <2>4, <2>5, <2>6, <2>7 DEF Inv
<1>2. ASSUME NEW s \in Slot, Abort(s) PROVE TypeOK' /\ Inv'
  <2>1. /\ reqs' = [reqs EXCEPT ![s] = Idle]
        /\ UNCHANGED <<users, customers, orders, trail, outrun>>
        /\ LogTypeOK(Customer)'
    BY <1>2, NoneAdded DEF Abort
  <2>2. reqs'[s] = Idle /\ \A t \in Slot \ {s} : reqs'[t] = reqs[t]
    BY <2>1 DEF TypeOK
  <2>3. TypeOK'
    BY <2>1, IdleRequest DEF TypeOK, UsersTypeOK
  <2>4. Carried'
    BY <2>1, <2>2, CustomersAssumption DEF Inv, Carried, Idle, TypeOK, Request
  <2>5. TrailStarts' /\ TrailTells' /\ LinksHold'
    BY <2>1 DEF Inv, TrailStarts, TrailTells, LinksHold, Present
  <2>6. CreationLosesToRival' /\ DeletionLooked'
    BY <2>1, <2>2 DEF Inv, CreationLosesToRival, CodeFree, Present, DeletionLooked,
                      LinkedTo, Idle
  <2>7. QED
    BY <2>3, <2>4, <2>5, <2>6 DEF Inv
<1>3. CASE UNCHANGED vars
  BY <1>3 DEF vars, logVars, LogTypeOK, TypeOK, UsersTypeOK, Inv, Carried, TrailStarts, TrailTells, LinksHold,
              CreationLosesToRival, CodeFree, Present, DeletionLooked, LinkedTo
<1>4. QED
  BY <1>1, <1>2, <1>3

-----------------------------------------------------------------------------
(* The invariant.                                                          *)

(***************************************************************************)
(* The inductive invariant, in every interleaving of requests, imports and *)
(* work orders.                                                            *)
(***************************************************************************)
THEOREM CustomersInvariance == Spec => [](TypeOK /\ Inv)
<1>1. Init => TypeOK /\ Inv
  <2> SUFFICES ASSUME Init PROVE TypeOK /\ Inv
    OBVIOUS
  <2>1. TypeOK
    <3>1. customers \in [Customer -> CustomerRow]
      BY CustomersAssumption DEF Init, CustomerRow, Absent
    <3>2. LogTypeOK(Customer)
      BY DEF Init, LogInit, LogTypeOK
    <3>3. QED
      BY <3>1, <3>2, IdleRequest, DirectoryAssumption
      DEF Init, TypeOK, UsersTypeOK, OrderRow, NoOrder, Action
  <2>2. Carried /\ CreationLosesToRival /\ DeletionLooked
    BY DEF Init, Carried, CreationLosesToRival, DeletionLooked, Idle
  <2>3. LinksHold
    BY DEF Init, LinksHold, NoOrder
  <2>4. TrailTells /\ TrailStarts
    BY DEF Init, TrailTells, TrailStarts, Absent
  <2>5. QED
    BY <2>1, <2>2, <2>3, <2>4 DEF Inv
<1>2. TypeOK /\ Inv /\ [Next]_vars => TypeOK' /\ Inv'
  BY LoadsInv, CreateOrderInv, CommitCreateInv, CommitChangeInv, CommitDeleteInv,
     CommitOrderInv, ImportInv, QuietInv
  DEF Next
<1>3. QED
  BY <1>1, <1>2, PTL DEF Spec

(***************************************************************************)
(* The tables stay well typed in every interleaving.                       *)
(***************************************************************************)
THEOREM CustomersTypeCorrect == Spec => []TypeOK
BY CustomersInvariance, PTL

(***************************************************************************)
(* No order ever refers to a customer who is gone or another tenant's.     *)
(***************************************************************************)
THEOREM LinksAlwaysHold == Spec => []LinksHold
<1>1. Inv => LinksHold
  BY DEF Inv
<1>2. QED
  BY <1>1, CustomersInvariance, PTL

(***************************************************************************)
(* A creation fails only by the race for its code.                         *)
(***************************************************************************)
THEOREM OnlyRivalsTakeCodes == Spec => []CreationLosesToRival
<1>1. Inv => CreationLosesToRival
  BY DEF Inv
<1>2. QED
  BY <1>1, CustomersInvariance, PTL

(***************************************************************************)
(* A deletion unlinks only orders that were linked after it looked.        *)
(***************************************************************************)
THEOREM DeletionsLook == Spec => []DeletionLooked
<1>1. Inv => DeletionLooked
  BY DEF Inv
<1>2. QED
  BY <1>1, CustomersInvariance, PTL

(***************************************************************************)
(* The newest listed audit entry agrees with the customer, however         *)
(* requests race, unless what was committed last about the customer is     *)
(* listed beneath it, having begun earlier; and it never tells of a        *)
(* deletion that was not.                                                  *)
(***************************************************************************)
THEOREM TrailAlwaysTells == Spec => []TrailTells
<1>1. Inv => TrailTells
  BY DEF Inv
<1>2. QED
  BY <1>1, CustomersInvariance, PTL

=============================================================================
