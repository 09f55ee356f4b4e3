---------------------------- MODULE RequestsProofs ----------------------------
(***************************************************************************)
(* Further theorems about WorkOrders: what follows from what each request  *)
(* asks of the row it read.  First what holds however requests interleave, *)
(* then what holds when they are served one at a time.                     *)
(***************************************************************************)
EXTENDS WorkOrdersProofs

(***************************************************************************)
(* A READ step leaves a request that read the row that is there, and       *)
(* nothing else changes.                                                   *)
(***************************************************************************)
LEMMA HandlerLoads ==
    ASSUME Inv, NEW s \in Slot, Handler(s)
    PROVE  /\ users' = users /\ orders' = orders /\ timeline' = timeline /\ told' = told
           /\ \A t \in Slot : t # s => reqs'[t] = reqs[t]
           /\ reqs'[s].order \in Order
           /\ reqs'[s].seen = orders[reqs'[s].order]
<1>1. PICK op \in Operation \ {"idle"}, u \in User, o \in Order, new \in SessionRow :
        Load(s, op, u, o, new)
  BY HandlerChecks
<1>2. QED
  BY <1>1 DEF Load, Inv, TypeOK

(***************************************************************************)
(* The end of a request leaves what the other requests carry.              *)
(***************************************************************************)
LEMMA FinishLeavesOthers ==
    ASSUME Inv, NEW s \in Slot, NEW entered, Finish(s, entered)
    PROVE  /\ reqs'[s] = Idle
           /\ \A t \in Slot : t # s =>
                /\ reqs'[t].op = reqs[t].op /\ reqs'[t].by = reqs[t].by
                /\ reqs'[t].order = reqs[t].order
                /\ reqs'[t].seen = reqs[t].seen /\ reqs'[t].new = reqs[t].new
<1>1. reqs'[s] = Idle
  BY DEF Finish
<1>2. ASSUME NEW t \in Slot, t # s
      PROVE  /\ reqs'[t].op = reqs[t].op /\ reqs'[t].by = reqs[t].by
             /\ reqs'[t].order = reqs[t].order
             /\ reqs'[t].seen = reqs[t].seen /\ reqs'[t].new = reqs[t].new
  <2>1. reqs[t] \in Request
    BY DEF Inv, TypeOK
  <2>2. reqs'[t] = [reqs[t] EXCEPT !.elders = @ \ {s},
                      !.late = IF t \in reqs[s].elders /\ reqs[t].order = entered
                                 THEN TRUE ELSE @]
    BY <1>2 DEF Finish
  <2>3. QED
    BY <2>1, <2>2 DEF Request
<1>3. QED
  BY <1>1, <1>2

(***************************************************************************)
(* The columns of the order after a COMMIT; the other orders stay.         *)
(***************************************************************************)
LEMMA CommitColumns ==
    ASSUME Inv, NEW s \in Slot, Commit(s)
    PROVE  LET r == reqs[s]
               o == reqs[s].order IN
           /\ o \in Order
           /\ \A p \in Order : p # o => orders'[p] = orders[p]
           /\ orders'[o].status = Column(orders[o].status, r.seen.status, r.new.status)
           /\ orders'[o].assignee = Column(orders[o].assignee, r.seen.assignee, r.new.assignee)
           /\ orders'[o].requester =
                Column(orders[o].requester, r.seen.requester, r.new.requester)
           /\ orders'[o].category = Column(orders[o].category, r.seen.category, r.new.category)
           /\ orders'[o].text = Column(orders[o].text, r.seen.text, r.new.text)
<1> DEFINE r == reqs[s]
           o == reqs[s].order
<1>1. o \in Order /\ orders' = [orders EXCEPT ![o] = Merge(orders[o], r.seen, r.new)]
  BY CommitRow
<1>2. orders \in [Order -> Row]
  BY DEF Inv, TypeOK
<1>3. /\ orders'[o] = Merge(orders[o], r.seen, r.new)
      /\ \A p \in Order : p # o => orders'[p] = orders[p]
  BY <1>1, <1>2
<1>4. QED
  BY <1>1, <1>3 DEF Merge

-----------------------------------------------------------------------------
(* What each request asks.                                                 *)

(***************************************************************************)
(* Every handler asks what its operation may ask.                          *)
(***************************************************************************)
LEMMA HandlerAsks ==
    ASSUME Inv, NEW s \in Slot, Handler(s)
    PROVE  Asked(reqs'[s])
<1>0. /\ reqs \in [Slot -> Request]
      /\ \A o \in Order : orders[o] \in Row
      /\ \A org \in Org : Resolvable(org) \subseteq User
      /\ \A u \in User : OrgOf[u] \in Org
  BY DirectoryAssumption DEF Inv, TypeOK, Resolvable, Assignable, Staff
<1>1. ASSUME NEW op \in Operation, NEW u, NEW o, NEW new, Load(s, op, u, o, new)
      PROVE  reqs'[s].op = op /\ reqs'[s].seen = orders[o] /\ reqs'[s].new = new
  BY <1>0, <1>1 DEF Load
<1>2. CASE Create(s)
  <2>1. PICK u \in User, o \in Order, c \in Category, t \in Text \cup {None} :
          \/ Load(s, "create", u, o, NewOrder(u, "awaiting_assignment", None, c, t))
          \/ \E a \in Resolvable(OrgOf[u]) :
               Load(s, "create", u, o, NewOrder(u, "assigned", a, c, t))
    BY <1>2 DEF Create
  <2>2. CASE Load(s, "create", u, o, NewOrder(u, "awaiting_assignment", None, c, t))
    BY <1>1, <2>2 DEF Operation, NewOrder, Asked
  <2>3. ASSUME NEW a \in Resolvable(OrgOf[u]),
               Load(s, "create", u, o, NewOrder(u, "assigned", a, c, t))
        PROVE  Asked(reqs'[s])
    <3>1. a \in User /\ a # None
      BY <1>0, DirectoryAssumption
    <3>2. QED
      BY <1>1, <2>3, <3>1 DEF Operation, NewOrder, Asked
  <2>4. QED
    BY <2>1, <2>2, <2>3
<1>3. CASE RequestWork(s)
  <2>1. PICK u \in User, o \in Order, c \in Category, t \in Text \cup {None} :
          Load(s, "request", u, o, NewOrder(u, "awaiting_assignment", None, c, t))
    BY <1>3 DEF RequestWork
  <2>2. QED
    BY <1>1, <2>1 DEF Operation, NewOrder, Asked
<1>4. CASE Progress(s)
  <2>0. PICK u \in User, o \in Order :
          \E next \in ProgressNext(orders[o].status) :
               Load(s, "progress", u, o,
                    [orders[o] EXCEPT !.status = next, !.completed = Stamp(next)])
    BY <1>4 DEF Progress
  <2>1. PICK next \in ProgressNext(orders[o].status) :
          Load(s, "progress", u, o,
               [orders[o] EXCEPT !.status = next, !.completed = Stamp(next)])
    BY <2>0
  <2> DEFINE new == [orders[o] EXCEPT !.status = next, !.completed = Stamp(next)]
  <2>2. /\ new.status = next /\ new.assignee = orders[o].assignee
        /\ new.category = orders[o].category /\ new.text = orders[o].text
    BY <1>0 DEF Row
  <2>3. /\ reqs'[s].op = "progress" /\ reqs'[s].seen = orders[o] /\ reqs'[s].new = new
    BY <1>1, <2>1 DEF Operation
  <2> HIDE DEF new
  <2>4. QED
    BY <2>2, <2>3 DEF Asked
<1>5. CASE Assign(s)
  <2>0. PICK u \in User, o \in Order :
          /\ orders[o].status \in {"awaiting_assignment", "assigned"}
          /\ \E a \in Resolvable(OrgOf[u]) :
               Load(s, "assign", u, o,
                    [orders[o] EXCEPT !.status = "assigned", !.assignee = a])
    BY <1>5 DEF Assign
  <2>1. PICK a \in Resolvable(OrgOf[u]) :
          Load(s, "assign", u, o,
               [orders[o] EXCEPT !.status = "assigned", !.assignee = a])
    BY <2>0
  <2> DEFINE new == [orders[o] EXCEPT !.status = "assigned", !.assignee = a]
  <2>2. /\ new.status = "assigned" /\ new.assignee = a /\ a \in User
        /\ new.category = orders[o].category /\ new.text = orders[o].text
    BY <1>0 DEF Row
  <2>3. /\ reqs'[s].op = "assign" /\ reqs'[s].seen = orders[o] /\ reqs'[s].new = new
    BY <1>1, <2>1 DEF Operation
  <2> HIDE DEF new
  <2>4. QED
    BY <2>0, <2>2, <2>3 DEF Asked
<1>6. CASE Close(s)
  <2>1. PICK u \in User, o \in Order :
          /\ orders[o].status = "completed"
          /\ Load(s, "close", u, o, [orders[o] EXCEPT !.status = "closed"])
    BY <1>6 DEF Close
  <2>2. QED
    BY <1>0, <1>1, <2>1 DEF Operation, Row, Asked
<1>7. CASE Cancel(s)
  <2>1. PICK u \in User, o \in Order :
          /\ orders[o].status \in Cancellable
          /\ Load(s, "cancel", u, o, [orders[o] EXCEPT !.status = "cancelled"])
    BY <1>7 DEF Cancel
  <2>2. QED
    BY <1>0, <1>1, <2>1 DEF Operation, Row, Asked
<1>8. CASE Update(s)
  <2>0. PICK u \in User, o \in Order, c \in Category, t \in Text \cup {None} :
          \E a \in Resolvable(OrgOf[u]) \cup {None, orders[o].assignee} :
               Load(s, "update", u, o,
                    [orders[o] EXCEPT !.category = c, !.text = TextFor(c, t), !.assignee = a])
    BY <1>8 DEF Update
  <2>1. PICK a \in Resolvable(OrgOf[u]) \cup {None, orders[o].assignee} :
               Load(s, "update", u, o,
                    [orders[o] EXCEPT !.category = c, !.text = TextFor(c, t), !.assignee = a])
    BY <2>0
  <2> DEFINE new == [orders[o] EXCEPT !.category = c, !.text = TextFor(c, t), !.assignee = a]
  <2>2. new.status = orders[o].status /\ "update" \in Endpoints
    BY <1>0, <1>8 DEF Row, Update
  <2>3. /\ reqs'[s].op = "update" /\ reqs'[s].seen = orders[o] /\ reqs'[s].new = new
    BY <1>1, <2>1 DEF Operation
  <2> HIDE DEF new
  <2>4. QED
    BY <2>2, <2>3 DEF Asked
<1>9. CASE Delete(s)
  <2>1. PICK u \in User, o \in Order : Load(s, "delete", u, o, Gone)
    BY <1>9 DEF Delete
  <2>2. QED
    BY <1>1, <2>1 DEF Operation, Asked
<1>10. QED
  BY <1>2, <1>3, <1>4, <1>5, <1>6, <1>7, <1>8, <1>9 DEF Handler

LEMMA InitAsked == Init => RequestsAsked
BY DEF Init, RequestsAsked, Asked, Idle

LEMMA NextAsked ==
    ASSUME Inv, RequestsAsked, [Next]_vars
    PROVE  RequestsAsked'
<1>1. ASSUME NEW s \in Slot, Handler(s) PROVE RequestsAsked'
  <2>1. Asked(reqs'[s]) /\ \A t \in Slot : t # s => reqs'[t] = reqs[t]
    BY <1>1, HandlerAsks, HandlerLoads
  <2>2. QED
    BY <2>1 DEF RequestsAsked, Asked
<1>2. ASSUME NEW s \in Slot, NEW entered, Finish(s, entered) PROVE RequestsAsked'
  BY <1>2, FinishLeavesOthers DEF RequestsAsked, Asked, Idle
<1>3. CASE reqs' = reqs
  BY <1>3 DEF RequestsAsked, Asked
<1>4. QED
  BY <1>1, <1>2, <1>3 DEF Next, Commit, CommitDelete, Abort, StaffChange, vars

-----------------------------------------------------------------------------
(* What holds however requests interleave.                                 *)

(***************************************************************************)
(* A deletion leaves its row gone, and touches no other.                   *)
(***************************************************************************)
LEMMA DeletedRow ==
    ASSUME Inv, NEW s \in Slot, CommitDelete(s)
    PROVE  LET o == reqs[s].order IN
           /\ o \in Order /\ orders'[o] = Gone
           /\ orders'[o].status = "deleted" /\ orders'[o].assignee = None
           /\ \A p \in Order : p # o => orders'[p] = orders[p]
           /\ told' = Unlink(o)
           /\ Finish(s, None)
<1>1. reqs[s].order \in Order /\ orders \in [Order -> Row]
  BY DEF CommitDelete, Inv, RequestsPlaced, TypeOK
<1>2. QED
  BY <1>1 DEF CommitDelete, Gone, Blank

(***************************************************************************)
(* Two requests in flight on one order both found it there.                *)
(***************************************************************************)
LEMMA SharedOrder ==
    ASSUME Inv, NEW s \in Slot, Busy(s), NEW t \in Slot, Busy(t), s # t,
           reqs[t].order = reqs[s].order
    PROVE  ~Inserts(reqs[s]) /\ ~Inserts(reqs[t])
BY DEF Inv, RequestsPlaced

LEMMA InitRequesterKept == Init => RequesterKept
BY DEF Init, RequesterKept, Writes, Idle

LEMMA NextRequesterKept ==
    ASSUME Inv, RequesterKept, [Next]_vars
    PROVE  RequesterKept'
<1>1. ASSUME NEW s \in Slot, Handler(s) PROVE RequesterKept'
  BY <1>1, HandlerLoads DEF RequesterKept, Writes, Inserts
<1>2. ASSUME NEW s \in Slot, Commit(s) PROVE RequesterKept'
  <2>1. reqs'[s] = Idle /\ Busy(s)
    BY <1>2, FinishLeavesOthers DEF Commit
  <2>2. ASSUME NEW t \in Slot, t # s, Writes(reqs[t]), ~Inserts(reqs[t]),
               orders'[reqs[t].order].status \in LiveStatus
        PROVE  orders'[reqs[t].order].requester = reqs[t].seen.requester
    <3>1. Busy(t) /\ reqs[t].order \in Order
      BY <2>2 DEF Writes, Busy, Inv, RequestsPlaced
    <3>2. CASE reqs[t].order # reqs[s].order
      BY <1>2, <2>2, <3>1, <3>2, CommitColumns DEF RequesterKept
    <3>3. CASE reqs[t].order = reqs[s].order
      <4>1. ~Inserts(reqs[s])
        BY <2>1, <2>2, <3>1, <3>3, SharedOrder
      <4>2. reqs[s].new.requester = reqs[s].seen.requester
        BY <1>2, <4>1 DEF Commit, Busy, Writes, Inv, RequestsInTenant
      <4>3. orders'[reqs[s].order].requester = orders[reqs[s].order].requester
        BY <1>2, <4>2, CommitColumns DEF Column
      <4>4. orders[reqs[s].order].status \in LiveStatus
        BY <1>2, <4>1, CommitRow
      <4>5. QED
        BY <2>2, <3>3, <4>3, <4>4 DEF RequesterKept
    <3>4. QED
      BY <3>2, <3>3
  <2>3. QED
    BY <1>2, <2>1, <2>2, FinishLeavesOthers
       DEF RequesterKept, Commit, Writes, Inserts, Idle
<1>3. ASSUME NEW s \in Slot, CommitDelete(s) PROVE RequesterKept'
  <2>1. ASSUME NEW t \in Slot, t # s, Writes(reqs[t]), ~Inserts(reqs[t]),
               orders'[reqs[t].order].status \in LiveStatus
        PROVE  orders'[reqs[t].order].requester = reqs[t].seen.requester
    <3>1. reqs[t].order \in Order
      BY <2>1 DEF Writes, Busy, Inv, RequestsPlaced
    <3>2. reqs[t].order # reqs[s].order
      BY <1>3, <2>1, DeletedRow DEF LiveStatus, Lifecycle!LiveStage
    <3>3. QED
      BY <1>3, <2>1, <3>1, <3>2, DeletedRow DEF RequesterKept
  <2>2. QED
    BY <1>3, <2>1, DeletedRow, FinishLeavesOthers DEF RequesterKept, Writes, Inserts, Idle
<1>4. ASSUME NEW s \in Slot, Abort(s) PROVE RequesterKept'
  BY <1>4, FinishLeavesOthers DEF Abort, RequesterKept, Writes, Inserts, Idle
<1>5. CASE UNCHANGED <<orders, reqs>>
  BY <1>5 DEF RequesterKept, Writes, Inserts
<1>6. QED
  BY <1>1, <1>2, <1>3, <1>4, <1>5 DEF Next, StaffChange, vars

(***************************************************************************)
(* A deletion unlinks the notifications of its own order only.             *)
(***************************************************************************)
LEMMA UnlinkKeepsOthers ==
    ASSUME TypeOK, NEW o \in Order, NEW n \in told, n.order # o
    PROVE  n \in Unlink(o)
BY DEF Unlink

LEMMA NextClosedTold ==
    ASSUME Inv, RequestsAsked, RequesterKept, ClosedRequesterTold, [Next]_vars
    PROVE  ClosedRequesterTold'
<1> DEFINE Note(row, o) == [user |-> row.requester, type |-> "closed", order |-> o]
<1>1. ASSUME NEW s \in Slot, Commit(s) PROVE ClosedRequesterTold'
  <2> DEFINE r == reqs[s]
             o == reqs[s].order
  <2>1. /\ o \in Order /\ r.op \notin {"idle", "delete"}
        /\ told' = told \cup Notices(r)
        /\ \A p \in Order : p # o => orders'[p] = orders[p]
        /\ orders'[o].status = Column(orders[o].status, r.seen.status, r.new.status)
        /\ orders'[o].requester = Column(orders[o].requester, r.seen.requester, r.new.requester)
    BY <1>1, CommitColumns DEF Commit, Busy
  <2>2. Asked(r)
    BY DEF RequestsAsked
  <2>3. ASSUME orders'[o].status = "closed" PROVE Note(orders'[o], o) \in told'
    <3>1. CASE Inserts(r)
      <4>1. r.new.status \in {"awaiting_assignment", "assigned"}
        BY <2>2, <3>1 DEF Asked, Inserts
      <4>2. orders[o].status = "none" /\ r.seen.status = "none"
        BY <1>1, <3>1 DEF Inv, RequestsPlaced, Blank, Commit
      <4>3. QED
        BY <2>1, <2>3, <4>1, <4>2 DEF Column
    <3>2. CASE ~Inserts(r)
      <4>1. r.new.requester = r.seen.requester /\ r.new.requester \in User
        BY <2>1, <3>2 DEF Inv, RequestsInTenant, Writes
      <4>2. orders'[o].requester = orders[o].requester
        BY <2>1, <4>1 DEF Column
      <4>3. CASE orders[o].status = "closed"
        <5>1. Note(orders[o], o) \in told
          BY <2>1, <4>3 DEF ClosedRequesterTold
        <5>2. QED
          BY <2>1, <4>2, <5>1
      <4>4. CASE orders[o].status # "closed"
        <5>1. r.new.status = "closed" /\ r.seen.status # "closed"
          BY <2>1, <2>3, <4>4 DEF Column
        <5>2. r.op = "close"
          <6>1. r.op \in Operation
            BY DEF Inv, TypeOK, Request
          <6>2. QED
            BY <2>1, <2>2, <3>2, <5>1, <6>1 DEF Asked, Inserts, ProgressNext, Operation
        <5>3. orders[o].requester = r.seen.requester
          BY <1>1, <2>1, <3>2, CommitRow DEF RequesterKept, Writes
        <5>4. orders'[o].requester = r.new.requester /\ r.new.requester # None
          BY <4>1, <4>2, <5>3, DirectoryAssumption
        <5>5. Note(orders'[o], o) \in Notices(r)
          BY <5>2, <5>4 DEF Notices, NoticeTo
        <5>6. QED
          BY <2>1, <5>5
      <4>5. QED
        BY <4>3, <4>4
    <3>3. QED
      BY <3>1, <3>2
  <2>4. QED
    BY <2>1, <2>3 DEF ClosedRequesterTold
<1>2. ASSUME NEW s \in Slot, CommitDelete(s) PROVE ClosedRequesterTold'
  <2>1. ASSUME NEW p \in Order, orders'[p].status = "closed"
        PROVE  Note(orders'[p], p) \in told'
    <3>1. p # reqs[s].order /\ orders'[p] = orders[p]
      BY <1>2, <2>1, DeletedRow
    <3>2. Note(orders[p], p) \in told
      BY <2>1, <3>1 DEF ClosedRequesterTold
    <3>3. Note(orders[p], p).order # reqs[s].order
      BY <3>1
    <3>4. QED
      BY <1>2, <3>1, <3>2, <3>3, DeletedRow, UnlinkKeepsOthers DEF Inv
  <2>2. QED
    BY <2>1 DEF ClosedRequesterTold
<1>3. CASE UNCHANGED <<orders, told>>
  BY <1>3 DEF ClosedRequesterTold
<1>4. ASSUME NEW s \in Slot, Handler(s) PROVE ClosedRequesterTold'
  BY <1>3, <1>4, HandlerLoads
<1>5. QED
  BY <1>1, <1>2, <1>3, <1>4 DEF Next, Abort, StaffChange, vars

(***************************************************************************)
(* The requester of a closed order has been notified that it was closed:   *)
(* in every interleaving, with every endpoint, whoever edits the order     *)
(* meanwhile or deletes others.                                            *)
(***************************************************************************)
THEOREM ClosingIsTold == Spec => []ClosedRequesterTold
<1> DEFINE IInv == RequestsAsked /\ RequesterKept /\ ClosedRequesterTold
<1>1. Init => IInv
  BY InitAsked, InitRequesterKept DEF Init, ClosedRequesterTold, Blank
<1>2. Inv /\ IInv /\ [Next]_vars => IInv'
  BY NextAsked, NextRequesterKept, NextClosedTold
<1>3. QED
  BY <1>1, <1>2, Invariance, PTL DEF Spec

-----------------------------------------------------------------------------
(* The assignee, when nobody edits an order with update().                 *)

LEMMA InitNeverBack == Init => NeverBackInQueue /\ AssigneeMatchesStage
BY DEF Init, NeverBackInQueue, AssigneeMatchesStage, StageMatches, Writes, Idle, Blank,
       LiveStatus, Lifecycle!LiveStage

(***************************************************************************)
(* What the write of a request does to the queue: the row it leaves has    *)
(* stage and assignee agree; unless it is new it is not queued, and has an *)
(* assignee if it had one before.                                          *)
(***************************************************************************)
LEMMA CommitLeavesQueue ==
    ASSUME "update" \notin Endpoints, Inv, RequestsAsked, NeverBackInQueue,
           NEW s \in Slot, Commit(s)
    PROVE  LET o == reqs[s].order IN
           /\ StageMatches(orders'[o])
           /\ ~Inserts(reqs[s]) =>
                /\ orders'[o].status # "awaiting_assignment"
                /\ orders[o].assignee # None => orders'[o].assignee # None
<1> DEFINE r == reqs[s]
           o == reqs[s].order
<1>1. /\ r.op \notin {"idle", "delete", "update"} /\ r.op \in Operation
      /\ Asked(r)
      /\ orders'[o].status = Column(orders[o].status, r.seen.status, r.new.status)
      /\ orders'[o].assignee = Column(orders[o].assignee, r.seen.assignee, r.new.assignee)
  <2>1. r.op \in Operation /\ Asked(r)
    BY DEF RequestsAsked, Inv, TypeOK, Request
  <2>2. QED
    BY <2>1, CommitColumns DEF Commit, Busy, Asked
<1>2. CASE Inserts(r)
  <2>1. orders[o] = Blank /\ r.seen = Blank
    BY <1>1, <1>2 DEF Inv, RequestsPlaced, NoRowBeforeInsert, Busy
  <2>2. orders'[o].status = r.new.status /\ orders'[o].assignee = r.new.assignee
    BY <1>1, <2>1 DEF Column
  <2>3. QED
    BY <1>1, <1>2, <2>2 DEF Asked, Inserts, StageMatches
<1>3. CASE ~Inserts(r)
  <2>1. /\ orders[o].status \in LiveStatus /\ r.seen.status \in LiveStatus
        /\ StageMatches(r.seen)
        /\ r.seen.status # "awaiting_assignment" => orders[o].status # "awaiting_assignment"
        /\ r.seen.assignee # None => orders[o].assignee # None
    <3>1. orders[o].status \in LiveStatus
      BY <1>3, CommitRow
    <3>2. QED
      BY <1>1, <1>3, <3>1 DEF NeverBackInQueue, Inv, RequestsPlaced, Busy, Writes
  <2>2. CASE r.op = "assign"
    <3>1. r.new.assignee # None
      BY <1>1, <2>2, DirectoryAssumption DEF Asked
    <3>2. orders'[o].status # "awaiting_assignment"
      BY <1>1, <2>1, <2>2 DEF Asked, Column
    <3>3. orders'[o].assignee # None
      BY <1>1, <2>1, <3>1 DEF Column
    <3>4. QED
      BY <3>2, <3>3 DEF StageMatches
  <2>3. CASE r.op = "cancel"
    <3>1. orders'[o].status = "cancelled"
      BY <1>1, <2>3 DEF Asked, Cancellable, Column
    <3>2. orders'[o].assignee = orders[o].assignee
      BY <1>1, <2>3 DEF Asked, Column
    <3>3. QED
      BY <3>1, <3>2 DEF StageMatches
  <2>4. CASE r.op \in {"progress", "close"}
    <3>1. r.new.status \in {"in_progress", "completed", "closed"}
      BY <1>1, <2>4 DEF Asked, ProgressNext
    <3>2. r.seen.status \in {"assigned", "in_progress", "completed"}
      BY <1>1, <2>4 DEF Asked, ProgressNext
    <3>3. r.seen.assignee # None
      BY <2>1, <3>2 DEF StageMatches
    <3>4. orders'[o].assignee = orders[o].assignee
      BY <1>1, <2>4 DEF Asked, Column
    <3>5. orders'[o].status # "awaiting_assignment"
      BY <1>1, <2>1, <3>1, <3>2 DEF Column
    <3>6. QED
      BY <2>1, <3>3, <3>4, <3>5 DEF StageMatches
  <2>5. QED
    BY <1>1, <1>3, <2>2, <2>3, <2>4 DEF Inserts, Operation
<1>4. QED
  BY <1>2, <1>3

LEMMA NextNeverBack ==
    ASSUME "update" \notin Endpoints, Inv, RequestsAsked, NeverBackInQueue,
           AssigneeMatchesStage, [Next]_vars
    PROVE  NeverBackInQueue' /\ AssigneeMatchesStage'
<1> DEFINE Keeps(row, r) ==
             /\ StageMatches(r.seen)
             /\ row.status \in LiveStatus =>
                  /\ r.seen.status # "awaiting_assignment" => row.status # "awaiting_assignment"
                  /\ r.seen.assignee # None => row.assignee # None
<1>0. ASSUME NEW t \in Slot, Writes(reqs[t]), ~Inserts(reqs[t])
      PROVE  /\ Busy(t) /\ reqs[t].order \in Order
             /\ Keeps(orders[reqs[t].order], reqs[t])
  BY <1>0 DEF NeverBackInQueue, Writes, Busy, Inv, RequestsPlaced
<1>1. ASSUME NEW s \in Slot, Handler(s) PROVE NeverBackInQueue' /\ AssigneeMatchesStage'
  <2>1. AssigneeMatchesStage'
    BY <1>1, HandlerLoads DEF AssigneeMatchesStage
  <2>2. StageMatches(reqs'[s].seen)
    BY <1>1, HandlerLoads DEF AssigneeMatchesStage
  <2>3. QED
    BY <1>1, <2>1, <2>2, HandlerLoads DEF NeverBackInQueue, Writes, Inserts, StageMatches
<1>2. ASSUME NEW s \in Slot, Commit(s) PROVE NeverBackInQueue' /\ AssigneeMatchesStage'
  <2>1. AssigneeMatchesStage'
    BY <1>2, CommitLeavesQueue, CommitColumns DEF AssigneeMatchesStage, StageMatches
  <2>2. ASSUME NEW t \in Slot, t # s, Writes(reqs[t]), ~Inserts(reqs[t])
        PROVE  Keeps(orders'[reqs[t].order], reqs[t])
    <3>1. Busy(t) /\ reqs[t].order \in Order /\ Keeps(orders[reqs[t].order], reqs[t])
      BY <1>0, <2>2
    <3>2. CASE reqs[t].order # reqs[s].order
      <4>1. orders'[reqs[t].order] = orders[reqs[t].order]
        BY <1>2, <3>1, <3>2, CommitColumns
      <4>2. QED
        BY <3>1, <4>1
    <3>3. CASE reqs[t].order = reqs[s].order
      <4>1. ~Inserts(reqs[s])
        BY <1>2, <2>2, <3>1, <3>3, SharedOrder DEF Commit
      <4>2. orders[reqs[s].order].status \in LiveStatus
        BY <1>2, <4>1, CommitRow
      <4>3. QED
        BY <1>2, <3>1, <3>3, <4>1, <4>2, CommitLeavesQueue
    <3>4. QED
      BY <3>2, <3>3
  <2>3. reqs'[s] = Idle
    BY <1>2, FinishLeavesOthers DEF Commit
  <2>4. QED
    BY <1>2, <2>1, <2>2, <2>3, FinishLeavesOthers
       DEF NeverBackInQueue, Commit, Writes, Inserts, StageMatches, Idle
<1>3. ASSUME NEW s \in Slot, CommitDelete(s) PROVE NeverBackInQueue' /\ AssigneeMatchesStage'
  <2>1. "deleted" \notin LiveStatus
    BY DEF LiveStatus, Lifecycle!LiveStage
  <2>2. AssigneeMatchesStage'
    BY <1>3, <2>1, DeletedRow DEF AssigneeMatchesStage, StageMatches
  <2>3. ASSUME NEW t \in Slot, t # s, Writes(reqs[t]), ~Inserts(reqs[t])
        PROVE  Keeps(orders'[reqs[t].order], reqs[t])
    BY <1>0, <1>3, <2>1, <2>3, DeletedRow
  <2>4. reqs'[s] = Idle
    BY <1>3, DeletedRow, FinishLeavesOthers
  <2>5. QED
    BY <1>3, <2>2, <2>3, <2>4, DeletedRow, FinishLeavesOthers
       DEF NeverBackInQueue, Writes, Inserts, StageMatches, Idle
<1>4. ASSUME NEW s \in Slot, Abort(s) PROVE NeverBackInQueue' /\ AssigneeMatchesStage'
  BY <1>4, FinishLeavesOthers
     DEF Abort, NeverBackInQueue, AssigneeMatchesStage, StageMatches, Writes, Inserts, Idle
<1>5. CASE UNCHANGED <<orders, reqs>>
  BY <1>5 DEF NeverBackInQueue, AssigneeMatchesStage, StageMatches, Writes, Inserts
<1>6. QED
  BY <1>1, <1>2, <1>3, <1>4, <1>5 DEF Next, StaffChange, vars

(***************************************************************************)
(* Stage and assignee agree in every interleaving of the other endpoints:  *)
(* an order is queued exactly while nobody is assigned, unless it was      *)
(* cancelled.  A stale session never sends an order back to the queue,     *)
(* because the UPDATE leaves alone what the session did not change.        *)
(***************************************************************************)
THEOREM QueueIsUnassigned ==
    ASSUME "update" \notin Endpoints
    PROVE  Spec => []AssigneeMatchesStage
<1> DEFINE IInv == RequestsAsked /\ NeverBackInQueue /\ AssigneeMatchesStage
<1>1. Init => IInv
  BY InitAsked, InitNeverBack
<1>2. Inv /\ IInv /\ [Next]_vars => IInv'
  BY NextAsked, NextNeverBack
<1>3. QED
  BY <1>1, <1>2, Invariance, PTL DEF Spec

LEMMA NextAssigneeTold ==
    ASSUME "update" \notin Endpoints, Inv, RequestsAsked, AssigneeTold, [Next]_vars
    PROVE  AssigneeTold'
<1> DEFINE Note(row, o) == [user |-> row.assignee, type |-> "assigned", order |-> o]
<1>1. ASSUME NEW s \in Slot, Commit(s) PROVE AssigneeTold'
  <2> DEFINE r == reqs[s]
             o == reqs[s].order
  <2>1. /\ o \in Order
        /\ told' = told \cup Notices(r)
        /\ \A p \in Order : p # o => orders'[p] = orders[p]
        /\ orders'[o].assignee = Column(orders[o].assignee, r.seen.assignee, r.new.assignee)
    BY <1>1, CommitColumns DEF Commit
  <2>2. r.op \notin {"idle", "delete", "update"} /\ r.op \in Operation /\ Asked(r)
    <3>1. r.op \in Operation /\ Asked(r)
      BY DEF RequestsAsked, Inv, TypeOK, Request
    <3>2. QED
      BY <1>1, <3>1 DEF Commit, Busy, Asked
  <2>3. ASSUME orders'[o].assignee # None PROVE Note(orders'[o], o) \in told'
    <3>1. CASE orders'[o].assignee = orders[o].assignee
      <4>1. Note(orders[o], o) \in told
        BY <2>1, <2>3, <3>1 DEF AssigneeTold
      <4>2. QED
        BY <2>1, <3>1, <4>1
    <3>2. CASE orders'[o].assignee # orders[o].assignee
      <4>1. orders'[o].assignee = r.new.assignee /\ r.new.assignee # r.seen.assignee
        BY <2>1, <3>2 DEF Column
      <4>2. r.op # "request"
        BY <2>2, <2>3, <4>1 DEF Asked
      <4>3. r.op \in {"create", "assign"}
        BY <2>2, <4>1, <4>2 DEF Asked, Operation
      <4>4. Note(orders'[o], o) \in Notices(r)
        BY <2>3, <4>1, <4>3 DEF Notices, NoticeTo
      <4>5. QED
        BY <2>1, <4>4
    <3>3. QED
      BY <3>1, <3>2
  <2>4. QED
    BY <2>1, <2>3 DEF AssigneeTold
<1>2. ASSUME NEW s \in Slot, CommitDelete(s) PROVE AssigneeTold'
  <2>1. ASSUME NEW p \in Order, orders'[p].assignee # None
        PROVE  Note(orders'[p], p) \in told'
    <3>1. p # reqs[s].order /\ orders'[p] = orders[p]
      BY <1>2, <2>1, DeletedRow
    <3>2. Note(orders[p], p) \in told
      BY <2>1, <3>1 DEF AssigneeTold
    <3>3. Note(orders[p], p).order # reqs[s].order
      BY <3>1
    <3>4. QED
      BY <1>2, <3>1, <3>2, <3>3, DeletedRow, UnlinkKeepsOthers DEF Inv
  <2>2. QED
    BY <2>1 DEF AssigneeTold
<1>3. CASE UNCHANGED <<orders, told>>
  BY <1>3 DEF AssigneeTold
<1>4. ASSUME NEW s \in Slot, Handler(s) PROVE AssigneeTold'
  BY <1>3, <1>4, HandlerLoads
<1>5. QED
  BY <1>1, <1>2, <1>3, <1>4 DEF Next, Abort, StaffChange, vars

(***************************************************************************)
(* Whoever an order is assigned to has been notified of it, in every       *)
(* interleaving of the endpoints other than update(), deletions included.  *)
(***************************************************************************)
THEOREM AssigningIsTold ==
    ASSUME "update" \notin Endpoints
    PROVE  Spec => []AssigneeTold
<1> DEFINE IInv == RequestsAsked /\ AssigneeTold
<1>1. Init => IInv
  BY InitAsked DEF Init, AssigneeTold, Blank
<1>2. Inv /\ IInv /\ [Next]_vars => IInv'
  BY NextAsked, NextAssigneeTold
<1>3. QED
  BY <1>1, <1>2, Invariance, PTL DEF Spec

-----------------------------------------------------------------------------
(* Requests served one at a time.                                          *)

(***************************************************************************)
(* A request alone in flight leaves the row it computed.                   *)
(***************************************************************************)
LEMMA AloneLeavesItsRow ==
    ASSUME Inv, Undisturbed, NEW s \in Slot, Commit(s)
    PROVE  LET r == reqs[s]
               o == reqs[s].order IN
           /\ orders[o] = r.seen
           /\ orders'[o].status = r.new.status
           /\ orders'[o].category = r.new.category /\ orders'[o].text = r.new.text
<1>1. orders[reqs[s].order] = reqs[s].seen
  BY DEF Undisturbed, Commit
<1>2. QED
  BY <1>1, CommitColumns DEF Column

LEMMA NextTimeline ==
    ASSUME \A s, t \in Slot : s = t,
           Inv, RequestsAsked, Undisturbed, TimelineShowsStatus, [Next]_vars
    PROVE  TimelineShowsStatus'
<1>1. ASSUME NEW s \in Slot, Commit(s) PROVE TimelineShowsStatus'
  <2> DEFINE r == reqs[s]
             o == reqs[s].order
  <2>1. /\ o \in Order /\ ~r.late /\ r.op \notin {"idle", "delete"}
        /\ \A p \in Order : p # o => orders'[p] = orders[p]
        /\ orders[o] = r.seen /\ orders'[o].status = r.new.status
        /\ timeline' = IF AddsEntry(r) /\ ~r.late
                         THEN [timeline EXCEPT ![o] = EntryOf(r)] ELSE timeline
    BY <1>1, CommitColumns, AloneLeavesItsRow DEF Commit, Busy, Undisturbed
  <2>2. timeline \in [Order -> Entry] /\ r.op \in Operation /\ Asked(r)
    BY DEF Inv, TypeOK, Request, RequestsAsked
  <2>3. CASE AddsEntry(r)
    <3>1. /\ timeline'[o].to = r.new.status
          /\ \A p \in Order : p # o => timeline'[p] = timeline[p]
      BY <2>1, <2>2, <2>3 DEF EntryOf
    <3>2. QED
      BY <2>1, <3>1 DEF TimelineShowsStatus
  <2>4. CASE ~AddsEntry(r)
    <3>1. r.op = "update"
      BY <2>1, <2>2, <2>4 DEF AddsEntry, EventType, Operation
    <3>2. r.new.status = r.seen.status /\ timeline' = timeline
      BY <2>1, <2>2, <2>4, <3>1 DEF Asked
    <3>3. QED
      BY <2>1, <3>2 DEF TimelineShowsStatus
  <2>5. QED
    BY <2>3, <2>4
<1>2. ASSUME NEW s \in Slot, CommitDelete(s) PROVE TimelineShowsStatus'
  <2>1. timeline' = [timeline EXCEPT ![reqs[s].order] = NoEntry] /\ timeline \in [Order -> Entry]
    BY <1>2 DEF CommitDelete, Inv, TypeOK
  <2>2. "deleted" \notin LiveStatus
    BY DEF LiveStatus, Lifecycle!LiveStage
  <2>3. QED
    BY <1>2, <2>1, <2>2, DeletedRow DEF TimelineShowsStatus
<1>3. CASE UNCHANGED <<orders, timeline>>
  BY <1>3 DEF TimelineShowsStatus
<1>4. ASSUME NEW s \in Slot, Handler(s) PROVE TimelineShowsStatus'
  BY <1>3, <1>4, HandlerLoads
<1>5. QED
  BY <1>1, <1>2, <1>3, <1>4 DEF Next, Abort, StaffChange, vars

(***************************************************************************)
(* Served one at a time, the history of an order ends in the status the    *)
(* order has: every handler that changes the status adds the entry that    *)
(* says so, and update(), which adds none, leaves the status alone.        *)
(***************************************************************************)
THEOREM SerialTimeline ==
    ASSUME \A s, t \in Slot : s = t
    PROVE  Spec => []TimelineShowsStatus
<1> DEFINE IInv == RequestsAsked /\ Undisturbed /\ TimelineShowsStatus
<1>1. Init => IInv
  BY InitAsked, InitUndisturbed
     DEF Init, TimelineShowsStatus, Blank, LiveStatus, Lifecycle!LiveStage
<1>2. Inv /\ IInv /\ [Next]_vars => IInv'
  BY NextAsked, AloneUndisturbed, NextTimeline
<1>3. QED
  BY <1>1, <1>2, Invariance, PTL DEF Spec

(***************************************************************************)
(* The body of create() and update() describes OTHERS and nothing else;    *)
(* the other handlers keep the description they read.                      *)
(***************************************************************************)
LEMMA HandlerDescribes ==
    ASSUME Inv, TextOnlyForOthers, NEW s \in Slot, Handler(s)
    PROVE  LET r == reqs'[s] IN
           Writes(r) => (r.new.category = "others" <=> r.new.text # None)
<1> DEFINE r == reqs'[s]
           Described(new) == new.category = "others" <=> new.text # None
<1>0. /\ reqs \in [Slot -> Request]
      /\ \A o \in Order : orders[o] \in Row
  BY DEF Inv, TypeOK
<1>1. ASSUME NEW op, NEW u, NEW o, NEW new, Load(s, op, u, o, new)
      PROVE  r.op = op /\ r.new = new
  BY <1>0, <1>1 DEF Load
<1>2. ASSUME NEW c \in Category, NEW t \in Text \cup {None}, TextGiven(c, t)
      PROVE  c = "others" <=> TextFor(c, t) # None
  BY <1>2 DEF TextGiven, TextFor
<1>3. CASE Create(s) \/ RequestWork(s)
  <2>1. PICK u \in User, c \in Category, t \in Text \cup {None} :
          /\ TextGiven(c, t)
          /\ \E op \in {"create", "request"}, o \in Order, a \in User \cup {None},
                status \in Status : Load(s, op, u, o, NewOrder(u, status, a, c, t))
    <3>1. /\ \A org \in Org : Resolvable(org) \subseteq User
          /\ \A u \in User : OrgOf[u] \in Org
          /\ {"awaiting_assignment", "assigned"} \subseteq Status
      BY DirectoryAssumption
         DEF Resolvable, Assignable, Staff, Status, Lifecycle!Stage, Lifecycle!LiveStage
    <3>2. QED
      BY <1>3, <3>1 DEF Create, RequestWork
  <2>2. QED
    BY <1>1, <1>2, <2>1 DEF NewOrder
<1>4. CASE Update(s)
  <2>1. PICK u \in User, o \in Order, c \in Category, t \in Text \cup {None} :
          /\ TextGiven(c, t)
          /\ \E a \in Resolvable(OrgOf[u]) \cup {None, orders[o].assignee} :
               Load(s, "update", u, o,
                    [orders[o] EXCEPT !.category = c, !.text = TextFor(c, t), !.assignee = a])
    BY <1>4 DEF Update
  <2>2. PICK a \in Resolvable(OrgOf[u]) \cup {None, orders[o].assignee} :
               Load(s, "update", u, o,
                    [orders[o] EXCEPT !.category = c, !.text = TextFor(c, t), !.assignee = a])
    BY <2>1
  <2> DEFINE new == [orders[o] EXCEPT !.category = c, !.text = TextFor(c, t), !.assignee = a]
  <2>3. new.category = c /\ new.text = TextFor(c, t)
    BY <1>0 DEF Row
  <2>4. r.new = new
    BY <1>1, <2>2
  <2>5. QED
    BY <1>2, <2>1, <2>3, <2>4
<1>5. CASE Progress(s) \/ Assign(s) \/ Close(s) \/ Cancel(s)
  <2>1. r.op \in {"progress", "assign", "close", "cancel"}
    BY <1>1, <1>5 DEF Progress, Assign, Close, Cancel
  <2>2. Described(r.seen)
    BY HandlerLoads DEF TextOnlyForOthers
  <2>3. QED
    BY <2>1, <2>2, HandlerAsks DEF Asked
<1>6. CASE Delete(s)
  <2>1. r.op = "delete"
    BY <1>1, <1>6 DEF Delete
  <2>2. QED
    BY <2>1 DEF Writes
<1>7. QED
  BY <1>3, <1>4, <1>5, <1>6 DEF Handler

LEMMA NextDescribed ==
    ASSUME \A s, t \in Slot : s = t,
           Inv, Undisturbed, RequestsDescribed, TextOnlyForOthers, [Next]_vars
    PROVE  RequestsDescribed' /\ TextOnlyForOthers'
<1>1. ASSUME NEW s \in Slot, Commit(s) PROVE RequestsDescribed' /\ TextOnlyForOthers'
  <2>1. RequestsDescribed'
    BY <1>1, FinishLeavesOthers DEF Commit, RequestsDescribed, Writes, Idle
  <2> DEFINE r == reqs[s]
             o == reqs[s].order
  <2>2. TextOnlyForOthers'
    <3>1. r.new.category = "others" <=> r.new.text # None
      BY <1>1 DEF Commit, Busy, RequestsDescribed, Writes
    <3>2. orders'[o].category = r.new.category /\ orders'[o].text = r.new.text
      BY <1>1, AloneLeavesItsRow
    <3>3. \A p \in Order : p # o => orders'[p] = orders[p]
      BY <1>1, CommitColumns
    <3>4. QED
      BY <3>1, <3>2, <3>3 DEF TextOnlyForOthers
  <2>3. QED
    BY <2>1, <2>2
<1>2. ASSUME NEW s \in Slot, CommitDelete(s) PROVE RequestsDescribed' /\ TextOnlyForOthers'
  <2>1. RequestsDescribed'
    BY <1>2, FinishLeavesOthers DEF CommitDelete, RequestsDescribed, Writes, Idle
  <2>2. TextOnlyForOthers'
    BY <1>2, DeletedRow DEF TextOnlyForOthers, Gone, Blank
  <2>3. QED
    BY <2>1, <2>2
<1>3. ASSUME NEW s \in Slot, Abort(s) PROVE RequestsDescribed' /\ TextOnlyForOthers'
  BY <1>3, FinishLeavesOthers DEF Abort, RequestsDescribed, Writes, Idle, TextOnlyForOthers
<1>4. ASSUME NEW s \in Slot, Handler(s) PROVE RequestsDescribed' /\ TextOnlyForOthers'
  BY <1>4, HandlerLoads, HandlerDescribes DEF RequestsDescribed, Writes, TextOnlyForOthers
<1>5. CASE UNCHANGED <<orders, reqs>>
  BY <1>5 DEF RequestsDescribed, Writes, TextOnlyForOthers
<1>6. QED
  BY <1>1, <1>2, <1>3, <1>4, <1>5 DEF Next, StaffChange, vars

(***************************************************************************)
(* Served one at a time, an order has a free-text description exactly when *)
(* its category is OTHERS, whatever update() changes of it.                *)
(***************************************************************************)
THEOREM SerialDescriptions ==
    ASSUME \A s, t \in Slot : s = t
    PROVE  Spec => []TextOnlyForOthers
<1> DEFINE IInv == Undisturbed /\ RequestsDescribed /\ TextOnlyForOthers
<1>1. Init => IInv
  BY InitUndisturbed DEF Init, RequestsDescribed, TextOnlyForOthers, Blank, Writes, Idle
<1>2. Inv /\ IInv /\ [Next]_vars => IInv'
  BY AloneUndisturbed, NextDescribed
<1>3. QED
  BY <1>1, <1>2, Invariance, PTL DEF Spec

(***************************************************************************)
(* Only somebody who may progress an order starts to.                      *)
(***************************************************************************)
LEMMA HandlerMayProgress ==
    ASSUME Inv, NEW s \in Slot, Handler(s), reqs'[s].op = "progress"
    PROVE  users[reqs'[s].by].role = "admin" \/ reqs'[s].seen.assignee = reqs'[s].by
<1>0. reqs \in [Slot -> Request]
  BY DEF Inv, TypeOK
<1>1. ASSUME NEW op, NEW u, NEW o, NEW new, Load(s, op, u, o, new)
      PROVE  reqs'[s].op = op /\ reqs'[s].by = u /\ reqs'[s].seen = orders[o]
  BY <1>0, <1>1 DEF Load
<1>2. Progress(s)
  <2>1. ~Create(s) /\ ~RequestWork(s)
    BY <1>1 DEF Create, RequestWork
  <2>2. ~Assign(s)
    BY <1>1 DEF Assign
  <2>3. ASSUME Update(s) PROVE FALSE
    <3>1. PICK u \in User, o \in Order, c \in Category, t \in Text \cup {None} :
            \E a \in Resolvable(OrgOf[u]) \cup {None, orders[o].assignee} :
              Load(s, "update", u, o,
                   [orders[o] EXCEPT !.category = c, !.text = TextFor(c, t), !.assignee = a])
      BY <2>3 DEF Update
    <3>2. \E new : Load(s, "update", u, o, new)
      BY <3>1
    <3>3. QED
      BY <1>1, <3>2
  <2>4. ~Close(s)
    BY <1>1 DEF Close
  <2>5. ASSUME Cancel(s) PROVE FALSE
    <3>1. PICK u \in User, o \in Order :
            Load(s, "cancel", u, o, [orders[o] EXCEPT !.status = "cancelled"])
      BY <2>5 DEF Cancel
    <3>2. QED
      BY <1>1, <3>1
  <2>6. ~Delete(s)
    BY <1>1 DEF Delete
  <2>7. QED
    BY <2>1, <2>2, <2>3, <2>4, <2>5, <2>6 DEF Handler
<1>3. PICK u \in User, o \in Order :
        /\ MayProgress(u, o)
        /\ \E new : Load(s, "progress", u, o, new)
  BY <1>2 DEF Progress
<1>4. users[u].role = "admin" \/ orders[o].assignee = u
  BY <1>3 DEF MayProgress, HasPermission, Permissions
<1>5. QED
  BY <1>1, <1>3, <1>4

LEMMA NextProgressAllowed ==
    ASSUME Movable = {}, Inv, ProgressAllowed, [Next]_vars
    PROVE  ProgressAllowed' /\ users' = users
<1>1. ASSUME NEW s \in Slot, Handler(s) PROVE ProgressAllowed' /\ users' = users
  BY <1>1, HandlerLoads, HandlerMayProgress DEF ProgressAllowed
<1>2. ASSUME NEW s \in Slot, NEW entered, Finish(s, entered), users' = users
      PROVE  ProgressAllowed'
  BY <1>2, FinishLeavesOthers DEF ProgressAllowed, Idle
<1>3. CASE UNCHANGED vars
  BY <1>3 DEF vars, ProgressAllowed
<1>4. QED
  BY <1>1, <1>2, <1>3 DEF Next, Commit, CommitDelete, Abort

(***************************************************************************)
(* Served one at a time, and while nobody's role changes, an employee      *)
(* moves an order along only while it is assigned to them.                 *)
(***************************************************************************)
THEOREM SerialProgress ==
    ASSUME \A s, t \in Slot : s = t, Movable = {}
    PROVE  Spec => ProgressByAssignee
<1> DEFINE IInv == Undisturbed /\ ProgressAllowed
           Body == \A s \in Slot :
             LET r == reqs[s] IN
             r.op = "progress" /\ orders'[r.order].status # orders[r.order].status
                 => users[r.by].role = "admin" \/ orders[r.order].assignee = r.by
<1>1. Init => IInv
  BY InitUndisturbed DEF Init, ProgressAllowed, Idle
<1>2. Inv /\ IInv /\ [Next]_vars => IInv'
  BY AloneUndisturbed, NextProgressAllowed
<1>3. IInv => [Body]_vars
  <2> SUFFICES ASSUME IInv, NEW s \in Slot, reqs[s].op = "progress"
               PROVE  \/ users[reqs[s].by].role = "admin"
                      \/ orders[reqs[s].order].assignee = reqs[s].by
    OBVIOUS
  <2>1. orders[reqs[s].order] = reqs[s].seen
    BY DEF Undisturbed, Busy
  <2>2. QED
    BY <2>1 DEF ProgressAllowed
<1>4. QED
  BY <1>1, <1>2, <1>3, Invariance, PTL DEF Spec, ProgressByAssignee

=============================================================================
