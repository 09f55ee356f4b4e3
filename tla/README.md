# AuditFlow backend: a verification project in TLA+

AuditFlow is the back office of an auditors' firm: a FastAPI service over
PostgreSQL (SQLAlchemy sessions, one per request). This directory models the
parts of it that carry state and rules, model-checks them with TLC on small
instances and proves the central invariants with TLAPS for every instance.

## Inventory

| component | state | operations | interacts with | hard part | what makes it correct |
|---|---|---|---|---|---|
| Accounts, authorization (`models/user.py`, `core/rbac.py`, `core/dependencies.py`) | users | authenticate, check a permission | read by every feature | a decision taken on an account that changes meanwhile | a caller acts only within its role and organization |
| Work orders (`features/work_orders`) | orders, events, notes | create, progress, assign, close, cancel, PUT, delete | reads users, adds notifications | handlers read, check and write with nothing locked | orders follow the lifecycle; assignee, completion time, history and notices agree with it; tenants never mix |
| Staff accounts (`features/employees`) | users | create, PUT, (de)activate, change role, soft-delete | counts active work orders, records audit entries | rules that count rows of other accounts | an administrator remains; deleted accounts stay out; phones are unique |
| Sign-up and seed command (`features/auth`, `cli.py`) | users, organizations | register, seed-admin | as above | run beside the staff feature | as above |
| Audit log (`features/audit`) | audit_logs | append, list | written by staff and customer features | entries are ordered by the start of their transaction | the log tells the state, but where a request outran another |
| Sessions and passwords (`features/auth`) | refresh and reset tokens | login, refresh, logout, reset, change | users | rotation and revocation by check-then-write | one refresh token has one successor; a password change ends every session |
| Notification inbox (`features/notifications`) | read flags | list, mark read, mark all | filled by work orders | counts beside concurrent inserts | unread counts match |
| Customers and their import (`features/customers`) | customers | create, update, (de)activate, delete, import | referred to by work orders and invoices, audited | code allocation, deletion against a new reference, idempotent import | codes unique, references kept, import twice = import once |
| Invoices (`features/invoicing`) | invoice records | create with retry, totals | none | number collisions, rounding | numbers unique, gross - discount = net |
| Dashboard (`features/dashboard`) | none | counts and lists | reads orders | none | reads only |
| Migrations, HTTP plumbing | schema; none | - | - | - | not modelled |

The service runs every handler in a thread of its own with a session of its own
(`db/session.py`: `autoflush=False`, `expire_on_commit=False`), on PostgreSQL's
default READ COMMITTED. No handler locks a row, no row carries a version. So the
recurring hazard is the same everywhere: what a handler checked may no longer
hold when it commits. `PROJECT.json` lists the hazards line by line.

## Modules

| module | models | theorems |
|---|---|---|
| `Directory` | the users table, the permission matrix, the caller's authentication; extended by `WorkOrders`, `Employees` and `Customers` | |
| `AuditLog` | the order of the audit log, by the start of the transactions; extended by `Employees` and `Customers` | |
| `WorkOrderLifecycle` | the abstract specification: the stages of an order and the edges between them | |
| `WorkOrders` | the work-order handlers, the timeline, the notifications they add; `LifecycleSpec` maps it to the one above | `WorkOrdersProofs`, `RequestsProofs` |
| `Employees` | the staff handlers, sign-up, the seed command, the audit entries | `EmployeesProofs` |
| `Sessions` | refresh tokens, reset links and passwords, beside what the staff feature does to accounts | `SessionsProofs` |
| `Numbering` | the numbers of work orders and invoices: draw, insert, collide, retry, give up | `NumberingProofs` |
| `InvoiceTotals` | gross, discount and net of an invoice, as functions on whole cents | `NumberingProofs` |
| `Customers` | the customer service with its audit trail, beside the orders that refer to customers and the import | `CustomersProofs` |
| `Import` | the import of the two legacy registers, beside the web | `ImportProofs` |
| `MCWorkOrders`, `MCEmployees`, `MCSessions`, `MCNumbering`, `MCCustomers`, `MCImport` | the instances for TLC | |

Where two components meet, one module has the whole of its own side and as much
of the other as reaches its tables: `WorkOrders` has the staff feature as
`StaffChange`, `Employees` has work orders as the set `holders`, `Sessions` has
the staff feature as `StaffCreate`, `StaffSetActive` and `StaffSetPassword`,
`Customers` has the creation and the deletion of orders and the import of one
customer, `Import` has the web as `EnterCustomer` and what follows it there, and
`Numbering` has the deletion of orders and of a customer as single steps.

### How a request is modelled

A request is two steps. The **read** step is an action named after the handler
(`Assign`, `SetRole`, ...): it authenticates the caller, loads the row, runs every
check and computes the row the session holds (`new`) beside the one it loaded
(`seen`). A request that fails a check answers an error and changes nothing, so
it is no step. The **commit** step (`Commit`, `CommitDelete`) is SQLAlchemy's
flush: the UPDATE names only the columns in which `new` differs from `seen`
(`Merge`), so two sessions interleave column by column; the timeline entry, the
notifications and the audit entry are inserted with it. `Abort` is every other
end of a request, a dropped connection or a crash: the session rolls back. A slot
is a request in flight; with one slot requests are served one at a time.

A handler flushes shortly before it commits. From the flush on, PostgreSQL holds
the lock of the row, so another writer of the same row waits and then applies its
own columns to the committed row: flush and commit are one step, but in
`Numbering`. There the flush matters: a number that is flushed and not committed
(`phase = "held"`) makes every other insertion of it wait in the unique index, and
the waiter goes on when the holder commits (it collides) or is cut off (it inserts).

The `created_at` of a timeline entry and of an audit entry is `now()`, the start of
its transaction (`db/base.py:34`), and both the history of an order and the audit log
are listed by it (`work_order.py:103`, `audit/repository.py:51,72`). A request
therefore remembers which requests began before it (`elders`), in `WorkOrders` and in
`AuditLog`, and `timeline`, `audit` and `trail` keep what the entry says that is listed
as the newest, whoever committed last. That makes a difference with two requests
in flight: one loads an active account to deactivate it; another deactivates it and a
third activates it, and both commit; then the first one commits. The account is
inactive, and the newest listed entry is "activated". `outrun` holds the
subjects with such an entry, until the next one about them that is not late;
`unrecorded` those that a PUT, the seed command or a sign-up changed without an entry,
until the next one. In the
code the transaction begins with the lookup of the caller, a little before the handler
loads its row; the model has both in the read step, so that requests begin in the
order in which they read; that one begins first and yet reads what the other has
committed is left out.

Some requests carry history that the code does not have, for the properties alone:
`failures` beside `rivals` in `Numbering`, `rivalled` and `since` in `Customers`,
`outrun` in `AuditLog`, `unrecorded` in `Employees`, `raced` and `handled` in `Import`, the sign-in of a token in `Sessions`. No guard
reads them but `failures`, which is the loop's counter; `rivals` stops counting at
`Retries`, which is as far as the property compares it.

### Numbers

`next_number()` is the action that begins a request and the first half of a retry
(`Draw`): the successor of the largest committed number of the series. A series is
an organization and the present day for orders, and a billing date for invoices,
whose numbers know no tenant. `Refused` is any IntegrityError: the code takes each
for a collision, also the foreign key of an order whose customer was deleted
meanwhile (`dangling`), and tries again until `_MAX_NUMBER_RETRIES`. A retry of an
order reads the date again, so that it may fall on the next day. Clients may type
an invoice number, in another spelling of the same sequence number ("-7"); deleting
an order frees its number. `reshaped` remembers where either happened.

### The import

A run (`seed_customers`) is one transaction with a savepoint per line. What it wrote
is in `draft`, which only its own queries see (`View`), and its rows are locked for
the web; one `Commit` at the end publishes the draft, a `Crash` at any point loses
it. A line is `Match` (find_duplicate and next_code_sequence) and then `Create`,
`Fill` or `Keep`; `LineFails` rolls the savepoint back, whatever the cause. Between
the two the web may commit. SQLAlchemy does not refresh an object it still holds,
so when two lines in a row match one customer the second sees the attributes as
the first left them (`seen`), not as they are in the table.

`HeaderMap` is `_build_header_map`: each field in turn takes the first column whose
header is one of its aliases, or else one that contains an alias, and no column is
taken twice. The instance has a header that makes this matter: "Company Name"
contains "pan", so that in the register without a PAN column the company names are
read as PANs, and in the other one they are not.

### What is left out of a modelled component

Data that no decision reads: names, contact numbers, descriptions, priorities,
dates, notes, and the `assigned_employee_name` that deletion restamps.
Of the service categories only OTHERS matters. In
`Employees` the email is left out but for the seeded account's (its unique
constraint makes a second insert fail); phone numbers are kept because no
constraint backs their check. Organizations are never deactivated by the code.
Which organization `register()` picks among several that have an administrator is
left open.

`Sessions` keeps of an account whether it is active and which password its hash was
made from, and of a token its row plus two history fields: the sign-in it goes back
to and the password proved there. Access tokens are not modelled: they are not
stored, and every request looks the account up again. Which account an email or a
phone number resolves to is a choice. The checks of `reset_password` and
`change_password` and the selection of the tokens to revoke are one read step:
nothing is flushed between them (`autoflush=False`).

`Numbering` numbers only what `next_number()` reads as a number: a suffix for which
`isdigit()` holds and `int()` fails (a superscript digit typed into an invoice
number) is out, and so is an insertion that fails for another reason than a
constraint. `Customers` keeps a customer's code, status and references, not the
searchable columns; PUT of a work order does not touch its customer and has
therefore no action there. `Import` has a value for what a cell holds after
`_clean_cell` and the conversions, up to letter case, and one field `other` for all
columns that are neither keys nor the name, but `second` for those that take their
columns before the mobile number (`seed.py:67`).

## Runs

Passing:

| run | instance | question |
|---|---|---|
| `serial` | 1 slot, an administrator and two employees, one order, two texts, every endpoint | Do the handlers, one at a time, implement `WorkOrderLifecycle`, keep history and description consistent, and let only the assignee or a manager progress an order? |
| `workflow` | 2 slots, no PUT and no DELETE, an assignee that the staff feature demotes, deactivates or deletes | Interleaved, does an order have an assignee exactly when its stage says so, and was the assignee told? |
| `edited` | 2 slots, every endpoint, two organizations | With stale PUTs too: completion time, notice to the requester, the lifecycle of every commit whose read is not stale, tenant isolation; `Inv` is the invariant of the proofs. |
| `staff_serial` | 1 slot, two administrators, a newcomer; every operation but the seed command | Does only a PUT take the last active administrator away, do deleted accounts stay inactive, is a phone number given once? |
| `staff_interleaved` | 2 slots, an administrator (the founder) and an employee who may hold orders; the seed command, no PUT | Interleaved, do the newest listed audit entries tell role and status of every account, but for what is `outrun` or `unrecorded`? |
| `sessions` | 1 slot, a seeded account and a newcomer, two passwords, three tokens, one link; accounts change and tokens expire meanwhile | Are rotation, revocation and reset links what the service says? `SerialInv` is the invariant of the proofs. |
| `sessions_interleaved` | 2 slots, two tokens, no links; staff set passwords too | Does nobody lose a session by what others do? |
| `customers` | 2 slots, three customers and one of another organization, codes 1..2, one order | Do references hold, does only a rival take a code, does a deletion unlink only what came after its check, does the newest listed entry tell the status of every customer that is not `outrun`? |
| `import` | 2 runs over 7 pairs of registers, 2 tables, 3 customers | Is existing data preserved, are GST numbers unique, does a handled line find its customer again after crashes, failures and edits, is a column read once? |
| `numbers` | 2 slots, one organization and the invoices, 2 days, 2 attempts, sequence 1..3 | Is a failed attempt the fault of a rival, are the series without holes, is every request answered? |

Each of the others shows a statement of the repository that the code does not
keep; `findings` in `PROJECT.json` quotes it.

| run | shows |
|---|---|
| `forward_only` | two requests that loaded one order: the later commit moves it backwards or out of a final stage |
| `customer_deleted` | a customer that an order refers to is deleted: the order was created after the check, and the session sets its `customer_id` to NULL before the DELETE, so the foreign key has nothing to restrict |

More disagreements show with the same properties when an instance is
widened: `TimelineShowsStatus` and `ProgressByAssignee` with a second slot in
`serial`; `AssigneeMatchesStage` and `AssigneeTold` with PUT in `workflow`;
`DeletedStaysInactive`, `AdminRemains` and `PhoneUnique` with a second slot in
`staff_serial` (an activation that read before the deletion, two removals of the last
two administrators, each counting the other, two sign-ups with one phone number), and
the first two with the seed command there, which reactivates a deleted account
(`cli.py:50`) that `delete()` then counts; `AdminRemains` without the exception of the
PUT, and `AuditTellsRole` and `AuditTellsStatus` without that of the `unrecorded`: one
PUT of `is_active` deactivates the last administrator, without an audit entry
(`employees/service.py:114`);
`AuditTellsRole`, `AuditTellsStatus` and `TrailTells` without the exception of what is
`outrun`, as described above;
`TextOnlyForOthers` with a second slot in `serial` (two PUTs of different columns leave
a plain category with a description); `LiveSessionsKnowPassword` (a sign-in that checked the old password commits
after the change) and `OneLivePerLogin` (two rotations of one token) with a second
slot in `sessions`, and `LiveSessionsKnowPassword` with a password set by staff or
by the seed command (`employees/service.py:117`, `cli.py:49`): the refresh tokens of
the old one stay usable. `GstUnique` needs that the web brings no keys: the web looks for no duplicates.
`HandledFound` speaks of lines with a key: a line with a name alone matches nothing
and is created again by every run, although `seed.py:25` calls the import
idempotent. That is why those runs are as narrow as they are,
and each property's comment says what it needs.

**Bounds.** One order: handlers touch one order each and the properties speak of
one at a time; two orders only multiply. Two slots: every interleaving hazard
here is between a read and one commit inside it. Two employees, so that an order
can be reassigned; two administrators, so that one can be the other's reserve. In
`staff_serial` nobody holds orders (`Holdable` is empty): holding one only forbids a
deletion, so every behaviour with holders is among those without. In
`staff_interleaved` two accounts and no PUT keep the instance small: the properties
speak of one account at a time, and `EmployeesProofs` proves them with PUT. Two texts
where texts are told apart, none elsewhere. One free phone number: two accounts that
compete for it are enough. Three tokens: a sign-in, its rotation, and another
sign-in or a second rotation; two in `sessions_interleaved`, one for each account or a
sign-in and its rotation.

In `customers`, three customers of one organization let two creations race after a
deletion left a hole in the codes, for which two codes are enough; the one of the
other organization shares code 1 with them. In `import`, the lines of the GST register come in pairs that agree in one
key, in none, or of which one has no name; the income-tax register has one line, with
keys or without; the table has a customer with both keys or with the mobile number
alone; one register set is unusable (no name column; no lines). Two runs:
the second is over what the first left, whatever became of it. In `numbers`, two
attempts stand for five (the theorems have any number); with two slots, the second
collision of a request needs the other slot to commit twice, which it does; two days
let a retry fall past midnight; the sequence of three leaves room for
two requests after one number (`Room` is the one guard that is not the code's). Typed
numbers are 1 (`TypedUpTo`), in both spellings.

Ids are used once, so behaviours end
when they run out and deadlock is not checked (`CHECK_DEADLOCK FALSE`); a request
in flight can always abort, and in `numbers` `Answered` says more than the absence
of deadlock. Slots and newcomers are interchangeable (`SYMMETRY`); the runs
that check liveness have no symmetry.

**Fairness.** Only `Numbering` states any, because only there the code waits and
retries by itself: `FairSpec` is strong fairness of `Serve(s)`, what a request does
by itself once it has begun. A handler runs in a thread, which goes on. A request
that waits for a held number is disabled while another holds it, and one may
hold it after another; PostgreSQL wakes the waiters of a transaction that ends, so
that one which waits again and again is served: that is the strong form. Nothing is assumed of the clients (`BeginOrder`,
`TypeInvoice`), of midnight, nor that anybody is cut off. Elsewhere every step is a
user's request and no liveness is claimed.

## Proofs

`WorkOrdersProofs`, for any sets of users, organizations, orders, texts and slots,
any initial accounts and endpoints:

- `Invariance`: `Spec => []Inv`. The properties are not inductive: a commit writes
  what an earlier step put in the session. `Inv` adds what a request in flight
  carries from its checks: it targets an order that was live or that nobody else
  knows (`RequestsPlaced`, `NoRowBeforeInsert`), it moves the status along one edge
  of the lifecycle or leaves it (`RequestsLawful`), it sets the completion time with
  the status (`RequestsStamped`), and it stays in its organization
  (`RequestsInTenant`). The proof goes handler by handler for the read step
  (`HandlerChecks`, `LoadKeepsInv`) and column by column for the commit (`CommitRow`).
- From it: `TypeCorrect`, `CompletedIsStamped`, `TenantsAreIsolated`, and
  `FreshCommits` (a commit whose read is not stale is a lifecycle step).
- `SerialLifecycle`: with at most one slot, `Spec` implements `Lifecycle!Spec`
  under the mapping of the status column. With two it does not (`forward_only`).
  With one slot the row is, when it is written, what the session loaded
  (`Undisturbed`); the step is then a fresh commit.

`RequestsProofs` goes on from `Inv`, with what each operation asks of the row it
read (`Asked`, `RequestsAsked`), which is true of a request however stale its read
has become:

- `ClosingIsTold` (`ClosedRequesterTold`): every interleaving of every endpoint. Only
  `close()` brings an order to closed, a later commit leaves it there or moves it
  away, and the requester of an order never changes (`RequesterKept`): PUT does not
  write that column and no id is used again.
- `QueueIsUnassigned` (`AssigneeMatchesStage`) and `AssigningIsTold` (`AssigneeTold`):
  every interleaving without PUT. Two stale sessions write different columns of one
  row, so the row that results is one that no session held (`Merge`). What saves it is
  `NeverBackInQueue`: without PUT an order that has left the queue, or got an
  assignee, never goes back on it. So a reassignment, which found the order assigned
  and writes the assignee alone, does not write it on an order in the queue, and a
  cancellation or a start of work, which write the status alone, do not leave one
  without an assignee. With PUT both fail, see above.
- `SerialTimeline` (`TimelineShowsStatus`), `SerialDescriptions`
  (`TextOnlyForOthers`), `SerialProgress` (`ProgressByAssignee`): one slot. The first
  needs that every handler but PUT adds an entry with the status it writes, and that
  PUT leaves the status alone. The second needs that a row that is written whole is
  consistent (`RequestsDescribed`); with two slots it is written by halves.
  `SerialProgress` adds that no role changes while the request runs
  (`Movable = {}`): its caller was the assignee or an administrator when it was
  authenticated (`ProgressAllowed`), and is judged when it commits.

`EmployeesProofs`, for any accounts and phone numbers:

- `StaffTypeCorrect`.
- `AuditKnowsTheRole` (`AuditTellsRole`): in every interleaving of all operations the
  newest listed role entry is the role, with the two exceptions of the property: what
  is `outrun`, and what the seed command changed without an entry (`unrecorded`). The
  strengthening `RoleWritten` says that `set_role` always writes a role it did not
  load, so a stale commit writes the column it records.
- `AuditKnowsTheStatus` (`AuditTellsStatus`): likewise the newest listed status entry is
  the status, PUT included among what leaves no entry; "deleted" it says of deleted
  accounts only, without exception. `StatusWritten` is the same argument for
  `set_active` and the deletion, and says that no operation brings an account back.
- `SerialLogInOrder`: with one slot nothing is ever `outrun`, so that there only the
  `unrecorded` are excepted.
- `SerialAdministration` (`AdminRemains`): one slot, no seed command: no step takes the
  last active administrator of an organization away, but the commit of a PUT.
  `delete()` does not count active administrators, it relies on its caller being one,
  which is so because a deleted account cannot be active: the invariant (`SerialInv`)
  has both, and that a PUT writes neither role nor deletion.
- `SerialDeletions` (`DeletedStaysInactive`): one slot, no seed command. PUT is
  allowed: it refuses a deleted account, and with one slot nothing is deleted
  between that check and the commit. `DeletionDeactivates` says that a request that
  is about to mark an account deleted is about to deactivate it.
- `SerialPhones` (`PhoneUnique`): one slot, every operation, provided that no two
  initial accounts share a number. The number that a request in flight brings is
  nobody else's (`PhoneReserved`); nothing else behind the check keeps it so.

`SessionsProofs`, for any accounts, passwords, tokens, links and initial accounts:

- `SessionsTypeCorrect` and `OwnersSignOut` (`RevokedByOwner`) in every
  interleaving. Their invariant `Inv` says that a request names the rows it is
  about and that every token it will revoke is its user's (`VictimsOwned`).
- `SerialInvariance` (`SerialInv`), and from it `SerialSessions`
  (`LiveSessionsKnowPassword`), `SerialRotation` (`OneLivePerLogin`) and
  `SerialPasswordChanges` (`PasswordChangeProved`), with one slot and no password set
  by staff. `SerialInv` adds to them that what the request in flight read is still so
  (`InFlight`), and that every token goes back to an issued one of an existing
  account (`HistoriesSound`), without which a new sign-in could share a history.

`NumberingProofs`, for any organizations, days, billing dates, number of slots and
of retries:

- `NumberingInvariance`, and from it `NumberingTypeCorrect`, `RetriesArePaid` and
  `NumbersAreGapless`. `RetriesPaid` is not inductive, for a failure is counted
  when the insertion fails while the rival commits earlier: `RivalsCounted` says
  that a number that is taken at the insertion has been counted as a rival's
  already. `Gapless` needs `DrawnInOrder`: what a request has drawn comes right
  after numbers that are there, or is one of them. A drawn number never runs ahead,
  because the reads see committed numbers only.
- `NumbersGivenOnce`: no number is committed for a request that is committed already.
  `HeldFree` carries it from the insertion of an order to its commit: a flushed number
  is nobody else's, flushed or committed, because every other insertion of it waits
  in the unique index and typed numbers belong to invoices.
- `GivingUpTakesRivals`: a request whose customer is there gives up only when as many
  rivals as it has attempts committed the numbers it drew.
- `TotalsAlwaysAddUp` and `DiscountAlwaysToTheCent`: for every amount and discount,
  net and discount add up to the gross amount to the cent, the net is not
  negative, and the discount is the exact one to the nearest cent. `InvoiceTotals` is
  a pure function: no run checks it, the proofs cover every amount.

`CustomersProofs`, for any customers, organizations, orders, codes and slots, in
every interleaving: `CustomersInvariance`, and from it `CustomersTypeCorrect`,
`LinksAlwaysHold`, `OnlyRivalsTakeCodes`, `DeletionsLook` and `TrailAlwaysTells`.
`Inv` (checked by `customers`) adds what a request carries: a customer of the organization it acts for that
exists or is its own (`Carried`), and, if it is about the status, another status
than it saw, without which a stale commit might record what it does not write.
`TrailAlwaysTells` has the exception of the audit log: until the next entry about it, a
customer that is `outrun` may have another status than the newest listed entry tells.

`ImportProofs`, for any registers, tables, aliases, runs and edits of the web:

- `ImportTypeCorrect`, and `ExistingDataPreserved`: a run overwrites no field of an
  existing customer but one the web wrote behind its back. `SeenTrue` says that what
  is blank on the object the session holds is blank in the table, but for what the
  web wrote since.
- `GstNumbersUnique` and `HandledLinesFound`, with the hypothesis
  `KeysFromRegisters`: the web's forms and edits bring no keys. `NoRivalGst` says
  that a line that is about to write a GST number has no rival for it, `FoundByKey`
  that a line shares a key with the customer it found, `ImportedFound` that what
  committed runs handled is found among the committed rows, which is what a crash
  leaves.
- `ColumnsReadOnce` (`ColumnsClaimedOnce`): no column is read under two fields. This is
  a fact about `HeaderMap`, for every list of headers and every table of aliases
  (`HeaderMapOnce`): each field takes one column at most (`ClaimsOnce`), and none that
  an earlier field has taken.

Assumptions on constants are named (`DirectoryAssumption`, `WorkOrdersAssumption`,
`EmployeesAssumption`, `SessionsAssumption`, `CustomersAssumption`,
`NumberingAssumption`, `TotalsAssumption`, `ImportAssumption`) and checked by TLC in
the passing runs: ids of different
kinds differ from NULL, the seeded rows are well typed, a row that does not exist
yet has no content, a seeded deleted account is inactive, an organization starts
with one customer or none, the first run of the import finds no GST number twice.

Every invariant and action property of the passing runs is the statement of a
theorem, with the hypotheses named above where it needs any; those hypotheses are
the ones of its run. `NumberGivenOnce`, `GivenUpToRivals` and the empty `outrun` of
`SerialLogInOrder` are proved only: no run lists them. Only model-checked is `Answered`: liveness and ENABLED are beyond the
prover. So is induction over data, which nothing here needs: no module has a recursive
operator, and `HeaderMap` goes through the seven fields one by one.

## Not modelled

- Read marks of the notification inbox: a mark is one UPDATE of one's own rows, and
  the unread count is computed from them.
- The dashboard, the listings, searches and statistics: they only read.
- The schema migrations, with the backfills in 0005, 0007 and 0013: run once by an
  operator while the service is stopped.
- `seed_demo`, which fills an empty database with samples.
- Reading spreadsheets from files or over HTTP, and finding the header row beneath
  banners: a register is what that yields, or nothing.
- Routing, error envelopes, settings, logging, hashing and signatures.

## Plan

1. `Office`: `WorkOrders` and `Employees` on one users table: does a deleted account
   hold active orders, and are they still told to somebody who can sign in?
2. `Inbox`: read marks against new notifications.
3. Proofs: that orders interleaved with others implement a weaker lifecycle, which
   names the edges a stale commit adds; that the numbers implement an abstract
   dispenser; the codes of customers across a run of the import.
