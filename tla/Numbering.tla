------------------------------ MODULE Numbering ------------------------------
(***************************************************************************)
(* The numbers of work orders (app/features/work_orders) and of invoices   *)
(* (app/features/invoicing): WO-YYYYMMDD-NN per organization and day,      *)
(* INV-YYYYMMDD-NNN per invoice date.                                      *)
(*                                                                         *)
(* next_number() draws the successor of the largest number it can see; a   *)
(* unique constraint is what keeps two requests from using one number, and *)
(* the loser draws again, five times at most.  An order is flushed with    *)
(* its number before it commits: until then another insertion of the same  *)
(* number waits in the unique index.                                       *)
(***************************************************************************)
EXTENDS Naturals, FiniteSets

CONSTANTS
    Slot,         \* requests that can be in flight at once
    OrderBook,    \* the organizations: each numbers its own orders
    InvoiceBook,  \* the one series of invoices, which knows no tenants
    Sequence,     \* the sequence numbers of a day: 1..n
    LastDay,      \* the days are 1..LastDay
    BillingDays,  \* the dates that invoices are given
    Retries,      \* _MAX_NUMBER_RETRIES
    TypedUpTo     \* bound on the numbers that clients type

Book == OrderBook \cup InvoiceBook
Day == 1..LastDay

\* What a number looks like: as next_number spells it, or "-7" instead of "-007".
Form == {"generated", "typed"}

Entry == [seq: Sequence, form: Form]

ASSUME NumberingAssumption ==
    /\ Sequence \subseteq Nat \ {0}
    /\ OrderBook \cap InvoiceBook = {}
    /\ LastDay \in Nat \ {0}
    /\ BillingDays \subseteq Day
    /\ Retries \in Nat \ {0}
    /\ TypedUpTo \in Nat

VARIABLES
    today,        \* the date of datetime.now(timezone.utc)
    taken,        \* the committed numbers of each book and day
    reshaped,     \* the series in which a number was deleted or typed
    reqs          \* the requests that allocate a number

vars == <<today, taken, reshaped, reqs>>

-----------------------------------------------------------------------------

Series == Book \X Day

(***************************************************************************)
(* "insert": next_number has answered; "held": flushed, not committed.  An *)
(* order dangles when its customer was deleted after it was checked.  For  *)
(* the properties a request remembers its failed insertions, and how often *)
(* somebody else has committed the number it had drawn.                    *)
(***************************************************************************)
Request == [phase: {"idle", "insert", "held"}, series: Series \cup {<<>>},
            number: Sequence \cup {0}, failures: 0..Retries - 1, rivals: 0..Retries,
            dangling: BOOLEAN]

Idle == [phase |-> "idle", series |-> <<>>, number |-> 0, failures |-> 0, rivals |-> 0,
         dangling |-> FALSE]

TypeOK ==
    /\ today \in Day
    /\ taken \in [Series -> SUBSET Entry]
    /\ reshaped \subseteq Series
    /\ reqs \in [Slot -> Request]

Busy(s) == reqs[s].phase # "idle"

\* A request in flight has a series, and a number in it.
Underway ==
    \A s \in Slot : Busy(s) => reqs[s].series \in Series /\ reqs[s].number \in Sequence

Init ==
    /\ today = 1
    /\ taken = [series \in Series |-> {}]
    /\ reshaped = {}
    /\ reqs = [s \in Slot |-> Idle]

-----------------------------------------------------------------------------
(* The numbers of a series.                                                *)

Numbers(series) == {e.seq : e \in taken[series]}

Generated(n) == [seq |-> n, form |-> "generated"]

\* Mutant: the numbers of today are read, whatever the date of the invoice.
IsNextToday(n, series) ==
    LET seen == Numbers(<<series[1], today>>) IN
    /\ n - 1 \in seen \cup {0}
    /\ \A m \in seen : m < n

\* Mutant: the prefix is matched without its date.
IsNextOfBook(n, series) ==
    LET seen == UNION {Numbers(<<series[1], d>>) : d \in Day} IN
    /\ n - 1 \in seen \cup {0}
    /\ \A m \in seen : m < n

\* max_seq + 1 of the committed numbers, in whatever form.
IsNext(n, series) ==
    /\ n - 1 \in Numbers(series) \cup {0}
    /\ \A m \in Numbers(series) : m < n

\* Another request has flushed the number and not committed.
HeldByOther(s) ==
    \E t \in Slot \ {s} :
        /\ reqs[t].phase = "held"
        /\ reqs[t].series = reqs[s].series /\ reqs[t].number = reqs[s].number

(***************************************************************************)
(* A bound: a request begins only where the numbers drawn from now on stay *)
(* within Sequence.                                                        *)
(***************************************************************************)
Room(book) ==
    LET drawn == {reqs[t].number : t \in {t \in Slot : Busy(t) /\ reqs[t].series[1] = book}} IN
    \A day \in Day : \A n \in Numbers(<<book, day>>) \cup drawn :
        n + Cardinality(Slot) \in Sequence

-----------------------------------------------------------------------------
(* Requests.                                                               *)

(***************************************************************************)
(* next_number, called by a request that is then r but for the number.     *)
(***************************************************************************)
Draw(s, r) ==
    \E n \in Sequence :
        /\ IsNext(n, r.series)
        /\ reqs' = [reqs EXCEPT ![s] = [r EXCEPT !.number = n]]
        /\ UNCHANGED <<today, taken, reshaped>>

Begun(book, day) == [Idle EXCEPT !.phase = "insert", !.series = <<book, day>>]

\* WorkOrderService.create, once the customer has been found: numbered for today.
BeginOrder(s) ==
    \E org \in OrderBook : ~Busy(s) /\ Room(org) /\ Draw(s, Begun(org, today))

\* InvoiceService.create without a number: numbered for its own date.
BeginInvoice(s) ==
    \E book \in InvoiceBook, day \in BillingDays :
        ~Busy(s) /\ Room(book) /\ Draw(s, Begun(book, day))

\* The number is committed in series: whoever has drawn it there has a rival.
Rivalled(series, n) ==
    [t \in Slot |->
        IF reqs[t].phase = "insert" /\ reqs[t].series = series /\ reqs[t].number = n
             /\ reqs[t].rivals < Retries
          THEN [reqs[t] EXCEPT !.rivals = @ + 1]
          ELSE reqs[t]]

Free(s) ==
    /\ ~HeldByOther(s)
    /\ Generated(reqs[s].number) \notin taken[reqs[s].series]
    /\ ~reqs[s].dangling

\* The flush of an order that the constraints let pass.
InsertOrder(s) ==
    /\ reqs[s].phase = "insert" /\ reqs[s].series[1] \in OrderBook
    /\ Free(s)
    /\ reqs' = [reqs EXCEPT ![s].phase = "held"]
    /\ UNCHANGED <<today, taken, reshaped>>

\* The number lands and the request is answered.
Land(s) ==
    LET series == reqs[s].series IN
    /\ taken' = [taken EXCEPT ![series] = @ \cup {Generated(reqs[s].number)}]
    /\ reqs' = [Rivalled(series, reqs[s].number) EXCEPT ![s] = Idle]
    /\ UNCHANGED <<today, reshaped>>

CommitOrder(s) == reqs[s].phase = "held" /\ Land(s)

\* An invoice is inserted and committed in one call.
CommitInvoice(s) ==
    /\ reqs[s].phase = "insert" /\ reqs[s].series[1] \in InvoiceBook
    /\ Free(s)
    /\ Land(s)

\* Mutant: the attempt is not counted.
SameCount(failures) == failures

\* Mutant: the attempt is counted where it fails and again by the loop.
CountedTwice(failures) == failures + 2

\* for attempt in range(_MAX_NUMBER_RETRIES)
Counted(failures) == failures + 1

(***************************************************************************)
(* IntegrityError, which is taken for a collision: the number is there, or *)
(* it is not but the order's foreign key fails.  The session rolls back    *)
(* and the next attempt draws again.                                       *)
(***************************************************************************)
Refused(s) ==
    /\ reqs[s].phase = "insert"
    /\ ~HeldByOther(s)
    /\ ~Free(s)

\* The next attempt of an order may fall on the next day.
SeriesOfAttempt(s) ==
    LET series == reqs[s].series IN
    IF series[1] \in OrderBook THEN <<series[1], today>> ELSE series

Collide(s) ==
    /\ Refused(s)
    /\ reqs[s].failures + 1 < Retries
    /\ Draw(s, [reqs[s] EXCEPT !.series = SeriesOfAttempt(s), !.failures = Counted(@)])

\* The last attempt failed: the request is answered with an error.
GiveUp(s) ==
    /\ Refused(s)
    /\ reqs[s].failures + 1 = Retries
    /\ reqs' = [reqs EXCEPT ![s] = Idle]
    /\ UNCHANGED <<today, taken, reshaped>>

\* The connection drops: the session rolls back, a number it held is free again.
Abort(s) ==
    /\ Busy(s)
    /\ reqs' = [reqs EXCEPT ![s] = Idle]
    /\ UNCHANGED <<today, taken, reshaped>>

-----------------------------------------------------------------------------
(* What else happens to the numbers.                                       *)

\* InvoiceService.create with a number; a duplicate is a conflict and changes nothing.
TypeInvoice ==
    \E book \in InvoiceBook, day \in BillingDays, e \in Entry :
        LET series == <<book, day>> IN
        /\ e.seq <= TypedUpTo
        /\ e \notin taken[series]
        /\ taken' = [taken EXCEPT ![series] = @ \cup {e}]
        /\ reshaped' = reshaped \cup {series}
        /\ reqs' = IF e.form = "generated" THEN Rivalled(series, e.seq) ELSE reqs
        /\ UNCHANGED today

\* WorkOrderService.delete: the number is free again.  Invoices are never deleted.
DeleteOrder ==
    \E org \in OrderBook, day \in Day :
        LET series == <<org, day>> IN
        \E e \in taken[series] :
            /\ taken' = [taken EXCEPT ![series] = @ \ {e}]
            /\ reshaped' = reshaped \cup {series}
            /\ UNCHANGED <<today, reqs>>

\* CustomerService.delete has committed since the order's customer was found: felt at the flush.
CustomerGone(s) ==
    /\ reqs[s].phase = "insert" /\ ~reqs[s].dangling /\ reqs[s].series[1] \in OrderBook
    /\ reqs' = [reqs EXCEPT ![s].dangling = TRUE]
    /\ UNCHANGED <<today, taken, reshaped>>

Midnight ==
    /\ today < LastDay
    /\ today' = today + 1
    /\ UNCHANGED <<taken, reshaped, reqs>>

-----------------------------------------------------------------------------

\* What a request does once it has begun, as long as its connection lasts.
Serve(s) ==
    \/ InsertOrder(s) \/ CommitOrder(s) \/ CommitInvoice(s)
    \/ Collide(s) \/ GiveUp(s)

Next ==
    \/ \E s \in Slot :
         \/ BeginOrder(s) \/ BeginInvoice(s) \/ Serve(s) \/ Abort(s) \/ CustomerGone(s)
    \/ TypeInvoice \/ DeleteOrder \/ Midnight

(***************************************************************************)
(* A request runs in a thread of its own, which goes on; when the holder   *)
(* of a number ends, PostgreSQL wakes the requests that wait for it, so    *)
(* one that waits again and again is served in the end.  Nothing is        *)
(* assumed of the clients, nor that anybody is cut off.                    *)
(***************************************************************************)
Spec == Init /\ [][Next]_vars

FairSpec == Spec /\ \A s \in Slot : SF_vars(Serve(s))

-----------------------------------------------------------------------------
(* Properties.                                                             *)

(***************************************************************************)
(* A retry is the fault of somebody else: each failed insertion was paid   *)
(* for by another request that committed the number drawn between the draw *)
(* and the insertion.  So five attempts fail only against five rivals, or  *)
(* when the order's customer has gone.                                     *)
(***************************************************************************)
RetriesPaid ==
    \A s \in Slot : ~reqs[s].dangling => reqs[s].failures <= reqs[s].rivals

(***************************************************************************)
(* "The sequence resets every calendar day", and however requests race,    *)
(* collide or are cut off, the numbers of a day are 1, 2, 3 and so on      *)
(* without a hole, as long as none is deleted or typed.                    *)
(***************************************************************************)
Gapless ==
    \A series \in Series \ reshaped :
        \A n \in Numbers(series) : \A m \in 1..n : m \in Numbers(series)

(***************************************************************************)
(* No number is given twice: none that is committed for a request is there *)
(* already, although the check and the commit of an order are two steps    *)
(* and other requests and typed numbers come between.                      *)
(***************************************************************************)
NumberGivenOnce ==
    [][\A s \in Slot : CommitOrder(s) \/ CommitInvoice(s) =>
            Generated(reqs[s].number) \notin taken[reqs[s].series]]_vars

(***************************************************************************)
(* A request whose customer is there gives up only when Retries numbers    *)
(* that it drew were committed by others.                                  *)
(***************************************************************************)
GivenUpToRivals ==
    [][\A s \in Slot : GiveUp(s) /\ ~reqs[s].dangling => reqs[s].rivals = Retries]_vars

(***************************************************************************)
(* Every request is answered, with a number or an error: the retries end   *)
(* and no waiting for a number held by another request lasts.              *)
(***************************************************************************)
Answered == \A s \in Slot : Busy(s) ~> ~Busy(s)

-----------------------------------------------------------------------------
(* Why it holds.                                                           *)

\* A number that somebody took after it was drawn has been counted as a rival.
RivalsCounted ==
    \A s \in Slot :
        LET r == reqs[s] IN
        r.phase = "insert" /\ ~r.dangling /\ Generated(r.number) \in taken[r.series]
            => r.failures < r.rivals

\* What is drawn comes right after numbers that are there, or is one of them.
DrawnInOrder ==
    \A s \in Slot :
        Busy(s) /\ reqs[s].series \notin reshaped =>
            \A m \in 1..reqs[s].number - 1 : m \in Numbers(reqs[s].series)

\* A flushed number of an order is neither committed nor flushed by anybody else.
HeldFree ==
    \A s \in Slot : reqs[s].phase = "held" =>
        /\ reqs[s].series[1] \in OrderBook
        /\ Generated(reqs[s].number) \notin taken[reqs[s].series]
        /\ ~HeldByOther(s)

\* Of what was drawn and how often it failed.
RetryInv ==
    /\ Underway
    /\ RetriesPaid /\ RivalsCounted
    /\ Gapless /\ DrawnInOrder

(***************************************************************************)
(* The inductive invariant of the proofs, beside the types.                *)
(***************************************************************************)
Inv == RetryInv /\ HeldFree

=============================================================================
