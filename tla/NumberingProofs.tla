--------------------------- MODULE NumberingProofs ---------------------------
(***************************************************************************)
(* Theorems about Numbering, for every set of books, days, sequences and   *)
(* requests and every number of retries, and about InvoiceTotals, for      *)
(* every amount and discount.                                              *)
(***************************************************************************)
EXTENDS Numbering, InvoiceTotals, TLAPS

-----------------------------------------------------------------------------
(* Type correctness.                                                       *)


LEMMA DrawTypeOK ==
    ASSUME TypeOK, Underway, NEW s \in Slot, NEW r \in Request, r.series \in Series,
           Draw(s, r)
    PROVE  TypeOK' /\ Underway'
<1>1. PICK n \in Sequence : reqs' = [reqs EXCEPT ![s] = [r EXCEPT !.number = n]]
  BY DEF Draw
<1> DEFINE q == [r EXCEPT !.number = n]
<1>2. q \in Request /\ q.series = r.series /\ q.number = n
  BY DEF Request
<1>3. reqs' = [reqs EXCEPT ![s] = q]
  BY <1>1
<1> HIDE DEF q
<1>4. reqs' \in [Slot -> Request]
  BY <1>2, <1>3 DEF TypeOK
<1>5. TypeOK'
  BY <1>4 DEF TypeOK, Draw
<1>6. Underway'
  BY <1>2, <1>3 DEF Underway, Busy, TypeOK
<1>7. QED
  BY <1>5, <1>6

LEMMA RivalledTypeOK ==
    ASSUME TypeOK, NEW series, NEW n
    PROVE  /\ Rivalled(series, n) \in [Slot -> Request]
           /\ \A t \in Slot :
                LET q == Rivalled(series, n)[t] IN
                /\ q.phase = reqs[t].phase /\ q.series = reqs[t].series
                /\ q.number = reqs[t].number /\ q.failures = reqs[t].failures
                /\ q.dangling = reqs[t].dangling
                /\ q.rivals >= reqs[t].rivals
                /\ reqs[t].phase = "insert" /\ reqs[t].series = series /\ reqs[t].number = n
                     => q.rivals > q.failures \/ q.failures > reqs[t].rivals
<1> SUFFICES ASSUME NEW t \in Slot
             PROVE  LET q == Rivalled(series, n)[t] IN
                    /\ q \in Request
                    /\ q.phase = reqs[t].phase /\ q.series = reqs[t].series
                    /\ q.number = reqs[t].number /\ q.failures = reqs[t].failures
                    /\ q.dangling = reqs[t].dangling
                    /\ q.rivals >= reqs[t].rivals
                    /\ reqs[t].phase = "insert" /\ reqs[t].series = series
                         /\ reqs[t].number = n
                         => q.rivals > q.failures \/ q.failures > reqs[t].rivals
  BY DEF Rivalled
<1>1. reqs[t] \in Request /\ Retries \in Nat
  BY NumberingAssumption DEF TypeOK
<1>2. CASE reqs[t].phase = "insert" /\ reqs[t].series = series /\ reqs[t].number = n
             /\ reqs[t].rivals < Retries
  <2>1. Rivalled(series, n)[t] = [reqs[t] EXCEPT !.rivals = @ + 1]
    BY <1>2 DEF Rivalled
  <2>2. QED
    BY <1>1, <1>2, <2>1 DEF Request
<1>3. CASE ~(reqs[t].phase = "insert" /\ reqs[t].series = series /\ reqs[t].number = n
             /\ reqs[t].rivals < Retries)
  <2>1. Rivalled(series, n)[t] = reqs[t]
    BY <1>3 DEF Rivalled
  <2>2. QED
    BY <1>1, <1>3, <2>1 DEF Request
<1>4. QED
  BY <1>2, <1>3

-----------------------------------------------------------------------------
(* The steps.                                                              *)

LEMMA DrawInv ==
    ASSUME TypeOK, RetryInv, NEW s \in Slot, NEW r \in Request, r.series \in Series,
           r.phase = "insert", ~r.dangling => r.failures <= r.rivals, Draw(s, r)
    PROVE  TypeOK' /\ RetryInv'
<1>1. PICK n \in Sequence :
        /\ IsNext(n, r.series)
        /\ reqs' = [reqs EXCEPT ![s] = [r EXCEPT !.number = n]]
        /\ UNCHANGED <<today, taken, reshaped>>
  BY DEF Draw
<1> DEFINE q == [r EXCEPT !.number = n]
<1>2. /\ q \in Request /\ q.series = r.series /\ q.number = n /\ q.phase = "insert"
      /\ q.failures = r.failures /\ q.rivals = r.rivals /\ q.dangling = r.dangling
  BY DEF Request
<1>3. reqs' = [reqs EXCEPT ![s] = q]
  BY <1>1
<1> HIDE DEF q
<1>4. TypeOK' /\ Underway'
  BY DrawTypeOK DEF RetryInv
<1>5. reqs'[s] = q /\ \A t \in Slot \ {s} : reqs'[t] = reqs[t]
  BY <1>3 DEF TypeOK
<1>6. /\ Gapless'
      /\ \A series \in Series : Numbers(series)' = Numbers(series)
  BY <1>1 DEF RetryInv, Gapless, Numbers
<1>7. n \in Nat \ {0} /\ Numbers(r.series) \subseteq Nat \ {0}
  <2>1. taken[r.series] \subseteq Entry
    BY DEF TypeOK
  <2>2. \A e \in taken[r.series] : e.seq \in Nat \ {0}
    BY <2>1, NumberingAssumption DEF Entry
  <2>3. QED
    BY <2>2, NumberingAssumption DEF Numbers
<1>8. RetriesPaid'
  BY <1>2, <1>5 DEF RetryInv, RetriesPaid
<1>9. RivalsCounted'
  <2>1. n \notin Numbers(r.series)
    BY <1>1, <1>7 DEF IsNext
  <2>2. Generated(n) \notin taken[r.series]
    BY <2>1 DEF Numbers, Generated
  <2>3. QED
    BY <1>1, <1>2, <1>5, <2>2 DEF RetryInv, RivalsCounted
<1>10. DrawnInOrder'
  <2>1. ASSUME r.series \notin reshaped, NEW m \in 1..n - 1 PROVE m \in Numbers(r.series)
    <3>1. n - 1 \in Numbers(r.series)
      BY <1>1, <1>7, <2>1 DEF IsNext
    <3>2. QED
      BY <1>7, <2>1, <3>1 DEF RetryInv, Gapless
  <2>2. QED
    BY <1>1, <1>2, <1>4, <1>5, <1>6, <2>1 DEF RetryInv, DrawnInOrder, Underway, Busy
<1>11. QED
  BY <1>4, <1>6, <1>8, <1>9, <1>10 DEF RetryInv

LEMMA EndInv ==
    ASSUME TypeOK, RetryInv, NEW s \in Slot, reqs' = [reqs EXCEPT ![s] = Idle],
           UNCHANGED <<today, taken, reshaped>>
    PROVE  TypeOK' /\ RetryInv'
<1>1. Idle \in Request
  BY NumberingAssumption DEF Idle, Request
<1>2. reqs'[s] = Idle /\ \A t \in Slot \ {s} : reqs'[t] = reqs[t]
  BY DEF TypeOK
<1>3. TypeOK'
  BY <1>1 DEF TypeOK
<1>4. Underway' /\ DrawnInOrder'
  BY <1>2 DEF RetryInv, Underway, DrawnInOrder, Busy, Idle, Numbers
<1>5. RetriesPaid' /\ RivalsCounted'
  BY <1>2 DEF RetryInv, RetriesPaid, RivalsCounted, Idle
<1>6. Gapless'
  BY DEF RetryInv, Gapless, Numbers
<1>7. QED
  BY <1>3, <1>4, <1>5, <1>6 DEF RetryInv

(***************************************************************************)
(* A number lands: q is what the requests are then, but for the one that   *)
(* has been answered, if it was a request at all.                          *)
(***************************************************************************)
LEMMA LandedInv ==
    ASSUME TypeOK, RetryInv, NEW series \in Series, NEW e \in Entry, NEW answered \in SUBSET Slot,
           taken' = [taken EXCEPT ![series] = @ \cup {e}],
           today' = today, reshaped' \in SUBSET Series, reshaped \subseteq reshaped',
           reqs' = [t \in Slot |->
                      IF t \in answered THEN Idle
                      ELSE IF e.form = "generated" THEN Rivalled(series, e.seq)[t]
                      ELSE reqs[t]],
           series \notin reshaped' => \A m \in 1..e.seq - 1 : m \in Numbers(series)
    PROVE  TypeOK' /\ RetryInv'
<1> USE NumberingAssumption
<1>1. Idle \in Request /\ ~(Idle.phase # "idle") /\ Idle.failures <= Idle.rivals
  BY DEF Idle, Request
<1>2. /\ Rivalled(series, e.seq) \in [Slot -> Request]
      /\ \A t \in Slot :
           LET q == Rivalled(series, e.seq)[t] IN
           /\ q.phase = reqs[t].phase /\ q.series = reqs[t].series
           /\ q.number = reqs[t].number /\ q.failures = reqs[t].failures
           /\ q.dangling = reqs[t].dangling
           /\ q.rivals >= reqs[t].rivals
           /\ reqs[t].phase = "insert" /\ reqs[t].series = series
                /\ reqs[t].number = e.seq
                => q.rivals > q.failures \/ q.failures > reqs[t].rivals
  BY RivalledTypeOK
<1>3. TypeOK'
  BY <1>1, <1>2 DEF TypeOK
<1>4. /\ Numbers(series)' = Numbers(series) \cup {e.seq}
      /\ \A other \in Series \ {series} : Numbers(other)' = Numbers(other)
  BY DEF Numbers, TypeOK
<1>5. ASSUME NEW t \in Slot, t \notin answered
      PROVE  /\ reqs'[t].phase = reqs[t].phase /\ reqs'[t].series = reqs[t].series
             /\ reqs'[t].number = reqs[t].number /\ reqs'[t].failures = reqs[t].failures
             /\ reqs'[t].dangling = reqs[t].dangling /\ reqs'[t].rivals >= reqs[t].rivals
             /\ reqs[t] \in Request /\ reqs'[t] \in Request
  BY <1>2, <1>3, <1>5 DEF TypeOK, Request
<1>6. \A t \in answered : reqs'[t] = Idle
  OBVIOUS
<1>7. Underway'
  BY <1>1, <1>5, <1>6 DEF RetryInv, Underway, Busy
<1>8. RetriesPaid'
  BY <1>1, <1>5, <1>6 DEF RetryInv, RetriesPaid, Request
<1>9. RivalsCounted'
  <2> SUFFICES ASSUME NEW t \in Slot, reqs'[t].phase = "insert", ~reqs'[t].dangling,
                      Generated(reqs'[t].number) \in taken'[reqs'[t].series]
               PROVE  reqs'[t].failures < reqs'[t].rivals
    BY DEF RivalsCounted, Generated
  <2>1. t \notin answered
    BY <1>1, <1>6
  <2>2. reqs[t].series \in Series /\ reqs[t].failures <= reqs[t].rivals
    BY <1>5, <2>1 DEF RetryInv, Underway, Busy, RetriesPaid
  <2>3. CASE Generated(reqs[t].number) \in taken[reqs[t].series]
    BY <1>5, <2>1, <2>3 DEF RetryInv, RivalsCounted, Request
  <2>4. CASE Generated(reqs[t].number) \notin taken[reqs[t].series]
    <3>1. reqs[t].series = series /\ Generated(reqs[t].number) = e
      BY <1>5, <2>1, <2>2, <2>4 DEF TypeOK
    <3>2. e.form = "generated" /\ e.seq = reqs[t].number
      BY <3>1 DEF Generated
    <3>3. reqs'[t] = Rivalled(series, e.seq)[t]
      BY <2>1, <3>2
    <3>4. /\ reqs[t].phase = "insert" /\ reqs[t].number = e.seq
          /\ reqs'[t].failures = reqs[t].failures
          /\ reqs[t].failures \in Nat /\ reqs[t].rivals \in Nat
          /\ reqs'[t].rivals \in Nat
      BY <1>5, <2>1, <3>2 DEF Request
    <3>5. \/ reqs'[t].rivals > reqs'[t].failures
          \/ reqs'[t].failures > reqs[t].rivals
      BY <1>2, <3>1, <3>3, <3>4
    <3>6. QED
      BY <2>2, <3>4, <3>5
  <2>5. QED
    BY <2>3, <2>4
<1>10. Gapless'
  <2>1. ASSUME NEW other \in Series, other \notin reshaped', NEW n \in Numbers(other)',
               NEW m \in 1..n
        PROVE  m \in Numbers(other)'
    <3>1. other \notin reshaped /\ Numbers(other) \subseteq Numbers(other)'
      BY <1>4, <2>1
    <3>2. CASE n \in Numbers(other)
      BY <2>1, <3>1, <3>2 DEF RetryInv, Gapless
    <3>3. CASE n \notin Numbers(other)
      <4>1. other = series /\ n = e.seq /\ n \in Nat
        BY <1>4, <2>1, <3>3 DEF Entry
      <4>2. m = n \/ m \in 1..n - 1
        BY <4>1
      <4>3. QED
        BY <1>4, <2>1, <4>1, <4>2
    <3>4. QED
      BY <3>2, <3>3
  <2>2. QED
    BY <2>1 DEF Gapless
<1>11. DrawnInOrder'
  BY <1>1, <1>4, <1>5, <1>6 DEF RetryInv, DrawnInOrder, Underway, Busy
<1>12. QED
  BY <1>3, <1>7, <1>8, <1>9, <1>10, <1>11 DEF RetryInv

-----------------------------------------------------------------------------
(* The invariant.                                                          *)

LEMMA LandInv ==
    ASSUME TypeOK, RetryInv, NEW s \in Slot, Busy(s), Land(s)
    PROVE  TypeOK' /\ RetryInv'
<1> DEFINE series == reqs[s].series
           e == Generated(reqs[s].number)
<1>1. series \in Series /\ e \in Entry /\ e.form = "generated" /\ e.seq = reqs[s].number
  BY DEF RetryInv, Underway, Generated, Entry, Form
<1>2. reqs' = [t \in Slot |->
                 IF t \in {s} THEN Idle
                 ELSE IF e.form = "generated" THEN Rivalled(series, e.seq)[t]
                 ELSE reqs[t]]
  BY <1>1 DEF Land, Rivalled
<1>3. taken' = [taken EXCEPT ![series] = @ \cup {e}] /\ today' = today /\ reshaped' = reshaped
  BY DEF Land
<1>4. series \notin reshaped => \A m \in 1..e.seq - 1 : m \in Numbers(series)
  BY <1>1 DEF RetryInv, DrawnInOrder
<1>5. reshaped' \in SUBSET Series /\ reshaped \subseteq reshaped' /\ {s} \in SUBSET Slot
  BY <1>3 DEF TypeOK
<1>6. series \notin reshaped' => \A m \in 1..e.seq - 1 : m \in Numbers(series)
  BY <1>3, <1>4
<1> HIDE DEF series, e
<1>7. QED
  BY <1>1, <1>2, <1>3, <1>5, <1>6, LandedInv

LEMMA TypedInv ==
    ASSUME TypeOK, RetryInv, TypeInvoice
    PROVE  TypeOK' /\ RetryInv'
<1>1. PICK book \in InvoiceBook, day \in BillingDays, e \in Entry :
        LET series == <<book, day>> IN
        /\ taken' = [taken EXCEPT ![series] = @ \cup {e}]
        /\ reshaped' = reshaped \cup {series}
        /\ reqs' = IF e.form = "generated" THEN Rivalled(series, e.seq) ELSE reqs
        /\ today' = today
  BY DEF TypeInvoice
<1> DEFINE series == <<book, day>>
<1>2. series \in Series
  BY NumberingAssumption DEF Series, Book
<1>3. reqs' = [t \in Slot |->
                 IF t \in {} THEN Idle
                 ELSE IF e.form = "generated" THEN Rivalled(series, e.seq)[t]
                 ELSE reqs[t]]
  BY <1>1 DEF Rivalled, TypeOK
<1>4. /\ taken' = [taken EXCEPT ![series] = @ \cup {e}] /\ today' = today
      /\ reshaped' \in SUBSET Series /\ reshaped \subseteq reshaped' /\ series \in reshaped'
  BY <1>1, <1>2 DEF TypeOK
<1>5. {} \in SUBSET Slot
  OBVIOUS
<1> HIDE DEF series
<1>6. QED
  BY <1>2, <1>3, <1>4, <1>5, LandedInv

\* A request is marked: it keeps its series and its number, and the tables are left alone.
LEMMA MarkInv ==
    ASSUME TypeOK, RetryInv, UNCHANGED <<taken, reshaped>>,
           \A t \in Slot : /\ reqs'[t].series = reqs[t].series
                           /\ reqs'[t].number = reqs[t].number
                           /\ Busy(t)' => Busy(t)
    PROVE  Underway' /\ DrawnInOrder' /\ Gapless'
<1>1. Underway'
  BY DEF RetryInv, Underway, Busy
<1>2. DrawnInOrder'
  BY DEF RetryInv, DrawnInOrder, Busy, Numbers
<1>3. Gapless'
  BY DEF RetryInv, Gapless, Numbers
<1>4. QED
  BY <1>1, <1>2, <1>3

LEMMA SlotStep ==
    ASSUME TypeOK, RetryInv, NEW s \in Slot,
           \/ BeginOrder(s) \/ BeginInvoice(s) \/ Serve(s) \/ Abort(s) \/ CustomerGone(s)
    PROVE  TypeOK' /\ RetryInv'
<1> USE NumberingAssumption
<1>0. reqs[s] \in Request
  BY DEF TypeOK
<1>1. ASSUME NEW book \in Book, NEW day \in Day
      PROVE  LET r == Begun(book, day) IN
             /\ r \in Request /\ r.series \in Series /\ r.phase = "insert"
             /\ r.failures <= r.rivals
  <2>1. Idle \in Request /\ Idle.failures = 0 /\ Idle.rivals = 0
    BY DEF Idle, Request
  <2>2. <<book, day>> \in Series
    BY DEF Series
  <2>3. PICK series : series = <<book, day>>
    OBVIOUS
  <2>4. Begun(book, day) = [Idle EXCEPT !.phase = "insert", !.series = series]
    BY <2>3 DEF Begun
  <2>5. series \in Series
    BY <2>2, <2>3
  <2>6. Begun(book, day) = [phase |-> "insert", series |-> series, number |-> 0,
                            failures |-> 0, rivals |-> 0, dangling |-> FALSE]
    BY <2>4 DEF Idle
  <2>7. 0 \in 0..Retries - 1 /\ 0 \in 0..Retries
    OBVIOUS
  <2>8. Begun(book, day) \in Request
    BY <2>5, <2>6, <2>7 DEF Request
  <2>9. QED
    BY <2>5, <2>6, <2>8
<1>2. CASE BeginOrder(s)
  <2>1. PICK org \in OrderBook : Draw(s, Begun(org, today))
    BY <1>2 DEF BeginOrder
  <2>2. org \in Book /\ today \in Day
    BY DEF Book, TypeOK
  <2>3. QED
    BY <1>1, <2>1, <2>2, DrawInv
<1>3. CASE BeginInvoice(s)
  <2>1. PICK book \in InvoiceBook, day \in BillingDays : Draw(s, Begun(book, day))
    BY <1>3 DEF BeginInvoice
  <2>2. book \in Book /\ day \in Day
    BY DEF Book
  <2>3. QED
    BY <1>1, <2>1, <2>2, DrawInv
<1>4. CASE InsertOrder(s)
  <2>1. /\ reqs' = [reqs EXCEPT ![s].phase = "held"] /\ reqs[s].phase = "insert"
        /\ UNCHANGED <<today, taken, reshaped>>
    BY <1>4 DEF InsertOrder
  <2>2. TypeOK'
    BY <1>0, <2>1 DEF TypeOK, Request
  <2>3. \A t \in Slot : /\ reqs'[t] = IF t = s THEN [reqs[s] EXCEPT !.phase = "held"]
                                      ELSE reqs[t]
                       /\ reqs[t] \in Request
    BY <2>1 DEF TypeOK
  <2>4. \A t \in Slot : /\ reqs'[t].series = reqs[t].series
                        /\ reqs'[t].number = reqs[t].number
                        /\ Busy(t)' => Busy(t)
    BY <2>1, <2>3 DEF Busy, Request
  <2>5. Underway' /\ DrawnInOrder' /\ Gapless'
    BY <2>1, <2>4, MarkInv
  <2>6. RetriesPaid' /\ RivalsCounted'
    BY <2>1, <2>3 DEF RetryInv, RetriesPaid, RivalsCounted, Request
  <2>7. QED
    BY <2>2, <2>5, <2>6 DEF RetryInv
<1>5. CASE CommitOrder(s)
  BY <1>5, LandInv DEF CommitOrder, Busy
<1>6. CASE CommitInvoice(s)
  BY <1>6, LandInv DEF CommitInvoice, Busy
<1>7. CASE Collide(s)
  <2> DEFINE r == [reqs[s] EXCEPT !.series = SeriesOfAttempt(s),
                                  !.failures = Counted(reqs[s].failures)]
  <2>1. /\ Draw(s, r) /\ reqs[s].phase = "insert" /\ ~HeldByOther(s) /\ ~Free(s)
        /\ reqs[s].failures + 1 < Retries
    BY <1>7 DEF Collide, Refused
  <2>2. reqs[s].series \in Series /\ today \in Day
    BY <2>1 DEF RetryInv, Underway, Busy, TypeOK
  <2>3. SeriesOfAttempt(s) \in Series
    BY <2>2 DEF SeriesOfAttempt, Series, Book
  <2>4. /\ r \in Request /\ r.series = SeriesOfAttempt(s) /\ r.phase = "insert"
        /\ r.failures = reqs[s].failures + 1 /\ r.rivals = reqs[s].rivals
        /\ r.dangling = reqs[s].dangling
    <3>1. Counted(reqs[s].failures) = reqs[s].failures + 1
      BY DEF Counted
    <3>2. reqs[s].failures + 1 \in 0..Retries - 1
      BY <1>0, <2>1 DEF Request
    <3>3. QED
      BY <1>0, <2>1, <2>3, <3>1, <3>2 DEF Request
  <2>5. ~r.dangling => r.failures <= r.rivals
    BY <1>0, <2>1, <2>4 DEF Free, RetryInv, RivalsCounted, Request
  <2> HIDE DEF r
  <2>6. QED
    BY <2>1, <2>3, <2>4, <2>5, DrawInv
<1>8. CASE GiveUp(s)
  BY <1>8, EndInv DEF GiveUp
<1>9. CASE Abort(s)
  BY <1>9, EndInv DEF Abort
<1>10. CASE CustomerGone(s)
  <2>1. reqs' = [reqs EXCEPT ![s].dangling = TRUE] /\ UNCHANGED <<today, taken, reshaped>>
    BY <1>10 DEF CustomerGone
  <2>2. TypeOK'
    BY <1>0, <2>1 DEF TypeOK, Request
  <2>3. \A t \in Slot : /\ reqs'[t] = IF t = s THEN [reqs[s] EXCEPT !.dangling = TRUE]
                                      ELSE reqs[t]
                       /\ reqs[t] \in Request
    BY <2>1 DEF TypeOK
  <2>4. \A t \in Slot : /\ reqs'[t].series = reqs[t].series
                        /\ reqs'[t].number = reqs[t].number
                        /\ Busy(t)' => Busy(t)
    BY <2>1, <2>3 DEF Busy, Request
  <2>5. Underway' /\ DrawnInOrder' /\ Gapless'
    BY <2>1, <2>4, MarkInv
  <2>6. RetriesPaid' /\ RivalsCounted'
    BY <2>1, <2>3 DEF RetryInv, RetriesPaid, RivalsCounted, Request
  <2>7. QED
    BY <2>2, <2>5, <2>6 DEF RetryInv
<1>11. QED
  BY <1>2, <1>3, <1>4, <1>5, <1>6, <1>7, <1>8, <1>9, <1>10 DEF Serve

LEMMA OtherStep ==
    ASSUME TypeOK, RetryInv, TypeInvoice \/ DeleteOrder \/ Midnight
    PROVE  TypeOK' /\ RetryInv'
<1> USE NumberingAssumption
<1>1. CASE TypeInvoice
  BY <1>1, TypedInv
<1>2. CASE DeleteOrder
  <2>1. PICK org \in OrderBook, day \in Day :
          \E e \in taken[<<org, day>>] :
             /\ taken' = [taken EXCEPT ![<<org, day>>] = @ \ {e}]
             /\ reshaped' = reshaped \cup {<<org, day>>}
             /\ UNCHANGED <<today, reqs>>
    BY <1>2 DEF DeleteOrder
  <2> DEFINE series == <<org, day>>
  <2>2. series \in Series
    BY DEF Series, Book
  <2>3. PICK e \in taken[series] :
             /\ taken' = [taken EXCEPT ![series] = @ \ {e}]
             /\ reshaped' = reshaped \cup {series}
             /\ UNCHANGED <<today, reqs>>
    BY <2>1
  <2> HIDE DEF series
  <2>4. /\ \A other \in Series : taken'[other] \subseteq taken[other]
        /\ \A other \in Series \ reshaped' :
             other \notin reshaped /\ taken'[other] = taken[other]
    BY <2>2, <2>3 DEF TypeOK
  <2>5. TypeOK'
    BY <2>2, <2>3 DEF TypeOK
  <2>6. Underway' /\ RetriesPaid'
    BY <2>3 DEF RetryInv, Underway, RetriesPaid, Busy
  <2>7. RivalsCounted'
    <3>1. \A s \in Slot : reqs[s].phase = "insert" => reqs[s].series \in Series
      BY DEF RetryInv, Underway, Busy
    <3>2. QED
      BY <2>3, <2>4, <3>1 DEF RetryInv, RivalsCounted, Generated
  <2>8. Gapless'
    BY <2>4 DEF RetryInv, Gapless, Numbers
  <2>9. DrawnInOrder'
    BY <2>3, <2>4 DEF RetryInv, DrawnInOrder, Underway, Busy, Numbers
  <2>10. QED
    BY <2>5, <2>6, <2>7, <2>8, <2>9 DEF RetryInv
<1>3. CASE Midnight
  <2>1. TypeOK'
    BY <1>3 DEF Midnight, TypeOK, Day
  <2>2. RetryInv'
    BY <1>3 DEF Midnight, RetryInv, Underway, RetriesPaid, RivalsCounted, Gapless, DrawnInOrder,
                Busy, Numbers
  <2>3. QED
    BY <2>1, <2>2
<1>4. QED
  BY <1>1, <1>2, <1>3

-----------------------------------------------------------------------------
(* Numbers that are flushed and not committed.                             *)

\* Who holds a number held it before, and it has not been committed since.
LEMMA HeldKept ==
    ASSUME HeldFree,
           \A t \in Slot : reqs'[t].phase = "held" =>
               /\ reqs[t].phase = "held"
               /\ reqs'[t].series = reqs[t].series /\ reqs'[t].number = reqs[t].number
               /\ Generated(reqs[t].number) \notin taken'[reqs[t].series]
    PROVE  HeldFree'
<1> SUFFICES ASSUME NEW t \in Slot, reqs'[t].phase = "held"
             PROVE  /\ reqs'[t].series[1] \in OrderBook
                    /\ Generated(reqs'[t].number) \notin taken'[reqs'[t].series]
                    /\ ~HeldByOther(t)'
  BY DEF HeldFree, Generated
<1>1. reqs'[t].series[1] \in OrderBook /\ ~HeldByOther(t)
  BY DEF HeldFree
<1>2. ~HeldByOther(t)'
  BY <1>1 DEF HeldByOther
<1>3. QED
  BY <1>1, <1>2

\* A number lands that is not the one of an order somebody else holds.
LEMMA HeldBesideLanding ==
    ASSUME TypeOK, RetryInv, HeldFree, NEW series \in Series, NEW e \in Entry,
           taken' = [taken EXCEPT ![series] = @ \cup {e}],
           \A t \in Slot : reqs'[t].phase = "held" =>
               /\ reqs[t].phase = "held"
               /\ reqs'[t].series = reqs[t].series /\ reqs'[t].number = reqs[t].number
               /\ ~(reqs[t].series = series /\ Generated(reqs[t].number) = e)
    PROVE  HeldFree'
<1>1. ASSUME NEW t \in Slot, reqs'[t].phase = "held"
      PROVE  Generated(reqs[t].number) \notin taken'[reqs[t].series]
  <2>1. reqs[t].series \in Series /\ Generated(reqs[t].number) \notin taken[reqs[t].series]
    BY <1>1 DEF RetryInv, Underway, Busy, HeldFree
  <2>2. QED
    BY <1>1, <2>1 DEF TypeOK
<1>2. QED
  BY <1>1, HeldKept

LEMMA LandKeepsHeld ==
    ASSUME TypeOK, RetryInv, HeldFree, NEW s \in Slot, CommitOrder(s) \/ CommitInvoice(s)
    PROVE  HeldFree'
<1> DEFINE series == reqs[s].series
           e == Generated(reqs[s].number)
<1>1. Busy(s) /\ Land(s)
  BY DEF CommitOrder, CommitInvoice, Busy
<1>2. series \in Series /\ e \in Entry
  BY <1>1 DEF RetryInv, Underway, Generated, Entry, Form
<1>3. taken' = [taken EXCEPT ![series] = @ \cup {e}]
  BY <1>1 DEF Land
<1>4. /\ reqs'[s].phase = "idle"
      /\ \A t \in Slot \ {s} : /\ reqs'[t].phase = reqs[t].phase
                               /\ reqs'[t].series = reqs[t].series
                               /\ reqs'[t].number = reqs[t].number
  <2>1. reqs' = [Rivalled(series, reqs[s].number) EXCEPT ![s] = Idle]
    BY <1>1 DEF Land
  <2>2. QED
    BY <2>1, RivalledTypeOK DEF Idle
<1>5. ASSUME NEW t \in Slot \ {s}, reqs[t].phase = "held"
      PROVE  ~(reqs[t].series = series /\ Generated(reqs[t].number) = e)
  <2>1. ~HeldByOther(t) /\ ~(reqs[s].phase = "insert" /\ HeldByOther(s))
    BY <1>5 DEF HeldFree, CommitOrder, CommitInvoice, Free
  <2>2. reqs[s].phase \in {"insert", "held"}
    BY DEF CommitOrder, CommitInvoice
  <2>3. ~(reqs[t].series = reqs[s].series /\ reqs[t].number = reqs[s].number)
    BY <1>5, <2>1, <2>2 DEF HeldByOther
  <2>4. QED
    BY <2>3 DEF Generated
<1> HIDE DEF series, e
<1>6. \A t \in Slot : reqs'[t].phase = "held" =>
         /\ reqs[t].phase = "held"
         /\ reqs'[t].series = reqs[t].series /\ reqs'[t].number = reqs[t].number
         /\ ~(reqs[t].series = series /\ Generated(reqs[t].number) = e)
  BY <1>4, <1>5
<1>7. QED
  BY <1>2, <1>3, <1>6, HeldBesideLanding

LEMMA TypedKeepsHeld ==
    ASSUME TypeOK, RetryInv, HeldFree, TypeInvoice
    PROVE  HeldFree'
<1>1. PICK book \in InvoiceBook, day \in BillingDays, e \in Entry :
        LET series == <<book, day>> IN
        /\ taken' = [taken EXCEPT ![series] = @ \cup {e}]
        /\ reqs' = IF e.form = "generated" THEN Rivalled(series, e.seq) ELSE reqs
  BY DEF TypeInvoice
<1> DEFINE series == <<book, day>>
<1>2. series \in Series /\ series[1] \notin OrderBook
  BY NumberingAssumption DEF Series, Book
<1>3. taken' = [taken EXCEPT ![series] = @ \cup {e}]
  BY <1>1
<1>4. \A t \in Slot : /\ reqs'[t].phase = reqs[t].phase
                      /\ reqs'[t].series = reqs[t].series
                      /\ reqs'[t].number = reqs[t].number
  BY <1>1, RivalledTypeOK
<1> HIDE DEF series
<1>5. \A t \in Slot : reqs[t].phase = "held" => reqs[t].series # series
  BY <1>2 DEF HeldFree
<1>6. \A t \in Slot : reqs'[t].phase = "held" =>
         /\ reqs[t].phase = "held"
         /\ reqs'[t].series = reqs[t].series /\ reqs'[t].number = reqs[t].number
         /\ reqs[t].series # series
  BY <1>4, <1>5
<1>7. QED
  BY <1>2, <1>3, <1>6, HeldBesideLanding

LEMMA InsertKeepsHeld ==
    ASSUME TypeOK, HeldFree, NEW s \in Slot, InsertOrder(s)
    PROVE  HeldFree'
<1>1. /\ reqs' = [reqs EXCEPT ![s].phase = "held"] /\ taken' = taken
      /\ reqs[s].series[1] \in OrderBook /\ ~HeldByOther(s)
      /\ Generated(reqs[s].number) \notin taken[reqs[s].series]
  BY DEF InsertOrder, Free
<1>2. \A t \in Slot : reqs[t] \in Request
  BY DEF TypeOK
<1>3. \A t \in Slot : /\ reqs'[t].series = reqs[t].series
                      /\ reqs'[t].number = reqs[t].number
                      /\ t # s => reqs'[t].phase = reqs[t].phase
  BY <1>1, <1>2 DEF TypeOK, Request
<1> SUFFICES ASSUME NEW t \in Slot, reqs'[t].phase = "held"
             PROVE  /\ reqs'[t].series[1] \in OrderBook
                    /\ Generated(reqs'[t].number) \notin taken'[reqs'[t].series]
                    /\ ~HeldByOther(t)'
  BY DEF HeldFree, Generated
<1>4. CASE t = s
  <2>1. ~HeldByOther(s)'
    BY <1>1, <1>3 DEF HeldByOther
  <2>2. QED
    BY <1>1, <1>3, <1>4, <2>1
<1>5. CASE t # s
  <2>1. reqs[t].phase = "held"
    BY <1>3, <1>5
  <2>2. /\ reqs[t].series[1] \in OrderBook /\ ~HeldByOther(t)
        /\ Generated(reqs[t].number) \notin taken[reqs[t].series]
    BY <2>1 DEF HeldFree
  <2>3. ~(reqs[s].series = reqs[t].series /\ reqs[s].number = reqs[t].number)
    BY <1>1, <1>5, <2>1 DEF HeldByOther
  <2>4. ~HeldByOther(t)'
    BY <1>3, <2>2, <2>3 DEF HeldByOther
  <2>5. QED
    BY <1>1, <1>3, <2>2, <2>4
<1>6. QED
  BY <1>4, <1>5

LEMMA HeldFreeStep ==
    ASSUME TypeOK, RetryInv, HeldFree, [Next]_vars
    PROVE  HeldFree'
<1>1. ASSUME NEW s \in Slot, NEW q, q.phase # "held", reqs' = [reqs EXCEPT ![s] = q],
             taken' = taken
      PROVE  HeldFree'
  <2>1. reqs'[s] = q /\ \A t \in Slot \ {s} : reqs'[t] = reqs[t]
    BY <1>1 DEF TypeOK
  <2>2. QED
    BY <1>1, <2>1, HeldKept DEF HeldFree
<1>2. ASSUME NEW s \in Slot, NEW r, r.phase = "insert", Draw(s, r)
      PROVE  HeldFree'
  <2>1. PICK n \in Sequence : /\ reqs' = [reqs EXCEPT ![s] = [r EXCEPT !.number = n]]
                              /\ taken' = taken
    BY <1>2 DEF Draw
  <2>2. [r EXCEPT !.number = n].phase # "held"
    BY <1>2
  <2>3. QED
    BY <1>1, <2>1, <2>2
<1>3. Idle.phase = "idle" /\ \A book, day : Begun(book, day).phase = "insert"
  BY DEF Begun, Idle
<1>4. ASSUME NEW s \in Slot,
             \/ BeginOrder(s) \/ BeginInvoice(s) \/ Serve(s) \/ Abort(s) \/ CustomerGone(s)
      PROVE  HeldFree'
  <2>1. CASE BeginOrder(s) \/ BeginInvoice(s)
    BY <1>2, <1>3, <2>1 DEF BeginOrder, BeginInvoice
  <2>2. CASE InsertOrder(s)
    BY <2>2, InsertKeepsHeld
  <2>3. CASE CommitOrder(s) \/ CommitInvoice(s)
    BY <2>3, LandKeepsHeld
  <2>4. CASE Collide(s)
    <3> DEFINE r == [reqs[s] EXCEPT !.series = SeriesOfAttempt(s), !.failures = Counted(@)]
    <3>1. Draw(s, r) /\ reqs[s].phase = "insert" /\ reqs[s] \in Request
      BY <2>4 DEF Collide, Refused, TypeOK
    <3>2. r.phase = "insert"
      BY <3>1 DEF Request
    <3> HIDE DEF r
    <3>3. QED
      BY <1>2, <3>1, <3>2
  <2>5. CASE GiveUp(s) \/ Abort(s)
    BY <1>1, <1>3, <2>5 DEF GiveUp, Abort
  <2>6. CASE CustomerGone(s)
    <3>1. /\ reqs' = [reqs EXCEPT ![s] = [reqs[s] EXCEPT !.dangling = TRUE]]
          /\ reqs[s].phase = "insert" /\ reqs[s] \in Request /\ taken' = taken
      BY <2>6 DEF CustomerGone, TypeOK
    <3>2. [reqs[s] EXCEPT !.dangling = TRUE].phase # "held"
      BY <3>1 DEF Request
    <3>3. QED
      BY <1>1, <3>1, <3>2
  <2>7. QED
    BY <1>4, <2>1, <2>2, <2>3, <2>4, <2>5, <2>6 DEF Serve
<1>5. CASE TypeInvoice
  BY <1>5, TypedKeepsHeld
<1>6. CASE DeleteOrder
  <2>1. PICK org \in OrderBook, day \in Day :
          \E e \in taken[<<org, day>>] : /\ taken' = [taken EXCEPT ![<<org, day>>] = @ \ {e}]
                                         /\ reqs' = reqs
    BY <1>6 DEF DeleteOrder
  <2>2. \A series \in Series : taken'[series] \subseteq taken[series]
    BY <2>1 DEF TypeOK
  <2>3. \A t \in Slot : reqs[t].phase = "held" =>
           reqs[t].series \in Series /\ Generated(reqs[t].number) \notin taken[reqs[t].series]
    BY DEF RetryInv, Underway, Busy, HeldFree
  <2>4. QED
    BY <2>1, <2>2, <2>3, HeldKept
<1>7. CASE Midnight \/ UNCHANGED vars
  <2>1. taken' = taken /\ reqs' = reqs
    BY <1>7 DEF Midnight, vars
  <2>2. QED
    BY <2>1, HeldKept DEF HeldFree
<1>8. QED
  BY <1>4, <1>5, <1>6, <1>7 DEF Next

-----------------------------------------------------------------------------
(* The theorems.                                                           *)

(***************************************************************************)
(* The inductive invariant, in every interleaving: retries are paid for by *)
(* rivals, the numbers of a day are drawn and committed in order, and a    *)
(* flushed number is its holder's alone.                                   *)
(***************************************************************************)
THEOREM NumberingInvariance == Spec => [](TypeOK /\ Inv)
<1> USE NumberingAssumption
<1>1. Init => TypeOK /\ Inv
  BY DEF Init, Idle, Request, TypeOK, Day, Inv, RetryInv, Underway, RetriesPaid,
         RivalsCounted, Gapless, DrawnInOrder, HeldFree, Busy, Numbers
<1>2. TypeOK /\ Inv /\ [Next]_vars => TypeOK' /\ Inv'
  <2> SUFFICES ASSUME TypeOK, Inv, [Next]_vars PROVE TypeOK' /\ Inv'
    OBVIOUS
  <2>1. TypeOK' /\ RetryInv'
    <3>1. CASE Next
      BY <3>1, SlotStep, OtherStep DEF Next, Inv
    <3>2. CASE UNCHANGED vars
      BY <3>2 DEF vars, TypeOK, Inv, RetryInv, Underway, RetriesPaid, RivalsCounted,
                  Gapless, DrawnInOrder, Busy, Numbers
    <3>3. QED
      BY <3>1, <3>2
  <2>2. HeldFree'
    BY HeldFreeStep DEF Inv
  <2>3. QED
    BY <2>1, <2>2 DEF Inv
<1>3. QED
  BY <1>1, <1>2, PTL DEF Spec

(***************************************************************************)
(* Requests and numbers stay well typed in every interleaving.             *)
(***************************************************************************)
THEOREM NumberingTypeCorrect == Spec => []TypeOK
BY NumberingInvariance, PTL

(***************************************************************************)
(* However many requests allocate numbers, and however many retries they   *)
(* are given: every failed attempt was paid for by a rival.                *)
(***************************************************************************)
THEOREM RetriesArePaid == Spec => []RetriesPaid
<1>1. Inv => RetriesPaid
  BY DEF Inv, RetryInv
<1>2. QED
  BY <1>1, NumberingInvariance, PTL

(***************************************************************************)
(* The numbers of a day have no hole where none is deleted or typed.       *)
(***************************************************************************)
THEOREM NumbersAreGapless == Spec => []Gapless
<1>1. Inv => Gapless
  BY DEF Inv, RetryInv
<1>2. QED
  BY <1>1, NumberingInvariance, PTL

(***************************************************************************)
(* No number is given twice, whoever races, types or deletes numbers: a    *)
(* flushed one stays its holder's until that request ends.                 *)
(***************************************************************************)
THEOREM NumbersGivenOnce == Spec => NumberGivenOnce
<1> DEFINE Given == \A s \in Slot : CommitOrder(s) \/ CommitInvoice(s) =>
                        Generated(reqs[s].number) \notin taken[reqs[s].series]
<1>1. Inv => [Given]_vars
  BY DEF Inv, HeldFree, CommitOrder, CommitInvoice, Free
<1>2. Spec => [][Given]_vars
  BY <1>1, NumberingInvariance, PTL
<1>3. QED
  BY <1>2 DEF NumberGivenOnce

(***************************************************************************)
(* A request whose customer is there gives up only against as many rivals  *)
(* as it had attempts.                                                     *)
(***************************************************************************)
THEOREM GivingUpTakesRivals == Spec => GivenUpToRivals
<1> DEFINE Beaten == \A s \in Slot : GiveUp(s) /\ ~reqs[s].dangling =>
                         reqs[s].rivals = Retries
<1>1. TypeOK /\ Inv => Beaten
  <2> SUFFICES ASSUME TypeOK, Inv, NEW s \in Slot, GiveUp(s), ~reqs[s].dangling
               PROVE  reqs[s].rivals = Retries
    OBVIOUS
  <2>1. /\ reqs[s].phase = "insert" /\ reqs[s].failures + 1 = Retries
        /\ Generated(reqs[s].number) \in taken[reqs[s].series]
    BY DEF GiveUp, Refused, Free
  <2>2. reqs[s].failures < reqs[s].rivals
    BY <2>1 DEF Inv, RetryInv, RivalsCounted
  <2>3. reqs[s] \in Request /\ Retries \in Nat
    BY NumberingAssumption DEF TypeOK
  <2>4. QED
    BY <2>1, <2>2, <2>3 DEF Request
<1>2. TypeOK /\ Inv => [Beaten]_vars
  BY <1>1
<1>3. Spec => [][Beaten]_vars
  BY <1>2, NumberingInvariance, PTL
<1>4. QED
  BY <1>3 DEF GivenUpToRivals

-----------------------------------------------------------------------------
(* The totals of an invoice.                                               *)

LEMMA DivisionBounds ==
    ASSUME NEW a \in Nat, NEW b \in Nat \ {0}
    PROVE  a \div b \in Nat /\ b * (a \div b) <= a /\ a < b * (a \div b) + b
OBVIOUS

(***************************************************************************)
(* What rounding half up does to any gross and any discount.               *)
(***************************************************************************)
LEMMA HalfUp ==
    ASSUME NEW gross \in Nat, NEW percent \in 0..Whole
    PROVE  LET d == Discount(gross, percent)
               exact == gross * percent IN
           /\ d \in Nat /\ exact \in Nat
           /\ 2 * Whole * d <= 2 * exact + Whole
           /\ 2 * exact - Whole < 2 * Whole * d
           /\ d <= gross
<1> DEFINE exact == gross * percent
           a == 2 * exact + Whole
           d == a \div (2 * Whole)
<1>1. exact \in Nat /\ exact <= gross * Whole
  BY DEF Whole
<1>2. a \in Nat /\ 2 * Whole \in Nat \ {0}
  <2> HIDE DEF exact
  <2>1. QED
    BY <1>1 DEF Whole
<1>3. d \in Nat /\ 2 * Whole * d <= a /\ a < 2 * Whole * d + 2 * Whole
  BY <1>2, DivisionBounds
<1>4. 2 * gross * percent + Whole = a
  BY DEF Whole
<1>5. Discount(gross, percent) = d
  BY <1>4 DEF Discount
<1> HIDE DEF d, exact
<1>6. d <= gross
  BY <1>1, <1>3 DEF Whole
<1>7. QED
  BY <1>1, <1>3, <1>5, <1>6 DEF Whole, exact

(***************************************************************************)
(* The figures of an invoice add up, for all amounts and discounts.        *)
(***************************************************************************)
THEOREM TotalsAlwaysAddUp == TotalsAddUp
<1> SUFFICES ASSUME NEW services \in Amounts, NEW mca \in Amounts,
                    NEW percent \in Percentages
             PROVE  LET gross == Gross(services, mca) IN
                    /\ Net(gross, percent) + Discount(gross, percent) = services + mca
                    /\ Net(gross, percent) \in Nat
  BY DEF TotalsAddUp
<1>1. services \in Nat /\ mca \in Nat /\ percent \in 0..Whole
  BY TotalsAssumption
<1>2. Gross(services, mca) = services + mca /\ services + mca \in Nat
  BY <1>1 DEF Gross
<1>3. LET d == Discount(services + mca, percent) IN d \in Nat /\ d <= services + mca
  BY <1>1, <1>2, HalfUp
<1>4. QED
  BY <1>1, <1>2, <1>3 DEF Net

(***************************************************************************)
(* The discount is exact to the nearest cent, for all amounts.             *)
(***************************************************************************)
THEOREM DiscountAlwaysToTheCent == DiscountToTheCent
<1> SUFFICES ASSUME NEW services \in Amounts, NEW mca \in Amounts,
                    NEW percent \in Percentages
             PROVE  LET gross == Gross(services, mca)
                        twice == 2 * Whole * Discount(gross, percent)
                                   - 2 * gross * percent IN
                    /\ -Whole < twice /\ twice <= Whole
                    /\ percent = Whole => Net(gross, percent) = 0
                    /\ percent = 0 => Net(gross, percent) = gross
  BY DEF DiscountToTheCent
<1> DEFINE gross == Gross(services, mca)
           d == Discount(gross, percent)
<1>1. gross \in Nat /\ percent \in 0..Whole
  BY TotalsAssumption DEF Gross
<1>2. /\ d \in Nat /\ gross * percent \in Nat
      /\ 2 * Whole * d <= 2 * (gross * percent) + Whole
      /\ 2 * (gross * percent) - Whole < 2 * Whole * d
  BY <1>1, HalfUp
<1> HIDE DEF gross, d
<1>3. 2 * gross * percent = 2 * (gross * percent)
  BY <1>1 DEF Whole
<1>4. percent = Whole => d = gross
  BY <1>1, <1>2 DEF Whole
<1>5. percent = 0 => d = 0
  BY <1>1, <1>2 DEF Whole
<1>6. QED
  BY <1>1, <1>2, <1>3, <1>4, <1>5 DEF Net, d, gross, Whole

=============================================================================
