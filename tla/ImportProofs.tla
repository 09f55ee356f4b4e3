---------------------------- MODULE ImportProofs ----------------------------
(***************************************************************************)
(* Theorems about Import, for every pair of registers, every table the     *)
(* first run may find, and any number of runs.  What HeaderMap computes    *)
(* matters to ColumnsReadOnce alone: in the others the lines may say       *)
(* whatever they like.                                                     *)
(***************************************************************************)
EXTENDS Import, TLAPS

-----------------------------------------------------------------------------
(* What the lines say, and the steps of the run through them.              *)

LEMMA LineShape ==
    ASSUME NEW k, NEW i
    PROVE  <<k, i>> \in Line <=> /\ k \in 1..Len(registers)
                                 /\ i \in 1..Len(registers[k].lines)
BY DEF Line

LEMMA SaysFields ==
    ASSUME registers \in RegisterSets, NEW l \in Line
    PROVE  Says(l) \in Fields
<1>1. PICK k \in 1..Len(registers) : l \in {<<k, i>> : i \in 1..Len(registers[k].lines)}
  BY DEF Line
<1>2. PICK i \in 1..Len(registers[k].lines) : l = <<k, i>>
  BY <1>1
<1>3. registers \in Seq(Register)
  BY ImportAssumption
<1>4. registers[k] \in Register
  BY <1>3
<1>5. registers[k].lines[i] \in [Header -> Value \cup {Blank}]
  BY <1>4 DEF Register
<1>6. Says(l) = RowToFields(HeaderMaps[registers][k], registers[k].lines[i])
  BY <1>2 DEF Says, Sayings
<1>7. ASSUME NEW here, here # {}, here \subseteq DOMAIN registers[k].lines[i]
      PROVE  registers[k].lines[i][CHOOSE h \in here : TRUE] \in Value \cup {Blank}
  BY <1>5, <1>7
<1>8. QED
  BY <1>5, <1>6, <1>7 DEF RowToFields, Fields

LEMMA OffJob == Off \in Job /\ Off.phase = "off" /\ Off.found = None /\ Off.handled = {}
BY DEF Off, Job, Fields, NoFields

\* The jobs of Job, with what Advanced and Handled make of them.
LEMMA AdvancedJob ==
    ASSUME registers \in RegisterSets, NEW j \in Job, <<j.register, j.line>> \in Line
    PROVE  LET a == Advanced(j) IN
           /\ a \in Job
           /\ a.found = j.found /\ a.seen = j.seen /\ a.handled = j.handled
           /\ a.phase \in {"line", "open"}
           /\ a.phase = "line" => <<a.register, a.line>> \in Line
<1>1. /\ j.register \in 1..Len(registers) /\ j.line \in 1..Len(registers[j.register].lines)
      /\ j.register \in Nat /\ j.line \in Nat
  BY LineShape DEF Job
<1>2. Len(registers[j.register].lines) \in Nat
  <2>1. registers \in Seq(Register)
    BY ImportAssumption
  <2>2. registers[j.register] \in Register
    BY <1>1, <2>1
  <2>3. QED
    BY <2>2 DEF Register
<1>3. CASE j.line < Len(registers[j.register].lines)
  <2>1. PICK n \in Nat \ {0} : n = j.line + 1
    BY <1>1
  <2>2. <<j.register, n>> \in Line
    BY <1>1, <1>2, <1>3, <2>1, LineShape
  <2>3. PICK a : a = [j EXCEPT !.phase = "line", !.line = n, !.code = 0, !.upset = FALSE]
    OBVIOUS
  <2>4. /\ a \in Job /\ a.phase = "line" /\ a.register = j.register /\ a.line = n
        /\ a.found = j.found /\ a.seen = j.seen /\ a.handled = j.handled
    BY <2>3 DEF Job
  <2>5. Advanced(j) = a
    BY <1>3, <2>1, <2>3 DEF Advanced
  <2>6. QED
    BY <2>2, <2>4, <2>5
<1>4. CASE ~(j.line < Len(registers[j.register].lines))
  <2>1. PICK k \in Nat \ {0} : k = j.register + 1
    BY <1>1
  <2>6. PICK n \in Nat \ {0} : n = 1
    OBVIOUS
  <2>5. PICK a : a = [j EXCEPT !.phase = "open", !.register = k, !.line = n,
                               !.code = 0, !.upset = FALSE]
    OBVIOUS
  <2>2. /\ a \in Job /\ a.phase = "open"
        /\ a.found = j.found /\ a.seen = j.seen /\ a.handled = j.handled
    BY <2>5 DEF Job
  <2>3. Advanced(j) = a
    BY <1>4, <2>1, <2>5, <2>6 DEF Advanced
  <2>4. QED
    BY <2>2, <2>3
<1>5. QED
  BY <1>3, <1>4

LEMMA HandledJob ==
    ASSUME NEW j \in Job, <<j.register, j.line>> \in Line
    PROVE  LET h == Handled(j) IN
           /\ h \in Job
           /\ h.phase = j.phase /\ h.register = j.register /\ h.line = j.line
           /\ h.found = j.found /\ h.seen = j.seen
           /\ h.handled = IF j.upset THEN j.handled
                          ELSE j.handled \cup {<<j.register, j.line>>}
BY DEF Handled, Job

\* A line that a WRITE step ends.
LEMMA EndedJob ==
    ASSUME TypeOK, job.phase = "write", NEW seen \in Fields, NEW j,
           j = [job EXCEPT !.seen = seen]
    PROVE  LET a == Advanced(Handled(j)) IN
           /\ a \in Job
           /\ a.found = job.found /\ a.seen = seen
           /\ a.handled = IF job.upset THEN job.handled ELSE job.handled \cup {LineNow}
           /\ a.phase \in {"line", "open"}
           /\ a.phase = "line" => <<a.register, a.line>> \in Line
<1>1. job \in Job /\ LineNow \in Line /\ registers \in RegisterSets
  BY DEF TypeOK
<1>2. /\ j \in Job /\ j.register = job.register /\ j.line = job.line /\ j.upset = job.upset
      /\ j.handled = job.handled /\ j.found = job.found /\ j.seen = seen
  BY <1>1 DEF Job
<1>3. <<j.register, j.line>> \in Line
  BY <1>1, <1>2 DEF LineNow
<1>4. PICK h \in Job : h = Handled(j)
  BY <1>2, <1>3, HandledJob
<1>5. /\ h.register = j.register /\ h.line = j.line /\ h.found = j.found /\ h.seen = j.seen
      /\ h.handled = IF j.upset THEN j.handled ELSE j.handled \cup {<<j.register, j.line>>}
  BY <1>2, <1>3, <1>4, HandledJob
<1>6. <<h.register, h.line>> \in Line
  BY <1>3, <1>5
<1>7. QED
  BY <1>1, <1>2, <1>4, <1>5, <1>6, AdvancedJob DEF LineNow

\* ... of a creation or of an exact duplicate.
LEMMA EndedKeep ==
    ASSUME TypeOK, job.phase = "write", job' = Advanced(Handled(job))
    PROVE  /\ job' \in Job
           /\ job'.found = job.found /\ job'.seen = job.seen
           /\ job'.handled = IF job.upset THEN job.handled ELSE job.handled \cup {LineNow}
           /\ job'.phase \in {"line", "open"}
           /\ job'.phase = "line" => <<job'.register, job'.line>> \in Line
<1>1. PICK seen \in Fields : seen = job.seen
  BY DEF TypeOK, Job
<1>2. PICK j : j = [job EXCEPT !.seen = seen]
  OBVIOUS
<1>3. j = job
  BY <1>1, <1>2 DEF TypeOK, Job
<1>4. PICK a : a = Advanced(Handled(j))
  OBVIOUS
<1>5. QED
  BY <1>1, <1>2, <1>3, <1>4, EndedJob

LEMMA CreatedRow ==
    ASSUME TypeOK, Create
    PROVE  \E c \in Customer, row \in {r \in CustomerRow : r.life = "present"} :
             /\ Fresh(c)
             /\ draft' = [draft EXCEPT ![c] = row]
             /\ row.fields = Says(LineNow)
<1>1. job \in Job /\ Says(LineNow) \in Fields
  BY SaysFields DEF TypeOK, Create
<1>2. PICK c \in Customer :
        /\ Fresh(c)
        /\ draft' = [draft EXCEPT ![c] = [life |-> "present", code |-> job.code,
                                          fields |-> Says(LineNow)]]
  BY DEF Create
<1>3. PICK row : row = [life |-> "present", code |-> job.code, fields |-> Says(LineNow)]
  OBVIOUS
<1>4. row \in CustomerRow /\ row.life = "present" /\ row.fields = Says(LineNow)
  BY <1>1, <1>3 DEF Job, CustomerRow
<1>5. QED
  BY <1>2, <1>3, <1>4

-----------------------------------------------------------------------------
(* Type correctness.                                                       *)

LEMMA ViewRow == ASSUME TypeOK, NEW c \in Customer PROVE View(c) \in CustomerRow
BY DEF TypeOK, View

LEMMA AbsentRow == Absent \in CustomerRow /\ Absent.life = "absent"
BY DEF Absent, CustomerRow, Fields, NoFields

LEMMA FillEffect ==
    ASSUME TypeOK, Fill
    PROVE  LET c == job.found
               says == Says(LineNow)
               filled == Blanks(job.seen, says) IN
           /\ c \in Customer /\ View(c).life = "present"
           /\ draft' \in [Customer -> CustomerRow]
           /\ draft'[c].life = "present"
           /\ \A f \in Field : draft'[c].fields[f] = IF f \in filled THEN says[f]
                                                    ELSE View(c).fields[f]
           /\ \A d \in Customer \ {c} : draft'[d] = draft[d]
           /\ job' \in Job /\ job'.found = c
           /\ \A f \in Field : job'.seen[f] = IF f \in filled THEN says[f] ELSE job.seen[f]
           /\ job'.handled = IF job.upset THEN job.handled ELSE job.handled \cup {LineNow}
           /\ job'.phase \in {"line", "open"}
           /\ job'.phase = "line" => <<job'.register, job'.line>> \in Line
<1>1. job \in Job /\ LineNow \in Line /\ registers \in RegisterSets
  BY DEF TypeOK, Fill
<1>2. PICK c : c = job.found
  OBVIOUS
<1>3. c \in Customer /\ View(c) \in CustomerRow /\ View(c).life = "present"
  BY <1>1, <1>2, ViewRow DEF Fill, Job
<1>4. PICK says \in Fields : says = Says(LineNow)
  BY <1>1, SaysFields
<1>5. PICK filled : filled = Blanks(job.seen, says)
  OBVIOUS
<1>6. PICK over : over = [f \in Field |-> IF f \in filled THEN says[f] ELSE View(c).fields[f]]
  OBVIOUS
<1>7. over \in Fields
  BY <1>3, <1>4, <1>6 DEF Fields, CustomerRow
<1>8. PICK row : row = [View(c) EXCEPT !.fields = over]
  OBVIOUS
<1>9. row \in CustomerRow /\ row.life = "present" /\ row.fields = over
  BY <1>3, <1>7, <1>8 DEF CustomerRow
<1>10. draft' = [draft EXCEPT ![c] = row]
  BY <1>2, <1>4, <1>5, <1>6, <1>8 DEF Fill
<1>11. /\ draft' \in [Customer -> CustomerRow] /\ draft'[c] = row
       /\ \A d \in Customer \ {c} : draft'[d] = draft[d]
  BY <1>3, <1>9, <1>10 DEF TypeOK
<1>12. PICK seen : seen = [f \in Field |-> IF f \in filled THEN says[f] ELSE job.seen[f]]
  OBVIOUS
<1>13. seen \in Fields
  BY <1>1, <1>4, <1>12 DEF Fields, Job
<1>14. PICK j : j = [job EXCEPT !.seen = seen]
  OBVIOUS
<1>15. job' = Advanced(Handled(j))
  BY <1>4, <1>5, <1>12, <1>14 DEF Fill
<1>16. PICK a \in Job :
         /\ a = Advanced(Handled(j))
         /\ a.found = job.found /\ a.seen = seen
         /\ a.handled = IF job.upset THEN job.handled ELSE job.handled \cup {LineNow}
         /\ a.phase \in {"line", "open"}
         /\ a.phase = "line" => <<a.register, a.line>> \in Line
  <2>1. job.phase = "write"
    BY DEF Fill
  <2>2. PICK a : a = Advanced(Handled(j))
    OBVIOUS
  <2>3. QED
    BY <1>13, <1>14, <2>1, <2>2, EndedJob
<1>17. job' = a
  BY <1>15, <1>16
<1>18. \A f \in Field : job'.seen[f] = IF f \in filled THEN says[f] ELSE job.seen[f]
  BY <1>12, <1>16, <1>17
<1>19. \A f \in Field : draft'[c].fields[f] = IF f \in filled THEN says[f]
                                             ELSE View(c).fields[f]
  BY <1>6, <1>9, <1>11
<1>20. QED
  BY <1>2, <1>3, <1>4, <1>5, <1>9, <1>11, <1>16, <1>17, <1>18, <1>19

LEMMA UpsetJob ==
    ASSUME TypeOK, Upset, registers' = registers
    PROVE  /\ job' \in Job /\ job'.handled = {} /\ imported' = {}
           /\ job'.phase = job.phase /\ LineNow' = LineNow
           /\ job'.found = job.found /\ job'.seen = job.seen
           /\ job'.phase = "write" => job'.upset
<1>1. PICK b \in BOOLEAN : b = (job.phase = "write")
  OBVIOUS
<1>2. job' = [job EXCEPT !.handled = {}, !.upset = b]
  BY <1>1 DEF Upset
<1>3. QED
  BY <1>1, <1>2 DEF TypeOK, Job, LineNow, Upset

LEMMA TypeStep == TypeOK /\ [Next]_vars => TypeOK'
<1>0. ASSUME TypeOK, UNCHANGED vars PROVE TypeOK'
  <2>1. UNCHANGED <<registers, customers, draft, job, imported, raced, runs>>
    BY <1>0 DEF vars
  <2>2. Line' = Line /\ LineNow' = LineNow
    BY <2>1 DEF Line, LineNow
  <2>3. Job' = Job
    BY <2>2 DEF Job
  <2>4. QED
    BY <1>0, <2>1, <2>2, <2>3 DEF TypeOK
<1> SUFFICES ASSUME TypeOK, Next PROVE TypeOK'
  BY <1>0
<1>1. job \in Job /\ registers \in RegisterSets /\ imported \in SUBSET Line
  BY DEF TypeOK
<1>2. registers' = registers
  BY DEF Next, Start, PassOver, Open, SkipLine, Match, Create, Fill, Keep, LineFails, Commit,
         Crash, EnterCustomer, EditCustomer, DeleteCustomer
<1>3. Line' = Line /\ Job' = Job
  BY <1>2 DEF Line, Job
<1>4. SUFFICES /\ customers' \in [Customer -> CustomerRow]
               /\ draft' \in [Customer -> CustomerRow]
               /\ job' \in Job
               /\ job'.phase \in {"line", "write"} => LineNow' \in Line
               /\ imported' \in SUBSET Line
               /\ raced' \in [Customer -> SUBSET Field]
               /\ runs' \in 0..MaxRuns
  BY <1>1, <1>2, <1>3 DEF TypeOK
<1>5. CASE Start
  <2>1. job' \in Job /\ job'.phase = "open"
    BY <1>5, OffJob DEF Start, Job
  <2>2. QED
    BY <1>5, <2>1, ImportAssumption DEF Start, TypeOK
<1>6. CASE PassOver
  <2>1. job' \in Job /\ job'.phase = "open"
    BY <1>1, <1>6 DEF PassOver, Job
  <2>2. QED
    BY <1>6, <2>1 DEF PassOver, TypeOK
<1>7. CASE Open
  <2>6. PICK n \in Nat \ {0} : n = 1
    OBVIOUS
  <2>7. job' = [job EXCEPT !.phase = "line", !.line = n]
    BY <1>7, <2>6 DEF Open
  <2>1. job' \in Job /\ job'.register = job.register /\ job'.line = 1
    BY <1>1, <2>6, <2>7 DEF Job
  <2>2. registers \in Seq(Register)
    BY <1>1, ImportAssumption
  <2>8. job.register \in Nat \ {0} /\ job.register <= Len(registers)
    BY <1>1, <1>7 DEF Open, Job
  <2>3. PICK k \in 1..Len(registers) : k = job.register
    BY <2>2, <2>8
  <2>9. registers[k] \in Register
    BY <2>2
  <2>4. registers[k].lines \in Seq([Header -> Value \cup {Blank}]) /\ registers[k].lines # <<>>
    BY <1>7, <2>3, <2>9 DEF Register, Open
  <2>5. 1 \in 1..Len(registers[k].lines)
    BY <2>4
  <2>11. LineNow' \in Line
    BY <2>1, <2>3, <2>5, LineShape DEF LineNow
  <2>10. QED
    BY <1>7, <2>1, <2>11 DEF Open, TypeOK
<1>8. CASE SkipLine
  <2>1. LineNow \in Line
    BY <1>8 DEF SkipLine, TypeOK
  <2>2. job' \in Job /\ (job'.phase \in {"line", "write"} => LineNow' \in Line)
    BY <1>1, <1>8, <2>1, AdvancedJob DEF SkipLine, LineNow
  <2>3. QED
    BY <1>8, <2>2 DEF SkipLine, TypeOK
<1>9. CASE Match
  <2>1. LineNow \in Line
    BY <1>9 DEF Match, TypeOK
  <2>2. CASE \E c \in Duplicates(Says(LineNow)) :
               LET same == c = job.found IN
               /\ job' = [job EXCEPT !.phase = "write", !.found = c,
                                     !.seen = IF same THEN @ ELSE View(c).fields]
               /\ raced' = [d \in Customer |->
                              IF Written(d) \/ (d = c /\ same) THEN raced[d] ELSE {}]
    <3>1. PICK c \in Duplicates(Says(LineNow)) :
            /\ job' = [job EXCEPT !.phase = "write", !.found = c,
                                  !.seen = IF c = job.found THEN @ ELSE View(c).fields]
            /\ raced' = [d \in Customer |->
                           IF Written(d) \/ (d = c /\ c = job.found) THEN raced[d] ELSE {}]
      BY <2>2
    <3>2. c \in Customer
      BY DEF Duplicates
    <3>3. View(c).fields \in Fields
      BY <3>2, ViewRow DEF CustomerRow
    <3>4. PICK seen \in Fields : seen = IF c = job.found THEN job.seen ELSE View(c).fields
      BY <1>1, <3>3 DEF Job
    <3>5. job' = [job EXCEPT !.phase = "write", !.found = c, !.seen = seen]
      BY <3>1, <3>4
    <3>6. job' \in Job /\ job'.register = job.register /\ job'.line = job.line
      BY <1>1, <3>2, <3>5 DEF Job
    <3>7. raced' \in [Customer -> SUBSET Field]
      BY <3>1 DEF TypeOK
    <3>8. QED
      BY <1>9, <2>1, <3>6, <3>7 DEF Match, TypeOK, LineNow
  <2>3. CASE \E n \in Code :
               /\ job' = [job EXCEPT !.phase = "write", !.found = None, !.seen = NoFields,
                                     !.code = n]
               /\ UNCHANGED raced
    <3>1. PICK n \in Code :
            job' = [job EXCEPT !.phase = "write", !.found = None, !.seen = NoFields, !.code = n]
      BY <2>3
    <3>2. NoFields \in Fields
      BY DEF NoFields, Fields
    <3>3. job' \in Job /\ job'.register = job.register /\ job'.line = job.line
      BY <1>1, <3>1, <3>2 DEF Job
    <3>4. QED
      BY <1>9, <2>1, <2>3, <3>3 DEF Match, TypeOK, LineNow
  <2>4. QED
    BY <1>9, <2>2, <2>3 DEF Match
<1>10. CASE Create
  <2>1. job' \in Job /\ (job'.phase \in {"line", "write"} => LineNow' \in Line)
    BY <1>10, EndedKeep DEF Create, LineNow
  <2>2. draft' \in [Customer -> CustomerRow]
    BY <1>10, CreatedRow DEF TypeOK
  <2>3. QED
    BY <1>10, <2>1, <2>2 DEF Create, TypeOK
<1>11. CASE Fill
  <2>1. PICK a \in Job : a = job'
    BY <1>11, FillEffect
  <2>2. /\ draft' \in [Customer -> CustomerRow]
        /\ a.phase = "line" => <<a.register, a.line>> \in Line
        /\ a.phase \in {"line", "open"}
    BY <1>11, <2>1, FillEffect
  <2>3. QED
    BY <1>11, <2>1, <2>2 DEF Fill, TypeOK, LineNow
<1>12. CASE Keep
  <2>1. job' \in Job /\ (job'.phase \in {"line", "write"} => LineNow' \in Line)
    BY <1>12, EndedKeep DEF Keep, LineNow
  <2>2. QED
    BY <1>12, <2>1 DEF Keep, TypeOK
<1>13. CASE LineFails
  <2>1. LineNow \in Line
    BY <1>13 DEF LineFails, TypeOK
  <2>2. PICK j : j = [job EXCEPT !.found = None, !.seen = NoFields]
    OBVIOUS
  <2>3. j \in Job /\ j.register = job.register /\ j.line = job.line
    BY <1>1, <2>2 DEF Job, NoFields, Fields
  <2>4. job' \in Job /\ (job'.phase \in {"line", "write"} => LineNow' \in Line)
    BY <1>1, <1>13, <2>1, <2>2, <2>3, AdvancedJob DEF LineFails, LineNow
  <2>5. QED
    BY <1>13, <2>4 DEF LineFails, TypeOK
<1>14. CASE Commit
  <2>1. customers' \in [Customer -> CustomerRow]
    BY <1>14, ViewRow DEF Commit
  <2>2. job' \in Job /\ job'.phase = "off"
    BY <1>14, OffJob DEF Commit
  <2>3. imported' \in SUBSET Line
    BY <1>1, <1>14 DEF Commit, Job
  <2>4. QED
    BY <1>14, <2>1, <2>2, <2>3, AbsentRow DEF Commit, TypeOK
<1>15. CASE Crash
  BY <1>15, OffJob, AbsentRow DEF Crash, TypeOK
<1>16. CASE EnterCustomer
  <2>1. customers' \in [Customer -> CustomerRow]
    BY <1>16, ImportAssumption DEF EnterCustomer, TypeOK, CustomerRow
  <2>2. QED
    BY <1>16, <2>1 DEF EnterCustomer, TypeOK, LineNow
<1>17. CASE EditCustomer
  <2>1. PICK c \in Customer, f \in WebField, v \in Value \cup {Blank} :
          /\ customers' = [customers EXCEPT ![c].fields[f] = v]
          /\ raced' = IF job.found = c THEN [raced EXCEPT ![c] = @ \cup {f}] ELSE raced
          /\ IF f \in Key THEN Upset ELSE UNCHANGED <<job, imported>>
    BY <1>17 DEF EditCustomer
  <2>2. f \in Field
    BY ImportAssumption
  <2>3. customers' \in [Customer -> CustomerRow]
    BY <2>1, <2>2 DEF TypeOK, CustomerRow, Fields
  <2>4. raced' \in [Customer -> SUBSET Field]
    BY <2>1, <2>2 DEF TypeOK
  <2>5. CASE f \in Key
    BY <1>17, <2>1, <2>3, <2>4, <2>5, UpsetJob DEF EditCustomer, TypeOK
  <2>6. CASE f \notin Key
    BY <1>17, <2>1, <2>3, <2>4, <2>6 DEF EditCustomer, TypeOK, LineNow
  <2>7. QED
    BY <2>5, <2>6
<1>18. CASE DeleteCustomer
  <2>1. customers' \in [Customer -> CustomerRow]
    BY <1>18, AbsentRow DEF DeleteCustomer, TypeOK, Absent, CustomerRow
  <2>2. QED
    BY <1>18, <2>1, UpsetJob DEF DeleteCustomer, TypeOK
<1>19. QED
  BY <1>5, <1>6, <1>7, <1>8, <1>9, <1>10, <1>11, <1>12, <1>13, <1>14, <1>15, <1>16, <1>17,
     <1>18 DEF Next

\* The import and what the web does to it stay well typed.
THEOREM ImportTypeCorrect == Spec => []TypeOK
<1>1. Init => TypeOK
  BY ImportAssumption, OffJob, AbsentRow DEF Init, TypeOK
<1>2. QED
  BY <1>1, TypeStep, PTL DEF Spec

-----------------------------------------------------------------------------
(* The columns.                                                            *)

(***************************************************************************)
(* A field claims one column at most, and none that is claimed.            *)
(***************************************************************************)
LEMMA FirstInOne ==
    ASSUME NEW columns \in Seq(Header), NEW hs
    PROVE  /\ FirstIn(columns, hs) \subseteq hs
           /\ \A g, h \in FirstIn(columns, hs) : g = h
<1>1. ASSUME NEW i \in DOMAIN columns, NEW j \in DOMAIN columns,
             columns[i] \in hs, \A n \in 1..i-1 : columns[n] \notin hs,
             columns[j] \in hs, \A n \in 1..j-1 : columns[n] \notin hs
      PROVE  i = j
  BY <1>1
<1>2. QED
  BY <1>1 DEF FirstIn

LEMMA ClaimsOne ==
    ASSUME NEW columns \in Seq(Header), NEW claimed, NEW f
    PROVE  /\ Claims(columns, claimed, f) \cap claimed = {}
           /\ \A g, h \in Claims(columns, claimed, f) : g = h
BY FirstInOne DEF Claims

(***************************************************************************)
(* However the aliases of the fields overlap, _build_header_map gives a    *)
(* field one column at most, and a column to one field at most.            *)
(***************************************************************************)
LEMMA HeaderMapOnce ==
    ASSUME NEW columns \in Seq(Header)
    PROVE  LET map == HeaderMap(columns) IN
           /\ \A f \in Field : \A g, h \in map[f] : g = h
           /\ \A f, g \in Field : map[f] \cap map[g] # {} => f = g
<1> DEFINE gst    == Claims(columns, {}, "gst")
           pan    == Claims(columns, gst, "pan")
           second == Claims(columns, gst \cup pan, "second")
           mobile == Claims(columns, gst \cup pan \cup second, "mobile")
           email  == Claims(columns, gst \cup pan \cup second \cup mobile, "email")
           other  == Claims(columns, gst \cup pan \cup second \cup mobile \cup email, "other")
           name   == Claims(columns, gst \cup pan \cup second \cup mobile \cup email \cup other,
                            "name")
           map == [gst |-> gst, pan |-> pan, second |-> second, mobile |-> mobile,
                   email |-> email, other |-> other, name |-> name]
<1>1. /\ pan \cap gst = {}
      /\ second \cap (gst \cup pan) = {}
      /\ mobile \cap (gst \cup pan \cup second) = {}
      /\ email \cap (gst \cup pan \cup second \cup mobile) = {}
      /\ other \cap (gst \cup pan \cup second \cup mobile \cup email) = {}
      /\ name \cap (gst \cup pan \cup second \cup mobile \cup email \cup other) = {}
  BY ClaimsOne
<1>2. \A X \in {gst, pan, second, mobile, email, other, name} : \A g, h \in X : g = h
  BY ClaimsOne
<1>3. HeaderMap(columns) = map
  BY DEF HeaderMap
<1> HIDE DEF gst, pan, mobile, email, other, name
<1>4. \A f \in Field : map[f] \in {gst, pan, second, mobile, email, other, name}
  BY DEF Field
<1>5. ASSUME NEW f \in Field, NEW g \in Field, map[f] \cap map[g] # {} PROVE f = g
  <2>1. /\ map["gst"] = gst /\ map["pan"] = pan /\ map["second"] = second
        /\ map["mobile"] = mobile /\ map["email"] = email /\ map["other"] = other
        /\ map["name"] = name
    OBVIOUS
  <2> HIDE DEF map
  <2>2. PICK h : h \in map[f] /\ h \in map[g]
    BY <1>5
  <2>3. /\ h \in pan => h \notin gst
        /\ h \in second => h \notin gst /\ h \notin pan
        /\ h \in mobile => h \notin gst /\ h \notin pan /\ h \notin second
        /\ h \in email => h \notin gst /\ h \notin pan /\ h \notin second /\ h \notin mobile
        /\ h \in other => /\ h \notin gst /\ h \notin pan /\ h \notin second
                         /\ h \notin mobile /\ h \notin email
        /\ h \in name => /\ h \notin gst /\ h \notin pan /\ h \notin second
                        /\ h \notin mobile /\ h \notin email /\ h \notin other
    BY <1>1
  <2>4. QED
    BY <2>1, <2>2, <2>3 DEF Field
<1> HIDE DEF map
<1>6. QED
  BY <1>2, <1>3, <1>4, <1>5

(***************************************************************************)
(* No column of a register is read under two fields, whatever its headers  *)
(* and whatever the aliases.                                               *)
(***************************************************************************)
THEOREM ColumnsReadOnce == Spec => []ColumnsClaimedOnce
<1>1. TypeOK => ColumnsClaimedOnce
  <2> SUFFICES ASSUME TypeOK, job.phase = "line"
               PROVE  LET map == HeaderMaps[registers][job.register] IN
                      \A f, g \in Field : map[f] \cap map[g] # {} => f = g
    BY DEF ColumnsClaimedOnce
  <2> DEFINE k == job.register
  <2>1. k \in 1..Len(registers) /\ registers \in RegisterSets
    BY LineShape DEF TypeOK, LineNow
  <2>2. registers[k].headers \in Seq(Header)
    <3>1. registers \in Seq(Register)
      BY <2>1, ImportAssumption
    <3>2. registers[k] \in Register
      BY <2>1, <3>1
    <3>3. QED
      BY <3>2 DEF Register
  <2>3. HeaderMaps[registers][k] = HeaderMap(registers[k].headers)
    BY <2>1 DEF HeaderMaps
  <2>4. QED
    BY <2>2, <2>3, HeaderMapOnce
<1>2. QED
  BY <1>1, ImportTypeCorrect, PTL

-----------------------------------------------------------------------------
(* Existing data is preserved.                                             *)

LEMMA QuietInv ==
    ASSUME Inv, UNCHANGED <<customers, draft, raced>>,
           job'.found = None \/ (job'.found = job.found /\ job'.seen = job.seen)
    PROVE  Inv'
BY DEF Inv, RacedByWeb, SeenTrue, DraftHeld, Preserved, Written, View

\* The steps of the run that write no row.
LEMMA QuietStep ==
    ASSUME TypeOK, Inv, Start \/ PassOver \/ Open \/ SkipLine \/ Keep \/ LineFails
    PROVE  Inv'
<1>1. job \in Job
  BY DEF TypeOK
<1>2. CASE Start
  <2>1. job'.found = None
    BY <1>2 DEF Start, Off
  <2>2. QED
    BY <1>2, <2>1, QuietInv DEF Start
<1>3. CASE PassOver \/ Open
  <2>1. job'.found = job.found /\ job'.seen = job.seen
    BY <1>1, <1>3 DEF PassOver, Open, Job
  <2>2. QED
    BY <1>3, <2>1, QuietInv DEF PassOver, Open
<1>4. CASE SkipLine
  <2>1. <<job.register, job.line>> \in Line /\ registers \in RegisterSets
    BY <1>4 DEF SkipLine, TypeOK, LineNow
  <2>2. job'.found = job.found /\ job'.seen = job.seen
    BY <1>1, <1>4, <2>1, AdvancedJob DEF SkipLine
  <2>3. QED
    BY <1>4, <2>2, QuietInv DEF SkipLine
<1>5. CASE Keep
  <2>1. job'.found = job.found /\ job'.seen = job.seen
    BY <1>1, <1>5, EndedKeep DEF Keep
  <2>2. QED
    BY <1>5, <2>1, QuietInv DEF Keep
<1>6. CASE LineFails
  <2>1. job.phase = "write" /\ <<job.register, job.line>> \in Line /\ registers \in RegisterSets
    BY <1>6 DEF LineFails, TypeOK, LineNow
  <2>2. PICK j : j = [job EXCEPT !.found = None, !.seen = NoFields]
    OBVIOUS
  <2>3. j \in Job /\ j.register = job.register /\ j.line = job.line /\ j.found = None
    BY <1>1, <2>2 DEF Job, NoFields, Fields
  <2>4. job'.found = None
    BY <1>6, <2>1, <2>2, <2>3, AdvancedJob DEF LineFails
  <2>5. QED
    BY <1>6, <2>4, QuietInv DEF LineFails
<1>7. QED
  BY <1>2, <1>3, <1>4, <1>5, <1>6

LEMMA MatchInv == ASSUME TypeOK, Inv, Match PROVE Inv'
<1>1. UNCHANGED <<customers, draft>> /\ job \in Job
  BY DEF Match, TypeOK
<1>2. DraftHeld'
  BY <1>1 DEF Inv, DraftHeld, Written
<1>3. CASE \E c \in Duplicates(Says(LineNow)) :
             LET same == c = job.found IN
             /\ job' = [job EXCEPT !.phase = "write", !.found = c,
                                   !.seen = IF same THEN @ ELSE View(c).fields]
             /\ raced' = [d \in Customer |->
                            IF Written(d) \/ (d = c /\ same) THEN raced[d] ELSE {}]
  <2>1. PICK c \in Duplicates(Says(LineNow)) :
          /\ job' = [job EXCEPT !.phase = "write", !.found = c,
                                !.seen = IF c = job.found THEN @ ELSE View(c).fields]
          /\ raced' = [d \in Customer |->
                         IF Written(d) \/ (d = c /\ c = job.found) THEN raced[d] ELSE {}]
    BY <1>3
  <2>2. c \in Customer /\ View(c).life = "present"
    BY DEF Duplicates, Matching, Visible
  <2>3. job'.found = c /\ job'.seen = IF c = job.found THEN job.seen ELSE View(c).fields
    BY <1>1, <2>1 DEF Job
  <2>4. \A d \in Customer : raced'[d] \subseteq raced[d] /\ (Written(d) => raced'[d] = raced[d])
    BY <2>1
  <2>5. c = job.found => raced'[c] = raced[c]
    BY <2>1, <2>2
  <2>6. RacedByWeb'
    BY <2>4 DEF Inv, RacedByWeb
  <2>7. Preserved'
    BY <1>1, <2>4 DEF Inv, Preserved, Written
  <2>8. View(c)' = View(c)
    BY <1>1 DEF View, Written
  <2>9. \A f \in Field : job'.seen[f] = Blank => View(c).fields[f] = Blank \/ f \in raced'[c]
    <3>1. CASE c = job.found
      <4>1. c # None
        BY <2>2, ImportAssumption
      <4>2. QED
        BY <2>2, <2>3, <2>5, <3>1, <4>1 DEF Inv, SeenTrue
    <3>2. CASE c # job.found
      BY <2>3, <3>2
    <3>3. QED
      BY <3>1, <3>2
  <2>10. SeenTrue'
    BY <2>2, <2>3, <2>8, <2>9 DEF SeenTrue
  <2>11. QED
    BY <1>2, <2>6, <2>7, <2>10 DEF Inv
<1>4. CASE \E n \in Code :
             /\ job' = [job EXCEPT !.phase = "write", !.found = None, !.seen = NoFields,
                                   !.code = n]
             /\ UNCHANGED raced
  <2>1. job'.found = None
    BY <1>1, <1>4 DEF Job
  <2>2. QED
    BY <1>1, <1>4, <2>1, QuietInv
<1>5. QED
  BY <1>3, <1>4 DEF Match

LEMMA CreateInv == ASSUME TypeOK, Inv, Create PROVE Inv'
<1>1. job'.found = None
  BY EndedKeep DEF Create
<1>2. PICK c \in Customer, row \in {r \in CustomerRow : r.life = "present"} :
        /\ Fresh(c)
        /\ draft' = [draft EXCEPT ![c] = row]
  BY CreatedRow
<1>3. /\ draft'[c] = row /\ \A d \in Customer \ {c} : draft'[d] = draft[d]
      /\ UNCHANGED <<customers, raced>>
  BY <1>2 DEF TypeOK, Create
<1>4. RacedByWeb' /\ SeenTrue'
  BY <1>1, <1>3 DEF Inv, RacedByWeb, SeenTrue
<1>5. DraftHeld' /\ Preserved'
  BY <1>2, <1>3 DEF Inv, DraftHeld, Preserved, Written, Fresh
<1>6. QED
  BY <1>4, <1>5 DEF Inv

LEMMA FillInv == ASSUME TypeOK, Inv, Fill PROVE Inv'
<1>1. PICK c, says, filled : /\ c = job.found /\ says = Says(LineNow)
                             /\ filled = Blanks(job.seen, says)
  OBVIOUS
<1>2. /\ c \in Customer /\ View(c).life = "present"
      /\ draft'[c].life = "present"
      /\ \A f \in Field : draft'[c].fields[f] = IF f \in filled THEN says[f]
                                               ELSE View(c).fields[f]
      /\ \A d \in Customer \ {c} : draft'[d] = draft[d]
      /\ job'.found = c
      /\ \A f \in Field : job'.seen[f] = IF f \in filled THEN says[f] ELSE job.seen[f]
  BY <1>1, FillEffect
<1>3. UNCHANGED <<customers, raced>> /\ c # None
  BY <1>2, ImportAssumption DEF Fill
<1>4. \A f \in filled : f \in Field /\ says[f] # Blank /\ job.seen[f] = Blank
  BY <1>1 DEF Blanks
<1>5. \A f \in Field : job.seen[f] = Blank => View(c).fields[f] = Blank \/ f \in raced[c]
  BY <1>1, <1>2, <1>3 DEF Inv, SeenTrue
<1>6. RacedByWeb'
  BY <1>3 DEF Inv, RacedByWeb
<1>7. View(c)' = draft'[c]
  BY <1>2 DEF View, Written
<1>8. SeenTrue'
  BY <1>2, <1>3, <1>4, <1>5, <1>7 DEF SeenTrue
<1>9. DraftHeld'
  BY <1>2, <1>3 DEF Inv, DraftHeld, Written, View
<1>10. \A f \in Field : customers[c].life = "present"
                          /\ draft'[c].fields[f] # customers[c].fields[f]
                        => customers[c].fields[f] = Blank \/ f \in raced[c]
  BY <1>2, <1>4, <1>5 DEF Inv, Preserved, View, Written
<1>11. Preserved'
  BY <1>2, <1>3, <1>10 DEF Inv, Preserved, Written
<1>12. QED
  BY <1>6, <1>8, <1>9, <1>11 DEF Inv

\* The end of a run.
LEMMA EndInv == ASSUME TypeOK, Inv, Commit \/ Crash PROVE Inv'
<1>1. /\ \A c \in Customer : draft'[c] = Absent /\ raced'[c] = {}
      /\ job'.found = None
  BY OffJob DEF Commit, Crash
<1>2. QED
  BY <1>1, AbsentRow DEF Inv, RacedByWeb, SeenTrue, DraftHeld, Preserved, Written

\* What the web does.
LEMMA EnterInv == ASSUME TypeOK, Inv, EnterCustomer PROVE Inv'
<1>1. \E c \in Customer : \E row :
        Fresh(c) /\ row.life = "present" /\ customers' = [customers EXCEPT ![c] = row]
  <2>1. PICK c \in Customer, n \in Code, fields \in WebForms :
          /\ Fresh(c)
          /\ customers' = [customers EXCEPT ![c] = [life |-> "present", code |-> n,
                                                    fields |-> fields]]
    BY DEF EnterCustomer
  <2>2. PICK row : row = [life |-> "present", code |-> n, fields |-> fields]
    OBVIOUS
  <2>3. QED
    BY <2>1, <2>2
<1>2. PICK c \in Customer :
        \E row : Fresh(c) /\ row.life = "present" /\ customers' = [customers EXCEPT ![c] = row]
  BY <1>1
<1>3. PICK row :
         Fresh(c) /\ row.life = "present" /\ customers' = [customers EXCEPT ![c] = row]
  BY <1>2
<1>4. /\ UNCHANGED <<draft, job, raced>> /\ ~Written(c) /\ customers'[c] = row
      /\ \A d \in Customer \ {c} : customers'[d] = customers[d]
  BY <1>3 DEF EnterCustomer, TypeOK, Fresh, Written
<1>5. job.found # c /\ (job.found # None => job.found \in Customer)
  BY <1>3, <1>4, ImportAssumption DEF Inv, SeenTrue, View, Fresh, TypeOK, Job
<1>6. SeenTrue'
  BY <1>4, <1>5 DEF Inv, SeenTrue, View, Written
<1>7. RacedByWeb' /\ DraftHeld' /\ Preserved'
  BY <1>3, <1>4 DEF Inv, RacedByWeb, DraftHeld, Preserved, Written
<1>8. QED
  BY <1>6, <1>7 DEF Inv

LEMMA EditEffect ==
    ASSUME TypeOK, EditCustomer
    PROVE  \E c \in Customer, f \in WebField, v \in Value \cup {Blank} :
             /\ customers[c].life = "present" /\ ~Written(c)
             /\ customers'[c].life = "present" /\ customers'[c].fields[f] = v
             /\ \A g \in Field \ {f} : customers'[c].fields[g] = customers[c].fields[g]
             /\ \A d \in Customer \ {c} : customers'[d] = customers[d] /\ raced'[d] = raced[d]
             /\ raced'[c] = IF job.found = c THEN raced[c] \cup {f} ELSE raced[c]
             /\ job'.found = job.found /\ job'.seen = job.seen
             /\ UNCHANGED <<registers, draft>>
             /\ f \notin Key => UNCHANGED <<job, imported>>
<1>1. PICK c \in Customer, f \in WebField, v \in Value \cup {Blank} :
        /\ customers[c].life = "present" /\ ~Written(c)
        /\ customers' = [customers EXCEPT ![c].fields[f] = v]
        /\ raced' = IF job.found = c THEN [raced EXCEPT ![c] = @ \cup {f}] ELSE raced
        /\ IF f \in Key THEN Upset ELSE UNCHANGED <<job, imported>>
        /\ UNCHANGED <<registers, draft>>
  BY DEF EditCustomer
<1>2. f \in Field /\ customers[c] \in CustomerRow
  BY ImportAssumption DEF TypeOK
<1>3. PICK fields : fields = [customers[c].fields EXCEPT ![f] = v]
  OBVIOUS
<1>4. fields[f] = v /\ \A g \in Field \ {f} : fields[g] = customers[c].fields[g]
  BY <1>2, <1>3 DEF CustomerRow, Fields
<1>5. PICK row : row = [customers[c] EXCEPT !.fields = fields]
  OBVIOUS
<1>6. row.life = "present" /\ row.fields = fields
  BY <1>1, <1>2, <1>5 DEF CustomerRow
<1>7. customers' = [customers EXCEPT ![c] = row]
  BY <1>1, <1>3, <1>5
<1>8. customers'[c] = row /\ \A d \in Customer \ {c} : customers'[d] = customers[d]
  BY <1>7 DEF TypeOK
<1>9. /\ \A d \in Customer \ {c} : raced'[d] = raced[d]
      /\ raced'[c] = IF job.found = c THEN raced[c] \cup {f} ELSE raced[c]
  BY <1>1 DEF TypeOK
<1>10. job'.found = job.found /\ job'.seen = job.seen
  BY <1>1, UpsetJob
<1>11. QED
  BY <1>1, <1>4, <1>6, <1>8, <1>9, <1>10

LEMMA EditInv == ASSUME TypeOK, Inv, EditCustomer PROVE Inv'
<1>1. PICK c \in Customer, f \in WebField, v \in Value \cup {Blank} :
        /\ customers[c].life = "present" /\ ~Written(c)
        /\ customers'[c].life = "present" /\ customers'[c].fields[f] = v
        /\ \A g \in Field \ {f} : customers'[c].fields[g] = customers[c].fields[g]
        /\ \A d \in Customer \ {c} : customers'[d] = customers[d] /\ raced'[d] = raced[d]
        /\ raced'[c] = IF job.found = c THEN raced[c] \cup {f} ELSE raced[c]
        /\ job'.found = job.found /\ job'.seen = job.seen
        /\ UNCHANGED draft
  BY EditEffect
<1>2. RacedByWeb'
  BY <1>1 DEF Inv, RacedByWeb
<1>3. DraftHeld' /\ Preserved'
  BY <1>1 DEF Inv, DraftHeld, Preserved, Written
<1>4. job.found # None => job.found \in Customer
  BY DEF TypeOK, Job
<1>5. SeenTrue'
  BY <1>1, <1>4 DEF Inv, SeenTrue, View, Written
<1>6. QED
  BY <1>2, <1>3, <1>5 DEF Inv

LEMMA DeleteEffect ==
    ASSUME TypeOK, DeleteCustomer
    PROVE  /\ \E c \in Customer :
                /\ ~Written(c) /\ customers'[c].life = "deleted"
                /\ \A d \in Customer \ {c} : customers'[d] = customers[d]
           /\ UNCHANGED <<registers, draft, raced>> /\ Upset
<1>1. PICK c \in Customer :
        /\ ~Written(c)
        /\ customers' = [customers EXCEPT ![c] = [Absent EXCEPT !.life = "deleted"]]
  BY DEF DeleteCustomer
<1>2. PICK row : row = [Absent EXCEPT !.life = "deleted"]
  OBVIOUS
<1>3. row.life = "deleted"
  BY <1>2 DEF Absent
<1>4. QED
  BY <1>1, <1>2, <1>3 DEF TypeOK, DeleteCustomer

LEMMA DeleteInv == ASSUME TypeOK, Inv, DeleteCustomer PROVE Inv'
<1>1. PICK c \in Customer :
        /\ ~Written(c) /\ customers'[c].life = "deleted"
        /\ \A d \in Customer \ {c} : customers'[d] = customers[d]
  BY DeleteEffect
<1>2. /\ UNCHANGED <<draft, raced>> /\ job'.found = job.found /\ job'.seen = job.seen
      /\ job.found # None => job.found \in Customer
  BY DeleteEffect, UpsetJob DEF TypeOK, Job
<1>3. RacedByWeb' /\ DraftHeld' /\ Preserved'
  BY <1>1, <1>2 DEF Inv, RacedByWeb, DraftHeld, Preserved, Written
<1>4. SeenTrue'
  BY <1>1, <1>2 DEF Inv, SeenTrue, View, Written
<1>5. QED
  BY <1>3, <1>4 DEF Inv

LEMMA InvStep == TypeOK /\ Inv /\ [Next]_vars => Inv'
<1>1. CASE UNCHANGED vars
  BY <1>1 DEF vars, Inv, RacedByWeb, SeenTrue, DraftHeld, Preserved, Written, View
<1>2. QED
  BY <1>1, QuietStep, MatchInv, CreateInv, FillInv, EndInv, EnterInv, EditInv, DeleteInv DEF Next

\* Whatever the registers say and the web does meanwhile, a run overwrites nothing but what
\* the web wrote behind its back.
THEOREM ExistingDataPreserved == Spec => []Preserved
<1>1. Init => TypeOK /\ Inv
  BY ImportAssumption, OffJob, AbsentRow
     DEF Init, TypeOK, Inv, RacedByWeb, SeenTrue, DraftHeld, Preserved, Written
<1>2. Inv => Preserved
  BY DEF Inv
<1>3. QED
  BY <1>1, <1>2, TypeStep, InvStep, PTL DEF Spec

-----------------------------------------------------------------------------
(* No duplicates.                                                          *)

LEMMA KeyOrders == /\ \A i \in 1..4 : KeyOrder[i] \in Key
                   /\ KeyOrder[1] = "gst" /\ KeyOrder[2] = "pan"
                   /\ KeyOrder[3] = "mobile" /\ KeyOrder[4] = "email"
BY DEF KeyOrder, Key

\* find_duplicate finds by some key, by the GST number if that finds, and fails only
\* if no key finds.
LEMMA DuplicatesByKey ==
    ASSUME NEW fields
    PROVE  /\ \A c \in Duplicates(fields) : \E k \in Key : c \in Matching(k, fields[k])
           /\ Matching("gst", fields["gst"]) # {} =>
                Duplicates(fields) \subseteq Matching("gst", fields["gst"])
           /\ Duplicates(fields) = {} => \A k \in Key : Matching(k, fields[k]) = {}
<1> DEFINE M(i) == Matching(KeyOrder[i], fields[KeyOrder[i]])
<1>1. \A i \in 1..4 : M(i) \subseteq Customer
  BY DEF Matching, Visible
<1>2. Duplicates(fields) = {c \in Customer : \E i \in 1..4 :
                              c \in M(i) /\ \A j \in 1..i-1 : M(j) = {}}
  BY DEF Duplicates
<1>3. M(1) = Matching("gst", fields["gst"])
  BY KeyOrders
<1>4. \A c \in Duplicates(fields) : \E k \in Key : c \in Matching(k, fields[k])
  BY <1>2, KeyOrders
<1> HIDE DEF M
<1>5. M(1) # {} => Duplicates(fields) \subseteq M(1)
  <2> SUFFICES ASSUME M(1) # {}, NEW c \in Duplicates(fields) PROVE c \in M(1)
    OBVIOUS
  <2>1. PICK i \in 1..4 : c \in M(i) /\ \A j \in 1..i-1 : M(j) = {}
    BY <1>2
  <2>2. i # 1 => 1 \in 1..i-1
    OBVIOUS
  <2>3. QED
    BY <2>1, <2>2
<1>6. Duplicates(fields) = {} => \A i \in 1..4 : M(i) = {}
  <2> SUFFICES ASSUME Duplicates(fields) = {} PROVE \A i \in 1..4 : M(i) = {}
    OBVIOUS
  <2>1. \A i \in 1..4 : (\A j \in 1..i-1 : M(j) = {}) => M(i) = {}
    BY <1>1, <1>2
  <2>2. M(1) = {}
    BY <2>1
  <2>3. M(2) = {}
    BY <2>1, <2>2
  <2>4. M(3) = {}
    BY <2>1, <2>2, <2>3
  <2>5. M(4) = {}
    BY <2>1, <2>2, <2>3, <2>4
  <2>6. QED
    BY <2>2, <2>3, <2>4, <2>5
<1>7. Duplicates(fields) = {} => \A k \in Key : Matching(k, fields[k]) = {}
  BY <1>6, KeyOrders DEF M, Key
<1>8. QED
  BY <1>3, <1>4, <1>5, <1>7

\* HandledFound in terms of the keys.
LEMMA HandledByKey ==
    HandledFound <=> \A l \in job.handled \cup imported : Keyed(l) =>
                        \E k \in Key : Matching(k, Says(l)[k]) # {}
BY DuplicatesByKey DEF HandledFound

LEMMA HandledByKeyNext ==
    (HandledFound <=> \A l \in job.handled \cup imported : Keyed(l) =>
                        \E k \in Key : Matching(k, Says(l)[k]) # {})'
BY HandledByKey, PTL

LEMMA SaysAgain ==
    ASSUME registers' = registers
    PROVE  \A l : Says(l)' = Says(l) /\ (Keyed(l)' <=> Keyed(l))
BY DEF Says, Keyed

\* The keys of the customers are what they were.
LEMMA SameMatches ==
    ASSUME \A c \in Customer :
             /\ View(c)'.life = "present" <=> View(c).life = "present"
             /\ View(c).life = "present" =>
                  \A k \in Key : View(c)'.fields[k] = View(c).fields[k]
    PROVE  /\ Visible' = Visible
           /\ \A k \in Key : \A v : Matching(k, v)' = Matching(k, v)
<1>1. Visible' = Visible
  BY DEF Visible
<1>2. QED
  BY <1>1 DEF Matching, Visible

\* No key of a customer is lost.
LEMMA MoreMatches ==
    ASSUME \A c \in Visible :
             /\ View(c)'.life = "present"
             /\ \A k \in Key : View(c).fields[k] # Blank =>
                                 View(c)'.fields[k] = View(c).fields[k]
    PROVE  \A k \in Key : \A v : Matching(k, v) # {} => Matching(k, v)' # {}
<1> SUFFICES ASSUME NEW k \in Key, NEW v, NEW c \in Matching(k, v)
             PROVE  c \in Matching(k, v)'
  OBVIOUS
<1>1. c \in Visible /\ v # Blank /\ View(c).fields[k] = v
  BY DEF Matching
<1>2. View(c)'.life = "present" /\ View(c)'.fields[k] = v
  BY <1>1
<1>3. QED
  BY <1>1, <1>2 DEF Matching, Visible

\* A run keeps the keys of the committed rows.
LEMMA KeysKept ==
    ASSUME TypeOK, Inv, KeysFromRegisters, NEW c \in Customer, customers[c].life = "present"
    PROVE  /\ View(c).life = "present"
           /\ \A k \in Key : customers[c].fields[k] # Blank =>
                               View(c).fields[k] = customers[c].fields[k]
<1>1. \A k \in Key : k \in Field /\ k \notin raced[c]
  BY DEF Inv, RacedByWeb, KeysFromRegisters, Key, Field
<1>2. QED
  BY <1>1 DEF Inv, Preserved, View, Written

\* What holds of the view after a step that leaves the tables and the commits alone.
LEMMA QuietKeys ==
    ASSUME KeyInv, UNCHANGED <<registers, customers, draft, imported>>
    PROVE  /\ GstUnique' /\ ImportedFound' /\ Visible' = Visible
           /\ \A k, v : Matching(k, v)' = Matching(k, v)
           /\ \A c : View(c)' = View(c)
<1>1. \A c : View(c)' = View(c)
  BY DEF View, Written
<1>2. Visible' = Visible
  BY <1>1 DEF Visible
<1>3. \A k, v : Matching(k, v)' = Matching(k, v)
  BY <1>1, <1>2 DEF Matching
<1>4. GstUnique'
  BY <1>1, <1>2 DEF KeyInv, GstUnique
<1>5. ImportedFound'
  BY SaysAgain DEF KeyInv, ImportedFound
<1>6. QED
  BY <1>1, <1>2, <1>3, <1>4, <1>5

\* A step between lines.
LEMMA BetweenKeys ==
    ASSUME KeyInv, UNCHANGED <<registers, customers, draft, imported>>,
           job'.phase # "write", job'.handled \subseteq job.handled
    PROVE  KeyInv'
<1>1. HandledFound'
  <2>1. \A l \in job'.handled \cup imported' : Keyed(l) =>
          \E k \in Key : Matching(k, Says(l)[k]) # {}
    BY HandledByKey DEF KeyInv
  <2>2. \A l \in job'.handled \cup imported' : Keyed(l)' =>
          \E k \in Key : Matching(k, Says(l)[k])' # {}
    BY <2>1, SaysAgain, QuietKeys
  <2>3. QED
    BY <2>2, HandledByKeyNext
<1>2. NoRivalGst' /\ FoundByKey'
  BY DEF NoRivalGst, FoundByKey
<1>3. QED
  BY <1>1, <1>2, QuietKeys DEF KeyInv

LEMMA KeepKeys == ASSUME TypeOK, KeyInv, Keep PROVE KeyInv'
<1>1. /\ job'.phase # "write"
      /\ job'.handled = IF job.upset THEN job.handled ELSE job.handled \cup {LineNow}
  BY EndedKeep DEF Keep
<1>2. ~job.upset => \E k \in Key : Matching(k, Says(LineNow)[k]) # {}
  BY DEF KeyInv, FoundByKey, Keep
<1>3. UNCHANGED <<registers, customers, draft, imported>>
  BY DEF Keep
<1>4. \A l \in job'.handled \cup imported' : Keyed(l) =>
        \E k \in Key : Matching(k, Says(l)[k]) # {}
  BY <1>1, <1>2, <1>3, HandledByKey DEF KeyInv
<1>5. \A l \in job'.handled \cup imported' : Keyed(l)' =>
        \E k \in Key : Matching(k, Says(l)[k])' # {}
  BY <1>3, <1>4, SaysAgain, QuietKeys
<1>6. HandledFound'
  BY <1>5, HandledByKeyNext
<1>7. NoRivalGst' /\ FoundByKey'
  BY <1>1 DEF NoRivalGst, FoundByKey
<1>8. QED
  BY <1>3, <1>6, <1>7, QuietKeys DEF KeyInv

LEMMA MatchKeys == ASSUME TypeOK, Inv, KeyInv, KeysFromRegisters, Match PROVE KeyInv'
<1>1. UNCHANGED <<registers, customers, draft, imported>> /\ job \in Job
  BY DEF Match, TypeOK
<1>2. PICK says : says = Says(LineNow)
  OBVIOUS
<1>3. "gst" \in Key /\ "gst" \in Field
  BY DEF Key, Field
<1>4. /\ job'.handled = job.handled /\ LineNow' = LineNow
      /\ \/ /\ job'.found \in Duplicates(says)
            /\ job'.seen = IF job'.found = job.found THEN job.seen
                           ELSE View(job'.found).fields
         \/ job'.found = None /\ Duplicates(says) = {}
  <2>1. CASE \E c \in Duplicates(says) :
               job' = [job EXCEPT !.phase = "write", !.found = c,
                                  !.seen = IF c = job.found THEN @ ELSE View(c).fields]
    <3>1. PICK c \in Duplicates(says) :
            job' = [job EXCEPT !.phase = "write", !.found = c,
                               !.seen = IF c = job.found THEN @ ELSE View(c).fields]
      BY <2>1
    <3>2. PICK seen : seen = IF c = job.found THEN job.seen ELSE View(c).fields
      OBVIOUS
    <3>3. job' = [job EXCEPT !.phase = "write", !.found = c, !.seen = seen]
      BY <3>1, <3>2
    <3>4. QED
      BY <1>1, <3>2, <3>3 DEF Job, LineNow
  <2>2. CASE \E n \in Code : Duplicates(says) = {} /\
               job' = [job EXCEPT !.phase = "write", !.found = None, !.seen = NoFields,
                                  !.code = n]
    BY <1>1, <2>2 DEF Job, LineNow
  <2>3. QED
    BY <1>2, <2>1, <2>2 DEF Match
<1>5. Says(LineNow)' = says
  BY <1>1, <1>2, <1>4 DEF Says
<1>6. \A l \in job'.handled \cup imported' : Keyed(l)' =>
        \E k \in Key : Matching(k, Says(l)[k])' # {}
  BY <1>1, <1>4, HandledByKey, SaysAgain, QuietKeys DEF KeyInv
<1>7. HandledFound'
  BY <1>6, HandledByKeyNext
<1>8. FoundByKey'
  <2>1. CASE job'.found \in Duplicates(says)
    BY <1>1, <1>5, <2>1, DuplicatesByKey, QuietKeys DEF FoundByKey
  <2>2. CASE job'.found = None
    BY <2>2 DEF FoundByKey
  <2>3. QED
    BY <1>4, <2>1, <2>2
<1>9. (job'.found = None \/ job'.seen["gst"] = Blank) /\ says["gst"] # Blank
        => Matching("gst", says["gst"]) = {}
  <2>1. CASE job'.found \in Duplicates(says)
    <3>1. job'.found \in Customer /\ View(job'.found).life = "present" /\ job'.found # None
      BY <2>1, DuplicatesByKey, ImportAssumption DEF Matching, Visible
    <3>2. "gst" \notin raced[job'.found]
      BY <1>3, <3>1 DEF Inv, RacedByWeb, KeysFromRegisters
    <3>3. job'.seen["gst"] = Blank => View(job'.found).fields["gst"] = Blank
      BY <1>3, <1>4, <2>1, <3>1, <3>2 DEF Inv, SeenTrue
    <3>4. Matching("gst", says["gst"]) # {} =>
            says["gst"] # Blank /\ View(job'.found).fields["gst"] = says["gst"]
      BY <2>1, DuplicatesByKey DEF Matching
    <3>5. QED
      BY <3>1, <3>3, <3>4
  <2>2. CASE Duplicates(says) = {}
    BY <1>3, <2>2, DuplicatesByKey
  <2>3. QED
    BY <1>4, <2>1, <2>2
<1>10. NoRivalGst'
  BY <1>1, <1>5, <1>9, QuietKeys DEF NoRivalGst
<1>11. QED
  BY <1>1, <1>7, <1>8, <1>10, QuietKeys DEF KeyInv

\* A WRITE step: the view gains keys, and all of the line's if the web did not interfere.
LEMMA WrittenKeys ==
    ASSUME TypeOK, KeyInv, UNCHANGED <<registers, customers, imported>>,
           NEW says, says = Says(LineNow),
           job'.phase # "write",
           job'.handled = IF job.upset THEN job.handled ELSE job.handled \cup {LineNow},
           \A c \in Visible :
             /\ View(c)'.life = "present"
             /\ \A k \in Key : View(c).fields[k] # Blank =>
                                 View(c)'.fields[k] = View(c).fields[k],
           ~job.upset /\ Keyed(LineNow) => \E k \in Key : Matching(k, says[k])' # {},
           GstUnique'
    PROVE  KeyInv'
<1>1. \A k \in Key : \A v : Matching(k, v) # {} => Matching(k, v)' # {}
  BY MoreMatches
<1>2. \A l \in job'.handled \cup imported' : Keyed(l) =>
        \E k \in Key : Matching(k, Says(l)[k])' # {}
  <2> SUFFICES ASSUME NEW l \in job'.handled \cup imported', Keyed(l)
               PROVE  \E k \in Key : Matching(k, Says(l)[k])' # {}
    OBVIOUS
  <2>1. CASE l \in job.handled \cup imported
    <3>1. PICK k \in Key : Matching(k, Says(l)[k]) # {}
      BY <2>1, HandledByKey DEF KeyInv
    <3>2. PICK v : v = Says(l)[k]
      OBVIOUS
    <3>3. Matching(k, v)' # {}
      BY <1>1, <3>1, <3>2
    <3>4. Says(l)' = Says(l)
      BY SaysAgain
    <3>5. QED
      BY <3>2, <3>3, <3>4 DEF Matching
  <2>2. CASE ~job.upset /\ l = LineNow
    <3>1. PICK k \in Key : Matching(k, says[k])' # {}
      BY <2>2
    <3>2. Says(l)' = says
      BY <2>2, SaysAgain
    <3>3. QED
      BY <3>1, <3>2 DEF Matching
  <2>3. QED
    BY <2>1, <2>2
<1>3. HandledFound'
  BY <1>2, SaysAgain, HandledByKeyNext
<1>4. ImportedFound'
  BY SaysAgain DEF KeyInv, ImportedFound
<1>5. NoRivalGst' /\ FoundByKey'
  BY DEF NoRivalGst, FoundByKey
<1>6. QED
  BY <1>3, <1>4, <1>5 DEF KeyInv

LEMMA CreateKeys == ASSUME TypeOK, Inv, KeyInv, Create PROVE KeyInv'
<1>1. PICK c \in Customer, row \in {r \in CustomerRow : r.life = "present"} :
        /\ Fresh(c)
        /\ draft' = [draft EXCEPT ![c] = row]
        /\ row.fields = Says(LineNow)
  BY CreatedRow
<1>2. PICK says : says = Says(LineNow)
  OBVIOUS
<1>3. /\ job.phase = "write" /\ job.found = None
      /\ UNCHANGED <<registers, customers, imported>>
      /\ job'.phase # "write"
      /\ job'.handled = IF job.upset THEN job.handled ELSE job.handled \cup {LineNow}
  BY EndedKeep DEF Create
<1>4. draft'[c] = row /\ \A d \in Customer \ {c} : draft'[d] = draft[d]
  BY <1>1 DEF TypeOK
<1>5. View(c)' = row /\ \A d \in Customer \ {c} : View(d)' = View(d)
  BY <1>1, <1>3, <1>4 DEF View, Written
<1>6. c \notin Visible
  BY <1>1 DEF Visible, View, Fresh
<1>7. \A k \in Key : says[k] # Blank => c \in Matching(k, says[k])'
  BY <1>1, <1>2, <1>5 DEF Matching, Visible
<1>8. GstUnique'
  <2>1. says["gst"] # Blank => Matching("gst", says["gst"]) = {}
    BY <1>2, <1>3 DEF KeyInv, NoRivalGst
  <2>2. Visible' = Visible \cup {c}
    BY <1>1, <1>5 DEF Visible
  <2>3. \A d \in Visible : View(d)' = View(d)
    BY <1>5, <1>6 DEF Visible
  <2>4. \A d \in Visible : View(d).fields["gst"] = row.fields["gst"] => row.fields["gst"] = Blank
    BY <1>1, <1>2, <2>1 DEF Matching
  <2>5. QED
    BY <1>5, <2>2, <2>3, <2>4 DEF KeyInv, GstUnique
<1>9. \A d \in Visible : View(d)' = View(d) /\ View(d).life = "present"
  BY <1>5, <1>6 DEF Visible
<1>10. Keyed(LineNow) => \E k \in Key : Matching(k, says[k])' # {}
  BY <1>2, <1>7 DEF Keyed
<1>11. QED
  BY <1>2, <1>3, <1>8, <1>9, <1>10, WrittenKeys

LEMMA FillKeys == ASSUME TypeOK, Inv, KeyInv, KeysFromRegisters, Fill PROVE KeyInv'
<1>1. PICK c, says, filled : /\ c = job.found /\ says = Says(LineNow)
                             /\ filled = Blanks(job.seen, says)
  OBVIOUS
<1>2. /\ c \in Customer /\ View(c).life = "present"
      /\ draft'[c].life = "present"
      /\ \A f \in Field : draft'[c].fields[f] = IF f \in filled THEN says[f]
                                               ELSE View(c).fields[f]
      /\ \A d \in Customer \ {c} : draft'[d] = draft[d]
      /\ job'.handled = IF job.upset THEN job.handled ELSE job.handled \cup {LineNow}
      /\ job'.phase # "write"
  BY <1>1, FillEffect
<1>3. UNCHANGED <<registers, customers, imported>> /\ c # None /\ job.phase = "write"
  BY <1>2, ImportAssumption DEF Fill
<1>4. \A k \in Key : k \in Field /\ k \notin raced[c]
  BY <1>2 DEF Inv, RacedByWeb, KeysFromRegisters, Key, Field
<1>5. \A k \in Key : k \in filled => View(c).fields[k] = Blank /\ says[k] # Blank
                                     /\ job.seen[k] = Blank
  BY <1>1, <1>2, <1>3, <1>4 DEF Inv, SeenTrue, Blanks
<1>6. View(c)' = draft'[c] /\ \A d \in Customer \ {c} : View(d)' = View(d)
  BY <1>2, <1>3 DEF View, Written
<1>7. \A d \in Visible :
        /\ View(d)'.life = "present"
        /\ \A k \in Key : View(d).fields[k] # Blank => View(d)'.fields[k] = View(d).fields[k]
  BY <1>2, <1>4, <1>5, <1>6 DEF Visible
<1>8. Visible' = Visible /\ c \in Visible
  BY <1>2, <1>6 DEF Visible
<1>9. ~job.upset => \E k \in Key : Matching(k, says[k])' # {}
  <2> SUFFICES ASSUME ~job.upset PROVE \E k \in Key : Matching(k, says[k])' # {}
    OBVIOUS
  <2>1. PICK k \in Key : c \in Matching(k, says[k])
    BY <1>1, <1>3 DEF KeyInv, FoundByKey
  <2>2. PICK v : v = says[k]
    OBVIOUS
  <2>3. Matching(k, v) # {}
    BY <2>1, <2>2
  <2>4. Matching(k, v)' # {}
    BY <1>7, <2>3, MoreMatches
  <2>5. QED
    BY <2>2, <2>4
<1>10. GstUnique'
  <2>1. "gst" \in Key
    BY DEF Key
  <2>2. CASE "gst" \in filled
    <3>1. Matching("gst", says["gst"]) = {}
      BY <1>1, <1>3, <1>5, <2>1, <2>2 DEF KeyInv, NoRivalGst
    <3>2. \A d \in Visible : View(d).fields["gst"] # says["gst"]
      BY <1>5, <2>1, <2>2, <3>1 DEF Matching
    <3>3. View(c)'.fields["gst"] = says["gst"]
      BY <1>2, <1>4, <1>6, <2>1, <2>2
    <3>4. \A d \in Visible \ {c} : View(d)' = View(d)
      BY <1>6 DEF Visible
    <3>5. QED
      BY <1>8, <3>2, <3>3, <3>4 DEF KeyInv, GstUnique
  <2>3. CASE "gst" \notin filled
    <3>1. \A d \in Visible : View(d)'.fields["gst"] = View(d).fields["gst"]
      BY <1>2, <1>4, <1>6, <2>1, <2>3 DEF Visible
    <3>2. QED
      BY <1>8, <3>1 DEF KeyInv, GstUnique
  <2>4. QED
    BY <2>2, <2>3
<1>11. QED
  BY <1>1, <1>2, <1>3, <1>7, <1>9, <1>10, WrittenKeys

LEMMA CommitKeys == ASSUME TypeOK, Inv, KeyInv, KeysFromRegisters, Commit PROVE KeyInv'
<1>1. /\ UNCHANGED registers /\ job'.phase # "write" /\ job'.handled = {}
      /\ imported' = imported \cup job.handled
      /\ \A c \in Customer : customers'[c] = View(c) /\ draft'[c] = Absent
  BY OffJob DEF Commit
<1>2. \A c \in Customer : View(c)' = View(c)
  BY <1>1, AbsentRow DEF View, Written
<1>3. /\ Visible' = Visible
      /\ \A k \in Key : \A v : Matching(k, v)' = Matching(k, v)
  BY <1>2, SameMatches
<1>4. GstUnique'
  BY <1>2, <1>3 DEF KeyInv, GstUnique, Visible
<1>5. \A l \in job.handled \cup imported : Keyed(l) =>
        \E k \in Key : Matching(k, Says(l)[k]) # {}
  BY HandledByKey DEF KeyInv
<1>6. HandledFound'
  <2>1. \A l \in job'.handled \cup imported' : Keyed(l)' =>
          \E k \in Key : Matching(k, Says(l)[k])' # {}
    <3> SUFFICES ASSUME NEW l \in job.handled \cup imported, Keyed(l)'
                 PROVE  \E k \in Key : Matching(k, Says(l)[k])' # {}
      BY <1>1
    <3>1. Says(l)' = Says(l) /\ Keyed(l)
      BY <1>1, SaysAgain
    <3>2. PICK k \in Key : Matching(k, Says(l)[k]) # {}
      BY <1>5, <3>1
    <3>3. QED
      BY <1>3, <3>1, <3>2
  <2>2. QED
    BY <2>1, HandledByKeyNext
<1>7. ImportedFound'
  <2> SUFFICES ASSUME NEW l \in job.handled \cup imported, Keyed(l)'
               PROVE  \E k \in Key, c \in Customer :
                        /\ customers'[c].life = "present"
                        /\ Says(l)'[k] # Blank /\ customers'[c].fields[k] = Says(l)'[k]
    BY <1>1 DEF ImportedFound
  <2>1. Says(l)' = Says(l) /\ Keyed(l)
    BY <1>1, SaysAgain
  <2>2. PICK k \in Key : Matching(k, Says(l)[k]) # {}
    BY <1>5, <2>1
  <2>3. PICK c \in Matching(k, Says(l)[k]) : TRUE
    BY <2>2
  <2>4. c \in Customer /\ View(c).life = "present" /\ Says(l)[k] # Blank
        /\ View(c).fields[k] = Says(l)[k]
    BY <2>3 DEF Matching, Visible
  <2>5. QED
    BY <1>1, <2>1, <2>4
<1>8. NoRivalGst' /\ FoundByKey'
  BY <1>1 DEF NoRivalGst, FoundByKey
<1>9. QED
  BY <1>4, <1>6, <1>7, <1>8 DEF KeyInv

LEMMA CrashKeys == ASSUME TypeOK, Inv, KeyInv, KeysFromRegisters, Crash PROVE KeyInv'
<1>1. /\ UNCHANGED <<registers, customers, imported>>
      /\ job'.phase # "write" /\ job'.handled = {}
      /\ \A c \in Customer : draft'[c] = Absent
  BY OffJob DEF Crash
<1>2. \A c \in Customer : View(c)' = customers[c]
  BY <1>1, AbsentRow DEF View, Written
<1>3. "gst" \in Key
  BY DEF Key
<1>4. GstUnique'
  <2> SUFFICES ASSUME NEW c \in Customer, NEW d \in Customer,
                      customers[c].life = "present", customers[d].life = "present",
                      customers[c].fields["gst"] = customers[d].fields["gst"],
                      customers[c].fields["gst"] # Blank
               PROVE  c = d
    BY <1>2 DEF GstUnique, Visible
  <2>1. /\ View(c).life = "present" /\ View(c).fields["gst"] = customers[c].fields["gst"]
        /\ View(d).life = "present" /\ View(d).fields["gst"] = customers[d].fields["gst"]
    BY <1>3, KeysKept
  <2>2. QED
    BY <2>1 DEF KeyInv, GstUnique, Visible
<1>5. ImportedFound'
  BY <1>1, SaysAgain DEF KeyInv, ImportedFound
<1>6. HandledFound'
  <2>1. \A l \in job'.handled \cup imported' : Keyed(l)' =>
          \E k \in Key : Matching(k, Says(l)[k])' # {}
    <3> SUFFICES ASSUME NEW l \in imported, Keyed(l)'
                 PROVE  \E k \in Key : Matching(k, Says(l)[k])' # {}
      BY <1>1
    <3>1. Says(l)' = Says(l) /\ Keyed(l)
      BY <1>1, SaysAgain
    <3>2. PICK k \in Key, c \in Customer :
            /\ customers[c].life = "present"
            /\ Says(l)[k] # Blank /\ customers[c].fields[k] = Says(l)[k]
      BY <3>1 DEF KeyInv, ImportedFound
    <3>3. c \in Matching(k, Says(l)[k])'
      BY <1>2, <3>1, <3>2 DEF Matching, Visible
    <3>4. QED
      BY <3>3
  <2>2. QED
    BY <2>1, HandledByKeyNext
<1>7. NoRivalGst' /\ FoundByKey'
  BY <1>1 DEF NoRivalGst, FoundByKey
<1>8. QED
  BY <1>4, <1>5, <1>6, <1>7 DEF KeyInv

\* The web enters a customer without a key, or writes no key: the keys are what they were.
LEMMA WebKeys ==
    ASSUME KeyInv, UNCHANGED <<registers, job, imported>>,
           \A c \in Customer : \A k \in Key :
             /\ View(c).life = "present" =>
                  View(c)'.life = "present" /\ View(c)'.fields[k] = View(c).fields[k]
             /\ View(c)'.life = "present" /\ View(c).life # "present" =>
                  View(c)'.fields[k] = Blank,
           \A c \in Customer : customers[c].life = "present" =>
             /\ customers'[c].life = "present"
             /\ \A k \in Key : customers'[c].fields[k] = customers[c].fields[k]
    PROVE  KeyInv'
<1>1. \A k \in Key : \A v : Matching(k, v)' = Matching(k, v)
  BY DEF Matching, Visible
<1>2. "gst" \in Key
  BY DEF Key
<1>3. LineNow' = LineNow /\ \A l : Says(l)' = Says(l) /\ (Keyed(l)' <=> Keyed(l))
  BY SaysAgain DEF LineNow
<1>4. PICK says : says = Says(LineNow)
  OBVIOUS
<1>5. Says(LineNow)' = says
  BY <1>3, <1>4 DEF Says
<1>6. NoRivalGst'
  BY <1>1, <1>2, <1>4, <1>5 DEF KeyInv, NoRivalGst
<1>7. FoundByKey'
  BY <1>1, <1>4, <1>5 DEF KeyInv, FoundByKey
<1>8. GstUnique'
  BY <1>2 DEF KeyInv, GstUnique, Visible
<1>9. ImportedFound'
  BY <1>3 DEF KeyInv, ImportedFound
<1>10. HandledFound'
  <2>1. \A l \in job.handled \cup imported : Keyed(l) =>
          \E k \in Key : Matching(k, Says(l)[k]) # {}
    BY HandledByKey DEF KeyInv
  <2>2. \A l \in job'.handled \cup imported' : Keyed(l)' =>
          \E k \in Key : Matching(k, Says(l)[k])' # {}
    BY <1>1, <1>3, <2>1
  <2>3. QED
    BY <2>2, HandledByKeyNext
<1>11. QED
  BY <1>6, <1>7, <1>8, <1>9, <1>10 DEF KeyInv

LEMMA EnterKeys == ASSUME TypeOK, KeyInv, KeysFromRegisters, EnterCustomer PROVE KeyInv'
<1>1. PICK c \in Customer, n \in Code, fields \in WebForms :
        /\ Fresh(c)
        /\ customers' = [customers EXCEPT ![c] = [life |-> "present", code |-> n,
                                                  fields |-> fields]]
  BY DEF EnterCustomer
<1>2. PICK row : row = [life |-> "present", code |-> n, fields |-> fields]
  OBVIOUS
<1>3. row.life = "present" /\ \A k \in Key : row.fields[k] = Blank
  BY <1>2 DEF KeysFromRegisters
<1>4. /\ UNCHANGED <<registers, draft, job, imported>>
      /\ customers'[c] = row /\ \A d \in Customer \ {c} : customers'[d] = customers[d]
  BY <1>1, <1>2 DEF EnterCustomer, TypeOK
<1>5. /\ View(c)' = row /\ View(c).life # "present"
      /\ \A d \in Customer \ {c} : View(d)' = View(d)
  BY <1>1, <1>4 DEF View, Written, Fresh
<1>6. QED
  BY <1>1, <1>3, <1>4, <1>5, WebKeys DEF Fresh

LEMMA EditKeys == ASSUME TypeOK, KeyInv, KeysFromRegisters, EditCustomer PROVE KeyInv'
<1>1. PICK c \in Customer, f \in WebField, v \in Value \cup {Blank} :
        /\ customers[c].life = "present" /\ ~Written(c)
        /\ customers'[c].life = "present"
        /\ \A g \in Field \ {f} : customers'[c].fields[g] = customers[c].fields[g]
        /\ \A d \in Customer \ {c} : customers'[d] = customers[d]
        /\ UNCHANGED <<registers, draft>>
        /\ f \notin Key => UNCHANGED <<job, imported>>
  BY EditEffect
<1>2. f \notin Key /\ Key \subseteq Field \ {f}
  BY DEF KeysFromRegisters, Key, Field
<1>3. /\ View(c)' = customers'[c] /\ View(c) = customers[c]
      /\ \A d \in Customer \ {c} : View(d)' = View(d)
  BY <1>1 DEF View, Written
<1>4. QED
  BY <1>1, <1>2, <1>3, WebKeys

LEMMA DeleteKeys == ASSUME TypeOK, KeyInv, DeleteCustomer PROVE KeyInv'
<1>1. PICK c \in Customer :
        /\ ~Written(c) /\ customers'[c].life = "deleted"
        /\ \A d \in Customer \ {c} : customers'[d] = customers[d]
  BY DeleteEffect
<1>2. /\ UNCHANGED <<registers, draft>>
      /\ job'.handled = {} /\ imported' = {} /\ job'.phase = job.phase
      /\ LineNow' = LineNow /\ job'.found = job.found /\ job'.seen = job.seen
      /\ job'.phase = "write" => job'.upset
  BY DeleteEffect, UpsetJob
<1>3. View(c)'.life # "present" /\ \A d \in Customer \ {c} : View(d)' = View(d)
  BY <1>1, <1>2 DEF View, Written
<1>4. Visible' \subseteq Visible /\ \A d \in Visible' : View(d)' = View(d)
  BY <1>3 DEF Visible
<1>5. PICK says : says = Says(LineNow)
  OBVIOUS
<1>6. Says(LineNow)' = says
  BY <1>2, <1>5 DEF Says
<1>7. \A k, v : Matching(k, v)' \subseteq Matching(k, v)
  BY <1>4 DEF Matching
<1>8. NoRivalGst'
  BY <1>2, <1>5, <1>6, <1>7 DEF KeyInv, NoRivalGst
<1>9. FoundByKey' /\ ImportedFound' /\ HandledFound'
  BY <1>2 DEF FoundByKey, ImportedFound, HandledFound
<1>10. GstUnique'
  BY <1>4 DEF KeyInv, GstUnique
<1>11. QED
  BY <1>8, <1>9, <1>10 DEF KeyInv

LEMMA KeyStep ==
    ASSUME KeysFromRegisters, TypeOK, Inv, KeyInv, [Next]_vars
    PROVE  KeyInv'
<1>1. job \in Job /\ (job.phase = "line" => <<job.register, job.line>> \in Line)
      /\ registers \in RegisterSets
  BY DEF TypeOK, LineNow
<1>2. CASE Start \/ PassOver \/ Open
  <2>1. job'.phase # "write" /\ job'.handled \subseteq job.handled
    BY <1>1, <1>2 DEF Start, Off, PassOver, Open, Job
  <2>2. QED
    BY <1>2, <2>1, BetweenKeys DEF Start, PassOver, Open
<1>3. CASE SkipLine
  <2>1. job'.phase # "write" /\ job'.handled \subseteq job.handled
    BY <1>1, <1>3, AdvancedJob DEF SkipLine
  <2>2. QED
    BY <1>3, <2>1, BetweenKeys DEF SkipLine
<1>4. CASE LineFails
  <2>1. PICK j : j = [job EXCEPT !.found = None, !.seen = NoFields]
    OBVIOUS
  <2>2. /\ j \in Job /\ j.register = job.register /\ j.line = job.line
        /\ j.handled = job.handled
    BY <1>1, <2>1 DEF Job, NoFields, Fields
  <2>3. <<job.register, job.line>> \in Line
    BY <1>4 DEF LineFails, TypeOK, LineNow
  <2>4. job'.phase # "write" /\ job'.handled \subseteq job.handled
    BY <1>1, <1>4, <2>1, <2>2, <2>3, AdvancedJob DEF LineFails
  <2>5. QED
    BY <1>4, <2>4, BetweenKeys DEF LineFails
<1>5. CASE UNCHANGED vars
  <2>1. UNCHANGED <<registers, customers, draft, job, imported>>
    BY <1>5 DEF vars
  <2>2. \A c : View(c)' = View(c)
    BY <2>1 DEF View, Written
  <2>3. QED
    BY <2>1, <2>2, WebKeys
<1>6. QED
  BY <1>2, <1>3, <1>4, <1>5, KeepKeys, MatchKeys, CreateKeys, FillKeys, CommitKeys, CrashKeys,
     EnterKeys, EditKeys, DeleteKeys DEF Next

LEMMA KeyStart == Init => KeyInv
<1> SUFFICES ASSUME Init PROVE KeyInv
  OBVIOUS
<1>1. /\ job.phase = "off" /\ job.handled = {} /\ imported = {} /\ customers \in Tables
      /\ \A c \in Customer : View(c) = customers[c]
  BY OffJob, AbsentRow DEF Init, View, Written
<1>2. GstUnique
  BY <1>1, ImportAssumption DEF GstUnique, Visible
<1>3. QED
  BY <1>1, <1>2 DEF KeyInv, NoRivalGst, FoundByKey, ImportedFound, HandledFound

\* The import gives no GST number to a second customer, as long as the web types none.
THEOREM GstNumbersUnique ==
    ASSUME KeysFromRegisters
    PROVE  Spec => []GstUnique
<1>1. Init => TypeOK /\ Inv
  BY ImportAssumption, OffJob, AbsentRow
     DEF Init, TypeOK, Inv, RacedByWeb, SeenTrue, DraftHeld, Preserved, Written
<1>2. TypeOK /\ Inv /\ KeyInv /\ [Next]_vars => KeyInv'
  BY KeyStep
<1>3. KeyInv => GstUnique
  BY DEF KeyInv
<1>4. QED
  BY <1>1, <1>2, <1>3, KeyStart, TypeStep, InvStep, PTL DEF Spec

\* A line with a key that was handled is found again, in this run and in every later one,
\* as long as the web writes no key and deletes no customer in between.
THEOREM HandledLinesFound ==
    ASSUME KeysFromRegisters
    PROVE  Spec => []HandledFound
<1>1. Init => TypeOK /\ Inv
  BY ImportAssumption, OffJob, AbsentRow
     DEF Init, TypeOK, Inv, RacedByWeb, SeenTrue, DraftHeld, Preserved, Written
<1>2. TypeOK /\ Inv /\ KeyInv /\ [Next]_vars => KeyInv'
  BY KeyStep
<1>3. KeyInv => HandledFound
  BY DEF KeyInv
<1>4. QED
  BY <1>1, <1>2, <1>3, KeyStart, TypeStep, InvStep, PTL DEF Spec

=============================================================================
