------------------------------- MODULE Import -------------------------------
(***************************************************************************)
(* The import of the two legacy registers (app/features/customers/seed.py, *)
(* run by seed_customers in app/cli.py) into the customers of one          *)
(* organization, while the web goes on entering, editing and deleting      *)
(* customers.                                                              *)
(*                                                                         *)
(* A run is one transaction with a savepoint for each line: what it wrote  *)
(* is in draft until its one commit, and the rows it wrote are locked.  A  *)
(* line is a READ step (Match) and a WRITE step (Create, Fill or Keep);    *)
(* the web may commit in between.  The session hands out the object of the *)
(* line before, unrefreshed, when two lines in a row match one customer.   *)
(*                                                                         *)
(* A value stands for a cell after _clean_cell and the conversions of      *)
(* _row_to_fields, up to letter case; Blank is a cell without one, or a    *)
(* date in no known format.  "second" stands for the fields that take      *)
(* their columns between PAN and mobile number (Aadhaar, alternate mobile  *)
(* number), "other" for those that follow the email and precede the name.  *)
(***************************************************************************)
EXTENDS Integers, Sequences

CONSTANTS
    Customer,      \* ids of customers
    None,          \* no customer
    Code,          \* the sequence numbers of customer codes: 1..n
    Value, Blank,  \* what a cell holds
    Header,        \* the column headers of the registers
    Exact,         \* of each field, the headers that are one of its aliases
    Part,          \* ... and the headers that contain one
    RegisterSets,  \* the pairs of registers that may be there
    Tables,        \* the tables that the first run may find
    WebField,      \* the fields that the web may edit
    WebForms,      \* the customers that the web may enter
    MaxRuns        \* bound on the runs

Field == {"gst", "pan", "second", "mobile", "email", "other", "name"}

\* The order in which find_duplicate looks.
KeyOrder == <<"gst", "pan", "mobile", "email">>

Key == {"gst", "pan", "mobile", "email"}

Fields == [Field -> Value \cup {Blank}]

NoFields == [f \in Field |-> Blank]

CustomerRow == [life: {"absent", "present", "deleted"}, code: Code \cup {0}, fields: Fields]

Absent == [life |-> "absent", code |-> 0, fields |-> NoFields]

\* A register: its columns, and its lines as the cells under them.
Register == [headers: Seq(Header), lines: Seq([Header -> Value \cup {Blank}])]

ASSUME ImportAssumption ==
    /\ None \notin Customer
    /\ Blank \notin Value
    /\ Code \subseteq Nat \ {0}
    /\ Exact \in [Field -> SUBSET Header]
    /\ Part \in [Field -> SUBSET Header]
    /\ RegisterSets \subseteq Seq(Register)
    /\ WebField \subseteq Field \ {"name"}
    /\ WebForms \subseteq {fields \in Fields : fields["name"] # Blank}
    /\ MaxRuns \in Nat
    /\ Tables \subseteq [Customer -> CustomerRow]
    \* no GST number twice in the table that the first run finds
    /\ \A t \in Tables : \A c, d \in Customer :
         /\ t[c].life = "present" /\ t[c].fields["gst"] = t[d].fields["gst"]
              /\ t[d].life = "present" /\ t[c].fields["gst"] # Blank => c = d

VARIABLES
    registers,    \* the two registers, the same for every run
    customers,    \* the committed rows
    draft,        \* the rows the run has written, Absent for the others
    job,          \* the run
    imported,     \* the lines that committed runs handled
    raced,        \* of each customer, the fields the web wrote behind the run's back
    runs          \* the runs so far

vars == <<registers, customers, draft, job, imported, raced, runs>>

-----------------------------------------------------------------------------
(* Which column a field is read from.                                      *)

\* The first of the columns that is in hs, as a set of one or none.
FirstIn(columns, hs) ==
    {columns[i] : i \in {i \in DOMAIN columns :
                            columns[i] \in hs /\ \A j \in 1..i-1 : columns[j] \notin hs}}

\* Mutant: a column goes to every field that it may belong to.
ClaimsFreely(columns, claimed, f) ==
    LET exact == FirstIn(columns, Exact[f]) IN
    IF exact # {} THEN exact ELSE FirstIn(columns, Part[f])

\* One round of _build_header_map: an exact alias first, then a header that contains one.
Claims(columns, claimed, f) ==
    LET exact == FirstIn(columns, Exact[f] \ claimed) IN
    IF exact # {} THEN exact ELSE FirstIn(columns, Part[f] \ claimed)

(***************************************************************************)
(* _build_header_map: of each field its column, as a set of one or none.   *)
(* The fields take their columns in turn, client_name last.                *)
(***************************************************************************)
HeaderMap(columns) ==
    LET gst    == Claims(columns, {}, "gst")
        pan    == Claims(columns, gst, "pan")
        second == Claims(columns, gst \cup pan, "second")
        mobile == Claims(columns, gst \cup pan \cup second, "mobile")
        email  == Claims(columns, gst \cup pan \cup second \cup mobile, "email")
        other  == Claims(columns, gst \cup pan \cup second \cup mobile \cup email, "other")
        name   == Claims(columns, gst \cup pan \cup second \cup mobile \cup email \cup other,
                         "name")
    IN  [gst |-> gst, pan |-> pan, second |-> second, mobile |-> mobile, email |-> email,
         other |-> other, name |-> name]

\* _row_to_fields.
RowToFields(map, row) ==
    [f \in Field |-> LET here == map[f] \cap DOMAIN row IN
                     IF here # {} THEN row[CHOOSE h \in here : TRUE] ELSE Blank]

\* Of each pair of registers, the columns and what the rows under them say.
HeaderMaps == [rs \in RegisterSets |-> [k \in 1..Len(rs) |-> HeaderMap(rs[k].headers)]]

Sayings ==
    [rs \in RegisterSets |->
        [k \in 1..Len(rs) |->
            [i \in 1..Len(rs[k].lines) |-> RowToFields(HeaderMaps[rs][k], rs[k].lines[i])]]]

\* The lines by their numbers, <<register, row>>.
Line == UNION {{<<k, i>> : i \in 1..Len(registers[k].lines)} : k \in 1..Len(registers)}

Says(l) == Sayings[registers][l[1]][l[2]]

-----------------------------------------------------------------------------
(* The tables as the run sees them, and the state of the run.              *)

(***************************************************************************)
(* phase: "off", "open" before a register, "line" before a line, "write"   *)
(* between the two steps of a line.  found and seen are the object of the  *)
(* line and its attributes.  handled are the lines this run has handled    *)
(* since the web last took a key or a customer away; upset says that it    *)
(* did so since the last READ.                                             *)
(***************************************************************************)
Job == [phase: {"off", "open", "line", "write"}, register: Nat \ {0}, line: Nat \ {0},
        found: Customer \cup {None}, seen: Fields, code: Code \cup {0},
        handled: SUBSET Line, upset: BOOLEAN]

Off == [phase |-> "off", register |-> 1, line |-> 1, found |-> None, seen |-> NoFields,
        code |-> 0, handled |-> {}, upset |-> FALSE]

LineNow == <<job.register, job.line>>

TypeOK ==
    /\ registers \in RegisterSets
    /\ customers \in [Customer -> CustomerRow]
    /\ draft \in [Customer -> CustomerRow]
    /\ job \in Job
    /\ job.phase \in {"line", "write"} => LineNow \in Line
    /\ imported \in SUBSET Line
    /\ raced \in [Customer -> SUBSET Field]
    /\ runs \in 0..MaxRuns

Written(c) == draft[c].life = "present"

\* Every write is flushed at once: a query finds what the run wrote.
View(c) == IF Written(c) THEN draft[c] ELSE customers[c]

Visible == {c \in Customer : View(c).life = "present"}

Matching(k, v) == {c \in Visible : v # Blank /\ View(c).fields[k] = v}

\* Mutant: the mobile number is looked up before the client numbers.
MobileFirst(fields) ==
    {c \in Customer :
        \/ c \in Matching("mobile", fields["mobile"])
        \/ /\ Matching("mobile", fields["mobile"]) = {}
           /\ \E i \in 1..4 :
                /\ c \in Matching(KeyOrder[i], fields[KeyOrder[i]])
                /\ \A j \in 1..i-1 : Matching(KeyOrder[j], fields[KeyOrder[j]]) = {}}

\* find_duplicate: any match of the first key that has one.
Duplicates(fields) ==
    {c \in Customer :
        \E i \in 1..4 :
            /\ c \in Matching(KeyOrder[i], fields[KeyOrder[i]])
            /\ \A j \in 1..i-1 : Matching(KeyOrder[j], fields[KeyOrder[j]]) = {}}

\* next_code_sequence: max + 1 over what the session sees.
IsNextCode(n) ==
    /\ n - 1 \in {View(c).code : c \in Visible} \cup {0}
    /\ \A c \in Visible : View(c).code < n

Fresh(c) == customers[c].life = "absent" /\ draft[c].life = "absent"

Init ==
    /\ registers \in RegisterSets
    /\ customers \in Tables
    /\ draft = [c \in Customer |-> Absent]
    /\ job = Off
    /\ imported = {}
    /\ raced = [c \in Customer |-> {}]
    /\ runs = 0

-----------------------------------------------------------------------------
(* A run.                                                                  *)

Start ==
    /\ job.phase = "off" /\ runs < MaxRuns
    /\ job' = [Off EXCEPT !.phase = "open"]
    /\ runs' = runs + 1
    /\ UNCHANGED <<registers, customers, draft, imported, raced>>

\* A register without lines or without a name column is passed over, and so is one
\* that is not available now (SheetUnavailableError).
PassOver ==
    /\ job.phase = "open" /\ job.register <= Len(registers)
    /\ job' = [job EXCEPT !.register = @ + 1]
    /\ UNCHANGED <<registers, customers, draft, imported, raced, runs>>

Open ==
    /\ job.phase = "open" /\ job.register <= Len(registers)
    /\ registers[job.register].lines # <<>>
    /\ HeaderMaps[registers][job.register]["name"] # {}
    /\ job' = [job EXCEPT !.phase = "line", !.line = 1]
    /\ UNCHANGED <<registers, customers, draft, imported, raced, runs>>

\* Mutant: there is a line after the last one.
AdvancesPastEnd(j) ==
    IF j.line <= Len(registers[j.register].lines)
      THEN [j EXCEPT !.phase = "line", !.line = @ + 1, !.code = 0, !.upset = FALSE]
      ELSE [j EXCEPT !.phase = "open", !.register = @ + 1, !.line = 1, !.code = 0,
                     !.upset = FALSE]

\* On to the next line, or past the register.
Advanced(j) ==
    IF j.line < Len(registers[j.register].lines)
      THEN [j EXCEPT !.phase = "line", !.line = @ + 1, !.code = 0, !.upset = FALSE]
      ELSE [j EXCEPT !.phase = "open", !.register = @ + 1, !.line = 1, !.code = 0,
                     !.upset = FALSE]

\* The line is dealt with, unless the web interfered.
Handled(j) == IF j.upset THEN j ELSE [j EXCEPT !.handled = @ \cup {<<j.register, j.line>>}]

\* A line without a client name.
SkipLine ==
    /\ job.phase = "line"
    /\ Says(LineNow)["name"] = Blank
    /\ job' = Advanced(job)
    /\ UNCHANGED <<registers, customers, draft, imported, raced, runs>>

\* READ: a matching customer, or none and the next code.
Match ==
    /\ job.phase = "line"
    /\ Says(LineNow)["name"] # Blank
    /\ \/ \E c \in Duplicates(Says(LineNow)) :
            LET same == c = job.found IN
            /\ job' = [job EXCEPT !.phase = "write", !.found = c,
                                  !.seen = IF same THEN @ ELSE View(c).fields]
            /\ raced' = [d \in Customer |-> IF Written(d) \/ (d = c /\ same) THEN raced[d]
                                           ELSE {}]
       \/ \E n \in Code :
            /\ Duplicates(Says(LineNow)) = {}
            /\ IsNextCode(n)
            /\ job' = [job EXCEPT !.phase = "write", !.found = None, !.seen = NoFields,
                                  !.code = n]
            /\ UNCHANGED raced
    /\ UNCHANGED <<registers, customers, draft, imported, runs>>

\* WRITE of a new customer, unless a row has the code (uq_customers_org_code).
Create ==
    /\ job.phase = "write" /\ job.found = None
    /\ \A d \in Visible : View(d).code # job.code
    /\ \E c \in Customer :
         /\ Fresh(c)
         /\ draft' = [draft EXCEPT ![c] = [life |-> "present", code |-> job.code,
                                           fields |-> Says(LineNow)]]
    /\ job' = Advanced(Handled(job))
    /\ UNCHANGED <<registers, customers, imported, raced, runs>>

\* Mutant: the register knows better.
FillsAll(seen, says) == {f \in Field \ {"name"} : says[f] # Blank /\ says[f] # seen[f]}

\* The fields to fill: those blank on the object, and never the name.
Blanks(seen, says) == {f \in Field \ {"name"} : says[f] # Blank /\ seen[f] = Blank}

\* WRITE into the match: the UPDATE names the filled columns, and needs its row.
Fill ==
    LET c == job.found
        says == Says(LineNow)
        filled == Blanks(job.seen, says)
        Over(fields) == [f \in Field |-> IF f \in filled THEN says[f] ELSE fields[f]] IN
    /\ job.phase = "write" /\ c # None
    /\ filled # {}
    /\ View(c).life = "present"
    /\ draft' = [draft EXCEPT ![c] = [View(c) EXCEPT !.fields = Over(@)]]
    /\ job' = Advanced(Handled([job EXCEPT !.seen = Over(@)]))
    /\ UNCHANGED <<registers, customers, imported, raced, runs>>

\* Nothing to fill: an exact duplicate.
Keep ==
    /\ job.phase = "write" /\ job.found # None
    /\ Blanks(job.seen, Says(LineNow)) = {}
    /\ job' = Advanced(Handled(job))
    /\ UNCHANGED <<registers, customers, draft, imported, raced, runs>>

\* The line fails (its code taken, its row gone, a cell the database refuses): its
\* savepoint is rolled back, the session forgets the object, and the run goes on.
LineFails ==
    /\ job.phase = "write"
    /\ job' = Advanced([job EXCEPT !.found = None, !.seen = NoFields])
    /\ UNCHANGED <<registers, customers, draft, imported, raced, runs>>

\* The one commit.
Commit ==
    /\ job.phase = "open" /\ job.register > Len(registers)
    /\ customers' = [c \in Customer |-> View(c)]
    /\ draft' = [c \in Customer |-> Absent]
    /\ imported' = imported \cup job.handled
    /\ job' = Off
    /\ raced' = [c \in Customer |-> {}]
    /\ UNCHANGED <<registers, runs>>

\* The process ends, or a register cannot be read for another reason: no commit.
Crash ==
    /\ job.phase # "off"
    /\ draft' = [c \in Customer |-> Absent]
    /\ job' = Off
    /\ raced' = [c \in Customer |-> {}]
    /\ UNCHANGED <<registers, customers, imported, runs>>

-----------------------------------------------------------------------------
(* What the web commits meanwhile (the module Customers has the whole of   *)
(* it).  A row that the run has written is locked, and a code that it has  *)
(* given out makes a creation wait for the end of the run.                 *)

\* With the next code of the committed rows.
EnterCustomer ==
    \E c \in Customer, n \in Code, fields \in WebForms :
        /\ Fresh(c)
        /\ n - 1 \in {customers[d].code : d \in Customer} \cup {0}
        /\ \A d \in Customer : customers[d].code < n /\ draft[d].code # n
        /\ customers' = [customers EXCEPT ![c] = [life |-> "present", code |-> n,
                                                  fields |-> fields]]
        /\ UNCHANGED <<registers, draft, job, imported, raced, runs>>

\* The lines that were handled may no longer find a customer.
Upset == /\ job' = [job EXCEPT !.handled = {}, !.upset = (job.phase = "write")]
         /\ imported' = {}

EditCustomer ==
    \E c \in Customer, f \in WebField, v \in Value \cup {Blank} :
        /\ customers[c].life = "present" /\ ~Written(c)
        /\ customers[c].fields[f] # v
        /\ customers' = [customers EXCEPT ![c].fields[f] = v]
        /\ raced' = IF job.found = c THEN [raced EXCEPT ![c] = @ \cup {f}] ELSE raced
        /\ IF f \in Key THEN Upset ELSE UNCHANGED <<job, imported>>
        /\ UNCHANGED <<registers, draft, runs>>

DeleteCustomer ==
    \E c \in Customer :
        /\ customers[c].life = "present" /\ ~Written(c)
        /\ customers' = [customers EXCEPT ![c] = [Absent EXCEPT !.life = "deleted"]]
        /\ Upset
        /\ UNCHANGED <<registers, draft, raced, runs>>

Next ==
    \/ Start \/ PassOver \/ Open \/ SkipLine \/ Match \/ Create \/ Fill \/ Keep
    \/ LineFails \/ Commit \/ Crash
    \/ EnterCustomer \/ EditCustomer \/ DeleteCustomer

Spec == Init /\ [][Next]_vars

-----------------------------------------------------------------------------
(* Properties.                                                             *)

(***************************************************************************)
(* "preserve existing data": a run overwrites no field of a customer it    *)
(* found, but for one that the web wrote after the run had loaded the      *)
(* customer, however many lines of the two registers match it.             *)
(***************************************************************************)
Preserved ==
    \A c \in Customer : \A f \in Field :
        Written(c) /\ customers[c].life = "present"
            /\ draft[c].fields[f] # customers[c].fields[f]
          => customers[c].fields[f] = Blank \/ f \in raced[c]

(***************************************************************************)
(* The import never gives one GST number to two customers: not by creating *)
(* one, and not by filling in that of a customer it found by another key.  *)
(***************************************************************************)
GstUnique ==
    \A c, d \in Visible :
        View(c).fields["gst"] = View(d).fields["gst"] /\ View(c).fields["gst"] # Blank
          => c = d

Keyed(l) == \E k \in Key : Says(l)[k] # Blank

(***************************************************************************)
(* "re-running never creates duplicates": a line with a key that a run has *)
(* handled finds its customer again, in this run and after it, whatever    *)
(* lines and crashes come between, unless the web took a key or a customer *)
(* away.  (A line with a name alone is created again by every run.)        *)
(***************************************************************************)
HandledFound == \A l \in job.handled \cup imported : Keyed(l) => Duplicates(Says(l)) # {}

(***************************************************************************)
(* A line is read with each column under one field: no column is claimed   *)
(* twice, however many aliases its header contains.                        *)
(***************************************************************************)
ColumnsClaimedOnce ==
    job.phase = "line" =>
        LET map == HeaderMaps[registers][job.register] IN
        \A f, g \in Field : map[f] \cap map[g] # {} => f = g

-----------------------------------------------------------------------------
(* Why it holds.                                                           *)

\* What the web writes behind the run's back is what it may edit.
RacedByWeb == \A c \in Customer : raced[c] \subseteq WebField

\* The object of the line is a customer that was there, and what is blank on it is
\* blank in the table but for what the web wrote since.
SeenTrue ==
    job.found # None =>
        /\ View(job.found).life # "absent"
        /\ View(job.found).life = "present" =>
             \A f \in Field : job.seen[f] = Blank =>
                 View(job.found).fields[f] = Blank \/ f \in raced[job.found]

\* A row the run has written stays there for it.
DraftHeld ==
    \A c \in Customer : /\ draft[c].life # "deleted"
                        /\ Written(c) => customers[c].life # "deleted"

Inv == RacedByWeb /\ SeenTrue /\ DraftHeld /\ Preserved

(***************************************************************************)
(* The rest holds if it is the registers alone that bring keys: the web    *)
(* does not look for duplicates.                                           *)
(***************************************************************************)
KeysFromRegisters ==
    /\ WebField \cap Key = {}
    /\ \A fields \in WebForms : \A k \in Key : fields[k] = Blank

\* Between its two steps a line that is about to write its GST number has no rival.
NoRivalGst ==
    job.phase = "write" /\ (job.found = None \/ job.seen["gst"] = Blank)
        /\ Says(LineNow)["gst"] # Blank
      => Matching("gst", Says(LineNow)["gst"]) = {}

\* ... and one that has found its customer shares a key with it, unless the web interferes.
FoundByKey ==
    job.phase = "write" /\ ~job.upset /\ job.found # None =>
        \E k \in Key : job.found \in Matching(k, Says(LineNow)[k])

\* What committed runs handled is found among the committed rows.
ImportedFound ==
    \A l \in imported : Keyed(l) =>
        \E k \in Key, c \in Customer :
            /\ customers[c].life = "present"
            /\ Says(l)[k] # Blank /\ customers[c].fields[k] = Says(l)[k]

KeyInv == NoRivalGst /\ FoundByKey /\ ImportedFound /\ GstUnique /\ HandledFound

=============================================================================
