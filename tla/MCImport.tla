------------------------------ MODULE MCImport ------------------------------
(***************************************************************************)
(* Small instances of Import for TLC: a GST register and an income-tax     *)
(* register whose lines name the same few clients by different keys, over  *)
(* a table with one customer that lacks some of them.                      *)
(***************************************************************************)
EXTENDS Import, TLC

CONSTANTS c1, c2, c3, v, w

MCHeader == {"GSTIN", "PAN No", "Mobile", "Company Name", "Name"}

MCExact == [f \in Field |->
              CASE f = "gst" -> {"GSTIN"} [] f = "pan" -> {"PAN No"} [] f = "mobile" -> {"Mobile"}
                [] f = "other" -> {"Company Name"} [] f = "name" -> {"Name"}
                [] OTHER -> {}]

\* "Company Name" contains "pan".
MCPart == [f \in Field |->
             CASE f = "pan" -> {"PAN No", "Company Name"}
               [] f = "name" -> {"Name", "Company Name"}
               [] OTHER -> MCExact[f]]

\* A line: what it says under its register's columns.
Cells(gst, pan, mobile, company, name) ==
    [h \in MCHeader |->
        CASE h = "GSTIN" -> gst [] h = "PAN No" -> pan [] h = "Mobile" -> mobile
          [] h = "Company Name" -> company [] h = "Name" -> name]

\* Lines of the GST register come in pairs that have a key in common, or no key at all.
GstLines == {<<Cells(v, Blank, Blank, Blank, v), Cells(v, Blank, v, Blank, v)>>,
             <<Cells(v, Blank, Blank, Blank, v), Cells(w, Blank, v, Blank, v)>>,
             <<Cells(v, Blank, v, Blank, Blank), Cells(Blank, Blank, v, v, v)>>}

TaxLine == {Cells(Blank, v, v, w, v), Cells(Blank, Blank, Blank, w, v)}

MCRegisterSets ==
    {<<[headers |-> <<"GSTIN", "Mobile", "Company Name", "Name">>, lines |-> ls],
       [headers |-> <<"Name", "Company Name", "PAN No", "Mobile">>, lines |-> <<l>>]>> :
       ls \in GstLines, l \in TaxLine}
    \cup {<<[headers |-> <<"GSTIN", "Mobile">>, lines |-> <<Cells(v, Blank, v, Blank, Blank)>>],
            [headers |-> <<"Name">>, lines |-> <<>>]>>}

Known(gst, mobile, other) ==
    [life |-> "present", code |-> 1,
     fields |-> [NoFields EXCEPT !["gst"] = gst, !["mobile"] = mobile, !["other"] = other,
                                 !["name"] = v]]

MCTables == {[c \in Customer |-> IF c = c1 THEN k ELSE Absent] :
               k \in {Known(v, v, Blank), Known(Blank, v, v)}}

MCWebForms == {[NoFields EXCEPT !["name"] = w]}

MCCode == 1..4

NewcomerSymmetry == Permutations(Customer \ {c1})

=============================================================================
