SPECIFICATION Spec
CONSTANTS
  c1 = c1
  c2 = c2
  c3 = c3
  v = v
  w = w
  None = None
  Blank = Blank
  Customer = {c1, c2, c3}
  Code <- MCCode
  Value = {v, w}
  Header <- MCHeader
  Exact <- MCExact
  Part <- MCPart
  RegisterSets <- MCRegisterSets
  Tables <- MCTables
  WebField = {"other"}
  WebForms <- MCWebForms
  MaxRuns = 2
SYMMETRY NewcomerSymmetry
CHECK_DEADLOCK FALSE
INVARIANTS TypeOK Preserved GstUnique HandledFound ColumnsClaimedOnce
