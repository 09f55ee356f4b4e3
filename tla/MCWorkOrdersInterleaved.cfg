SPECIFICATION Spec
CONSTANTS
  ann = ann
  eva = eva
  eli = eli
  zoe = zoe
  zed = zed
  office = office
  other = other
  s1 = s1
  s2 = s2
  None = None
  Org = {office, other}
  User = {ann, eva, eli}
  OrgOf <- MCOrgOf
  InitialUsers <- MCUsers
  Order = {o1}
  Slot = {s1, s2}
  Text = {}
  Endpoints <- WorkflowEndpoints
  Movable = {eva}
CHECK_DEADLOCK FALSE
SYMMETRY SlotSymmetry
INVARIANTS AssigneeMatchesStage AssigneeTold
