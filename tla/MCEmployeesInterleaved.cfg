SPECIFICATION Spec
CONSTANTS
  ann = ann
  bob = bob
  eva = eva
  nia = nia
  office = office
  p2 = p2
  None = None
  Org = {office}
  User = {ann, eva}
  OrgOf <- MCOrgOf
  InitialUsers <- MCUsers
  InitialPhone <- MCPhone
  Founder = ann
  Slot = {s1, s2}
  Phone = {}
  Endpoints <- WithoutPut
  Holdable = {eva}
SYMMETRY SlotSymmetry
CHECK_DEADLOCK FALSE
INVARIANTS TypeOK AuditTellsRole AuditTellsStatus
