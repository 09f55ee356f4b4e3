SPECIFICATION Spec
CONSTANTS
  ann = ann
  bob = bob
  eva = eva
  nia = nia
  office = office
  p2 = p2
  None = None
  Org = {office}
  User = {ann, bob, nia}
  OrgOf <- MCOrgOf
  InitialUsers <- MCUsers
  InitialPhone <- MCPhone
  Founder = ann
  Slot = {s1}
  Phone = {p2}
  Endpoints <- WithoutSeed
  Holdable = {}
CHECK_DEADLOCK FALSE
INVARIANTS DeletedStaysInactive PhoneUnique
PROPERTIES AdminRemains
