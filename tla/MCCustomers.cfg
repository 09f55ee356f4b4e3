SPECIFICATION Spec
CONSTANTS
  ann = ann
  eva = eva
  office = office
  branch = branch
  c1 = c1
  c2 = c2
  c3 = c3
  theirs = theirs
  None = None
  Org = {office, branch}
  User = {ann, eva}
  OrgOf <- MCOrgOf
  InitialUsers <- MCUsers
  Customer = {c1, c2, c3, theirs}
  CustomerOrg <- MCCustomerOrg
  Existing = {theirs}
  Order = {o1}
  Code <- MCCode
  Slot = {s1, s2}
SYMMETRY CustomerSymmetry
CHECK_DEADLOCK FALSE
INVARIANTS TypeOK LinksHold CreationLosesToRival DeletionLooked TrailTells Inv
