SPECIFICATION Spec
CONSTANTS
  ann = ann
  eva = eva
  eli = eli
  zoe = zoe
  zed = zed
  office = office
  other = other
  s1 = s1
  s2 = s2
  None = None
  Org = {office, other}
  User = {ann, eva, zoe}
  OrgOf <- MCOrgOf
  InitialUsers <- MCUsers
  Order = {o1}
  Slot = {s1, s2}
  Text = {}
  Endpoints <- AllEndpoints
  Movable = {}
CHECK_DEADLOCK FALSE
SYMMETRY SlotSymmetry
INVARIANTS CompletedStamped ClosedRequesterTold TenantIsolation Inv
PROPERTIES FreshCommitFollowsLifecycle
