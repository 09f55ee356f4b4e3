SPECIFICATION Spec
CONSTANTS
  ann = ann
  nia = nia
  p1 = p1
  None = None
  User = {ann, nia}
  Password = {p1, p2}
  Token = {t1, t2}
  Link = {}
  Slot = {s1, s2}
  Endpoints <- WithoutLinks
  InitialPassword <- MCPassword
SYMMETRY RequestSymmetry
CHECK_DEADLOCK FALSE
INVARIANTS TypeOK
PROPERTY RevokedByOwner
