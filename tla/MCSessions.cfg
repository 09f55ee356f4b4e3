SPECIFICATION Spec
CONSTANTS
  ann = ann
  nia = nia
  p1 = p1
  None = None
  User = {ann, nia}
  Password = {p1, p2}
  Token = {t1, t2, t3}
  Link = {k1}
  Slot = {s1}
  Endpoints <- SelfService
  InitialPassword <- MCPassword
SYMMETRY SessionSymmetry
CHECK_DEADLOCK FALSE
INVARIANTS LiveSessionsKnowPassword OneLivePerLogin SerialInv
PROPERTY PasswordChangeProved
