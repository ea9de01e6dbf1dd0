CONSTANTS
  Normalizers = {n1}
  Officers = {h1}
  Signers = {g1}
  Rewriters = {r1}
  Sources = {s1}
  Profiles = {p1, p2}
  MaxVersions = 1
  Legacy = FALSE
  None = None

SPECIFICATION Spec

INVARIANT SignedOriginalKept

CHECK_DEADLOCK FALSE
