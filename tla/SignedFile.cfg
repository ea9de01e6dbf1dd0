CONSTANTS
  Normalizers = {n1}
  Officers = {h1}
  Signers = {g1, g2}
  Rewriters = {}
  Sources = {s1}
  Profiles = {p1}
  MaxVersions = 1
  Legacy = FALSE
  None = None

SPECIFICATION Spec

INVARIANT SignedFileKept

CHECK_DEADLOCK FALSE
