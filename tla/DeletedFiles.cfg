CONSTANTS
  Normalizers = {n1}
  Officers = {h1}
  Signers = {g1}
  Rewriters = {}
  Sources = {s1}
  Profiles = {p1}
  MaxVersions = 1
  Legacy = FALSE
  None = None

SPECIFICATION Spec

INVARIANT FilesGoWithEmployee

CHECK_DEADLOCK FALSE
