CONSTANTS
  Normalizers = {n1, n2}
  Officers = {h1}
  Signers = {g1, g2}
  Rewriters = {r1}
  Sources = {s1, s2}
  Profiles = {p1}
  MaxVersions = 2
  Legacy = TRUE
  None = None

SPECIFICATION Spec
SYMMETRY Symmetry

INVARIANTS
  TypeOK
  OneCurrentVersion
  SignaturesAgree
  OfferedHasRequest

PROPERTIES
  SignedLeftByNormalizer
  PayslipSpec

CHECK_DEADLOCK FALSE
