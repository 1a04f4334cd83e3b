CONSTANTS
  p = p  q = q  c = c  nobody = nobody
  Subjects = {p, q}
  Creds = {c}
  Nobody = nobody
  Kinds <- MCKinds
  Roles = {"pool"}
  Hashes <- MCHashes
  Marks <- MCMarks
  Certs <- MCCerts
  Window = 3
  EpochLength = 3
  Depth = 2
  MaxHistory = 4
  MaxReplay = 2
  MaxBlocks = 4
  MaxGap = 2
  MaxCrashes = 0
SPECIFICATION Spec
INVARIANTS
  EpochBlocksExact
CHECK_DEADLOCK FALSE
