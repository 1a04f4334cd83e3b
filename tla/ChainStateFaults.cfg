CONSTANTS
  a1 = a1  a2 = a2  b1 = b1  e1 = e1
  k1 = k1  k2 = k2  none = none
  tok = tok  hdl = hdl  sub = sub
  p1 = p1  p2 = p2  d1 = d1
  t0 = t0  t1 = t1  t2 = t2  t3 = t3  t4 = t4  t5 = t5  t6 = t6  t7 = t7
  Addrs = {a1, a2, b1, e1}
  Creds = {k1, k2}
  NoCred = none
  CredOf <- MCCredOf
  Assets = {tok, hdl, sub}
  Handles = {hdl, sub}
  Virtual = {sub}
  Pools = {p1, p2}
  DReps = {d1}
  Nobody = Nobody
  Unchanged = Unchanged
  Txs = {t0, t1, t2, t3, t4, t5, t6, t7}
  Body <- MCBody
  EpochLength = 2
  Earned <- MCEarned
  Genesis <- MCGenesis
  MaxHistory = 2
  MaxBlocks = 3
  BlockSize = 1
  MaxGap = 1
  Issuers = {p1}
  Faults = {"input", "reward", "lag", "ahead"}
SPECIFICATION Spec
INVARIANTS
  BalancesNeverBelowLedger
  FaultsStayLocal
CHECK_DEADLOCK FALSE
