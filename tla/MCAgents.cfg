SPECIFICATION TableSpec
CONSTANTS
  sa = sa
  sb = sb
  sc = sc
  sd = sd
  ua = ua
  ub = ub
  uc = uc
  NoSid = NoSid
  NoUid = NoUid
  Sids <- FourSids
  Uids <- ThreeUids
SYMMETRY Sym
INVARIANTS TableTypeOK TableConsistent SoleSessionReachable
CHECK_DEADLOCK FALSE
