SPECIFICATION TableSpec
CONSTANTS
  sa = sa
  sb = sb
  sc = sc
  sd = sd
  ua = ua
  ub = ub
  uc = uc
  NoSid = NoSid
  NoUid = NoUid
  Sids <- TwoSids
  Uids <- OneUid
INVARIANT PlayerReachable
CHECK_DEADLOCK FALSE
