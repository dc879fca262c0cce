SPECIFICATION Spec
CONSTANTS
  a = a
  b = b
  Tasks = {a, b}
  Mixes <- MCMixes
  s1 = s1
  s2 = s2
  s3 = s3
  Sids <- MCSids
  None = none
  Cap = 1
  Ttl = 1
  RememberTtl = 2
  PermsTtl = 1
  ProfileTtl = 1
  Throttle = 1
  Sync = 1
SYMMETRY Symmetry
INVARIANTS CapKept ServedRecently
PROPERTIES GoneForGood
CHECK_DEADLOCK FALSE
