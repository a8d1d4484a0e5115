SPECIFICATION Spec
CONSTANTS
  cs1 = cs1
  cs2 = cs2
  go1 = go1
  go2 = go2
  t1 = t1
  t2 = t2
  CServers = {cs1, cs2}
  GoServers = {go1, go2}
  Path = path
  TmpNames = {t1, t2}
  MaxTries = 2
  None = none
  Stale = stale
INVARIANTS TypeOK OneIsReached TmpNamesReturned
PROPERTY NoGap
SYMMETRY PathSymmetry
