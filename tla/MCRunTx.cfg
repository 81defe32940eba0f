SPECIFICATION FairSpec
CONSTANTS
  r1 = r1  r2 = r2  r3 = r3  k1 = k1  k2 = k2  bad = bad  user = user  none = none
  noConn = noConn  c1 = c1  c2 = c2
  Requests = {r1, r2, r3}
  Conns = {c1}
  Roles = {user, bad}
  Keys = {k1, k2}
  RLS <- TwoRLS
  Role <- SomeRoles
  Claims <- SomeClaims
  ValidRoles = {user}
  Settable <- SomeValid
  MaxRetries = 1
  NoRole = none
  NoConn = noConn
INVARIANTS TypeOK RunsAsItself PoolIsClean
PROPERTIES OutcomeSpec RetriesAreSafe EveryCallReturns
CHECK_DEADLOCK FALSE
