SPECIFICATION FairSpec
CONSTANTS
  c1 = c1  c2 = c2  k1 = k1  k2 = k2  noKid = noKid  a = a  b = b
  noKey = noKey  noDoc = noDoc  failed = failed  pending = pending
  Callers = {c1, c2}
  Kids = {k1}
  NoKid = noKid
  Keys = {a, b}
  NoKey = noKey
  Docs <- Renamed
  NoDoc = noDoc
  Failed = failed
  Pending = pending
  CacheTTL = 0
  Hour = 2
  Minute = 1
  Timeout = 1
  Horizon = 4
INVARIANT TypeOK
PROPERTIES ServiceSpec EveryCallerAnswered RotationTaken
