SPECIFICATION FairSpec
CONSTANTS
  w1 = w1  w2 = w2  s1 = s1  c1 = c1  c2 = c2  n1 = n1  n2 = n2
  none = none  noCatalog = noCatalog
  Watchers = {w1}
  Sessions = {s1}
  Channels = {c1, c2}
  Names = {n1, n2}
  Channel <- OneChannel
  TriggerName <- OneName
  DefaultName <- DefaultNames
  ValidNames = {c1, c2, n1, n2}
  NoName = none
  NoCatalog = noCatalog
  NumParts = 1
  SilentParts = {}
  Content <- Alternating
  PoolSize = 2
  MaxQueue = 2
  MaxVersion = 1

PROPERTY NotifiedDriftAnnounced
