SPECIFICATION Spec
CONSTANTS
  Roles = {"user", "admin", "anon"}
  Empty = Empty
  NotAString = NotAString
  ClaimKeys = {"role", "sub"}
  KeyOf <- MCKeyOf
  NoKey = NoKey
  Covers <- MCCovers
  Entries = {"block", "single", "mapped", "typo"}
  Peers = {"gw1", "gw2", "unix"}
  Nil = Nil
  NoAuthz = NoAuthz
  NotBearer = NotBearer
  Null = Null
  Broken = Broken
  Secrets = {"s1", "s2"}
  PublicKeys = {"k1"}
  Sections <- MCSections
  HeaderMaps <- MCHeaderMaps
  Texts = {"me", "us", "them", "jwt"}
  Composites <- MCComposites
  Calls <- MCCalls
  MaxNow = 2
  MaxTokens = 1
INVARIANTS TypeOK NeverConnectionRole OnlyListedPeers NeverFailsOpen RolesAreAllowed MintedIsAccepted
CHECK_DEADLOCK FALSE
