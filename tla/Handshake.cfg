SPECIFICATION FairSpec
CONSTANTS
  Profiles <- Servers
  ClientField = 24
  Field19 = 13
  Field23 = 24
  MaxResends = 3
INVARIANTS TypeOK ReadyForUse Authenticated Readable
PROPERTIES StateAdvances HandshakeEnds
CHECK_DEADLOCK FALSE
