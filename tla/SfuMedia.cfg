SPECIFICATION MediaSpec
CONSTANTS
  a = a
  b = b
  Peers = {a, b}
  Casts <- MCCasts
  MaxTransports = 4
  MaxProducers = 5
INVARIANTS OffersAreTrue VideoClosuresTold LeftoversExplained MuteEnforced
