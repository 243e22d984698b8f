SPECIFICATION FairSetup
CONSTANTS
  p1 = p1
  p2 = p2
  ann = ann
  Producers <- MCProducers
  OwnerOf <- MCOwnerOf
  Voices <- MCVoices
  MaxRetries = 1
  MaxConns = 2
  MaxEvents = 2
CHECK_DEADLOCK FALSE
INVARIANTS StatusIsTrue TilesMatchProducers
PROPERTY RecoveryEnds
