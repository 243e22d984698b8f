SPECIFICATION ApiSpec
CONSTANTS
  NumWorkers = 3
  MaxRooms = 2
  MaxClients = 2
  MaxAsked = 2
  alice = alice
  chat = chat
  s1 = s1
  s2 = s2
  Second = 3
  Threshold = 3
  Actors = {alice}
  Sockets = {s1, s2}
  Buckets = {chat}
  ActorOf <- TabsActor
  Capacity <- TabsCapacity
  RefillPerSec <- TabsRefill
  Grace = 3
  MaxCost = 3
  MaxClock = 6
  Codes = {c1, c2}
  Host = host
  Visitor = visitor
  None = none
  MaxEdits = 2
  MaxVisits = 2
  MaxCommands = 3
  Casts <- MCCasts
CHECK_DEADLOCK FALSE
INVARIANTS
  PoolSound
  OrderlyDrain
  StoreConsistent
  SustainedRate
  RetryAfterExact
  ListSettles
  LinksLead
PROPERTIES
  AlwaysEnds
  BehavesAsIdeal
  RoomsAreDurable
  CommandsAnswered
