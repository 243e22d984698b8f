SPECIFICATION Spec
CONSTANTS
  a = a
  s1 = s1
  s2 = s2
  Tabs = {a}
  Sockets = {s1, s2}
  TabOf <- Reconnecting
  Sessions = {1, 2}
  RefinerEnabled = TRUE
  MaxKept = 1
  MaxTurns = 2
  MaxControls = 2
  MaxToggles = 3
  MaxRestarts = 1
  NoSocket = NoSocket
  NoSession = NoSession
INVARIANTS MirrorsFollowStore SessionsReachable StoppedMeansIdle
