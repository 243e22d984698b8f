SPECIFICATION Spec
CONSTANTS
  Users = {host, guest}
  Watched = {}
  HostUser = host
  PageSize = 1
  MaxSockets = 2
  MaxMoves = 4
  MaxActs = 0
  MaxHosts = 0
  MaxViews = 0
INVARIANT FocusIsPresent
CHECK_DEADLOCK FALSE
