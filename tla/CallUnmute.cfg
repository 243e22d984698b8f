SPECIFICATION Spec
CONSTANTS
  Users = {host, guest}
  Watched = {}
  HostUser = host
  PageSize = 1
  MaxSockets = 0
  MaxMoves = 0
  MaxActs = 3
  MaxHosts = 2
  MaxViews = 0
PROPERTY UnmuteIsNeverForced
CHECK_DEADLOCK FALSE
