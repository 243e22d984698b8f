SPECIFICATION Spec
CONSTANTS
  Users = {host, guest}
  Watched = {guest}
  HostUser = host
  PageSize = 1
  MaxSockets = 3
  MaxMoves = 4
  MaxActs = 4
  MaxHosts = 2
  MaxViews = 4
INVARIANTS MuteAgrees ChatIsHonest StartsAreWanted StageIsSound PagesAgree MiniPlayerIsTrue
CHECK_DEADLOCK FALSE
