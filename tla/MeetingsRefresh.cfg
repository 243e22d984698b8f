SPECIFICATION MeetingsSpec
CONSTANTS
  Codes = {c1, c2}
  Host = host
  Visitor = visitor
  None = none
  MaxEdits = 0
  MaxVisits = 2
  MaxCommands = 0
  Casts = {{"visitor"}}
CHECK_DEADLOCK FALSE
INVARIANT RefreshesSeeThePreview
