SPECIFICATION RoomsSpec
CONSTANTS
  s1 = s1
  s2 = s2
  s3 = s3
  q1 = q1
  q2 = q2
  q3 = q3
  q4 = q4
  r1 = r1
  r2 = r2
  NoRoom = NoRoom
  NoRouter = NoRouter
  MaxEnding = 1
  Sockets = {s1, s2, s3}
  Requests = {q1, q2, q3, q4}
  Rooms = {r1, r2}
  Admins = {s1}
  SocketOf <- TwoRoomsSocket
  RoomOf <- TwoRoomsRoom
INVARIANTS RouterHeldWhileUsed NoIdleRoom LeaksOnlyByRaces
