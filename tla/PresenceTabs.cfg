CONSTANTS
  ann = ann  bob = bob
  a1 = a1  a2 = a2  b1 = b1
  s1 = s1  s2 = s2  s3 = s3
  Users = {ann, bob}
  Rooms = {room}
  Tabs = {a1, a2, b1}
  Sockets = {s1, s2, s3}
  UserOf <- TabUsers
  TabOf <- TwoTabs
  NoRoom = NoRoom  NoSocket = NoSocket
SPECIFICATION Spec
INVARIANTS TypeOK RegistryAgrees PendingLeaveMeansAbsent TranscriptLifetime
PROPERTY PeersKeepUp
