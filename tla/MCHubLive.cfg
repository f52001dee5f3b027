\* z never reads: a, which sends two snapshots and may leave, must go on.
SPECIFICATION UpSpec
CONSTANTS
  a = a  b = b  z = z  r1 = r1  r2 = r2  d1 = d1  d2 = d2
  Conns = {a, z}
  Instances = {r1}
  Docs = {d1}
  StoredDocs = {d1}
  Home <- HomeOne
  DocOf <- DocOfOne
  Bodies <- MCBodies
  RoomIds <- MCRoomIds
  Quota <- QuotaTwoOfA
  ClientTypes = {"syncRes"}
  Leavers = {a}
  Stuck = {z}
  NoBody = NoBody
  NoRoom = NoRoom
  NoFrame = NoFrame
  OutCap = 2
  MaxRetries = 1
  MaxUnanswered = 0
  SaveCap = 2
INVARIANT ClosedIsSilent
PROPERTIES
  SlowPeersDoNoHarm
  HandlersReturn
  LastSnapshotWins
CHECK_DEADLOCK FALSE
