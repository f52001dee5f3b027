\* One replica: a and b share a document, z has another, and a sends two snapshots.
\* The process, the subscription and UPDATEs may fail; every PUBLISH is answered.
SPECIFICATION Spec
CONSTANTS
  a = a  b = b  z = z  r1 = r1  r2 = r2  d1 = d1  d2 = d2
  Conns = {a, b, z}
  Instances = {r1}
  Docs = {d1, d2}
  StoredDocs = {d1}
  Home <- HomeOne
  DocOf <- DocOfTwo
  Bodies <- MCBodies
  RoomIds <- MCRoomIds
  Quota <- QuotaTwoOfA
  ClientTypes = {"syncRes"}
  Leavers = {}
  Stuck = {}
  NoBody = NoBody
  NoRoom = NoRoom
  NoFrame = NoFrame
  OutCap = 1
  MaxRetries = 1
  MaxUnanswered = 0
  SaveCap = 1
INVARIANTS
  TypeOK
  OneRoomPerDoc
PROPERTIES
  ImplementsRelay
  SavesGoForward
