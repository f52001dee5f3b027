\* Two clients of one document on two replicas: a sends two frames, b may leave.
\* Anything may fail; a PUBLISH of one of the frames may be left unanswered.
SPECIFICATION Spec
CONSTANTS
  a = a  b = b  z = z  r1 = r1  r2 = r2  d1 = d1  d2 = d2
  Conns = {a, b}
  Instances = {r1, r2}
  Docs = {d1}
  StoredDocs = {d1}
  Home <- HomeTwo
  DocOf <- DocOfOne
  Bodies <- MCBodies
  RoomIds <- MCRoomIds
  Quota <- QuotaTwoOfA
  ClientTypes = {"update"}
  Leavers = {b}
  Stuck = {}
  NoBody = NoBody
  NoRoom = NoRoom
  NoFrame = NoFrame
  OutCap = 1
  MaxRetries = 1
  MaxUnanswered = 1
  SaveCap = 1
INVARIANTS
  MembersAreJoined
  RemoteInOrder
  LocalAtMostTwice
  ClosedIsSilent
