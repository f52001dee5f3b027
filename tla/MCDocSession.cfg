\* Two documents, two sockets with events outstanding, one request for each.
SPECIFICATION Spec
CONSTANTS
  A = A  B = B
  Docs = {A, B}
  NoDoc = NoDoc
  MaxAttempts = 5
  MaxSockets = 2
  MaxGets = 1
INVARIANTS
  TypeOK
  OneLiveSocket
  ConnectedIsReal
PROPERTY ReconnectsAfterDrop
