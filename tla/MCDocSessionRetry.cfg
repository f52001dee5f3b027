\* A handshake fails.
SPECIFICATION Spec
CONSTANTS
  A = A  B = B
  Docs = {A}
  NoDoc = NoDoc
  MaxAttempts = 5
  MaxSockets = 2
  MaxGets = 1
PROPERTY RetriesUntilGivenUp
