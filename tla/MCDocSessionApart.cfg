\* The user switches to another document and back.
SPECIFICATION Spec
CONSTANTS
  A = A  B = B
  Docs = {A, B}
  NoDoc = NoDoc
  MaxAttempts = 5
  MaxSockets = 2
  MaxGets = 1
INVARIANT DocumentsStayApart
