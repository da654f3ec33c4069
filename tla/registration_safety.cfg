SPECIFICATION Spec
CONSTANTS
  r1 = r1
  r2 = r2
  r3 = r3
  n1 = n1
  nobody = nobody
  Requests <- ThreeRequests
  Names <- OneName
  Nobody = nobody
  SERVER_WORKERS = 3
  LatePuts = FALSE
SYMMETRY RequestSymmetry
INVARIANTS
  TypeOK
  OneHandlerPerName
  StoredPasswordInForce
  ShownIsProvisioned
  QueueMissingOnlyByFault
PROPERTIES
  ShownStays
  ConfiguredUnderReservation
  ReservesNames
