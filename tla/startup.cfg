SPECIFICATION FairSpec
CONSTANTS
  p1 = p1
  p2 = p2
  p3 = p3
  p4 = p4
  old = old
  new = new
  other = other
  Replicas <- FourReplicas
  Passwords <- OldNewAndOther
  NoPassword = NoPassword
  Nobody = Nobody
  BROKER_CLIENT_PASSWORD <- RotatedEnvironment
  BROKER_PROTOCOL <- MixedProtocols
  ALEMBIC_RUN_MIGRATIONS = TRUE
INVARIANTS
  TypeOK
  ServingIsInitialized
  MigratesOnce
  WaitsForLiving
PROPERTIES
  StartupEnds
