SPECIFICATION SdkSpec
CONSTANTS
  r1 = r1
  r2 = r2
  r3 = r3
  n1 = n1
  nobody = nobody
  Requests <- OneRequest
  Names <- OneName
  Nobody = nobody
  SERVER_WORKERS = 2
  LatePuts = FALSE
PROPERTIES
  ConfigMeansCredentials
