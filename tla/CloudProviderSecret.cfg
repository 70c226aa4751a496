SPECIFICATION FairSpec
CONSTANTS
  NilValue = NilValue
  MalformedValue = MalformedValue
  TokenPath = TokenPath
  Nil = NilValue
  Malformed = MalformedValue
  Refused = Refused
  Panic = Panic
  Tokens = {"t1", "t2"}
  Namespaces = {"ns", "NS", "metal"}
  Usernames = {"u"}
  Servers <- MCServers
  ValidNamespaces = {"ns", "metal"}
  Credentials <- MCCredentials
  Region = "home"
  Regions <- MCRegions
  Profiles <- MCProfiles
  MetalNamespace = "metal"
  TokenFile = TokenPath
  MaxDisturbances = 4
INVARIANTS
  TypeOK
  KubeconfigCoherent
  ManagerCurrent
  CheckedCredentialsDeploy
PROPERTIES
  KubeconfigSettles
  ManagersSettle
CHECK_DEADLOCK FALSE
