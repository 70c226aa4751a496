SPECIFICATION Spec
CONSTANTS
  NilValue = NilValue
  MalformedValue = MalformedValue
  Nil = NilValue
  Malformed = MalformedValue
  Refused = Refused
  Panic = Panic
  Allowed = Allowed
  Half = 4
  Strings <- MCStrings
  FeatureGates <- MCFeatureGates
  Sizes <- MCSizes
  Objects <- MCObjects
  Shoots <- MCShoots
  Contents <- MCContents
  Watched <- Parts
  Base <- MCBase
  LocalAPI = "true"
  WebhookRegistered = FALSE
  MaxDisturbances = 2
INVARIANTS
  AdmittedWorkersFindTheirSecret
CHECK_DEADLOCK FALSE
