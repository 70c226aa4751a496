SPECIFICATION Spec
CONSTANTS
  NilValue = NilValue
  Nil = NilValue
  Versions <- MCVersions
  Images <- MCImages
  CapabilityNames = {"architecture"}
  CapabilityValues <- MCCapabilityValues
  Architecture = "architecture"
  AMD64 = "amd64"
  ARM64 = "arm64"
  Preference <- MCPreference
  PoolNames = {"a", "b"}
  MachineTypes = {"small", "arm"}
  ProviderConfigs = {"plain", "extra"}
  LabelKeys = {"rack", "gpu"}
  LabelValues = {"r1", "r2", "own"}
  ExtraServerLabels <- MCExtraServerLabels
  SecretNames = {"ignition"}
  Ignitions = {"i1", "i2"}
  SecretRef <- MCSecretRef
  Specs <- MCSpecs
  Profiles <- MCProfiles
  InitialStatuses <- MCInitialStatuses
  Supports <- MCSupports
  MaxDisturbances = 3
INVARIANTS
  TypeOK
  DeploymentsBacked
  MachinesBacked
  UsedVersionsSelectable
  SettledWhenDone
PROPERTIES
  HashedContentKept
CHECK_DEADLOCK FALSE
