SPECIFICATION Spec
CONSTANTS
  NilValue = NilValue
  Nil = NilValue
  Versions <- MCVersions
  Images <- MCImages
  CapabilityNames = {"architecture"}
  CapabilityValues <- MCCapabilityValues
  Architecture = "architecture"
  AMD64 = "amd64"
  ARM64 = "arm64"
  Preference <- MCPreference
  PoolNames = {"a", "b"}
  MachineTypes = {"small", "arm"}
  ProviderConfigs = {"plain", "extra"}
  LabelKeys = {"rack"}
  LabelValues = {"r1", "own"}
  ExtraServerLabels <- MCExtraServerLabels
  SecretNames = {}
  Ignitions = {}
  SecretRef <- NoSecretRef
  Specs <- LegacySpecs
  Profiles <- LegacyProfiles
  InitialStatuses <- LegacyInitialStatuses
  Supports <- MCSupports
  MaxDisturbances = 3
INVARIANTS
  PoolsRetained
CHECK_DEADLOCK FALSE
