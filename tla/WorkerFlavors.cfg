SPECIFICATION Spec
CONSTANTS
  NilValue = NilValue
  Nil = NilValue
  Versions = {"v1"}
  Images <- NicImages
  CapabilityNames = {"architecture", "nic"}
  CapabilityValues <- NicCapabilityValues
  Architecture = "architecture"
  AMD64 = "amd64"
  ARM64 = "arm64"
  Preference <- NicPreference
  PoolNames = {"s", "f"}
  MachineTypes = {"std", "fast"}
  ProviderConfigs = {"plain", "extra"}
  LabelKeys = {"rack"}
  LabelValues = {"r1", "own"}
  ExtraServerLabels <- MCExtraServerLabels
  SecretNames = {}
  Ignitions = {}
  SecretRef <- NoSecretRef
  Specs <- NicSpecs
  Profiles <- NicProfiles
  InitialStatuses <- MCInitialStatuses
  Supports <- NicSupports
  MaxDisturbances = 4
INVARIANTS
  ImagesFit
  PoolsRetained
  RebuildChangesLastOnly
CHECK_DEADLOCK FALSE
