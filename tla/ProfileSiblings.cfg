SPECIFICATION Spec
CONSTANTS
  NilValue = NilValue
  Nil = NilValue
  Versions <- MCVersions
  Images <- MCImages
  CapabilityNames = {"architecture"}
  CapabilityValues <- LegacyCapabilityValues
  Architecture = "architecture"
  AMD64 = "amd64"
  ARM64 = "arm64"
  Preference <- MCPreference
  ImageNames = {"gl", "ub"}
  ImageName <- MCImageName
  MachineCapabilities <- NoMachineCapabilities
  Profiles <- LegacyParents
  NamespacedProfiles <- LegacyChildren
  MaxGeneration = 2
PROPERTIES
  StatusKeepsEntries
CHECK_DEADLOCK FALSE
