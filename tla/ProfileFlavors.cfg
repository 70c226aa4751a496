SPECIFICATION Spec
CONSTANTS
  NilValue = NilValue
  Nil = NilValue
  Versions <- MCVersions
  Images <- MCImages
  CapabilityNames = {"architecture", "nic"}
  CapabilityValues <- MCCapabilityValues
  Architecture = "architecture"
  AMD64 = "amd64"
  ARM64 = "arm64"
  Preference <- MCPreference
  ImageNames = {"gl", "ub"}
  ImageName <- MCImageName
  MachineCapabilities <- MCMachineCapabilities
  Profiles <- FlavorParents
  NamespacedProfiles <- FlavorChildren
  MaxGeneration = 2
INVARIANTS
  TypeOK
  ParentSelectable
PROPERTIES
  StatusSelectable
  StatusOfOneGeneration
CHECK_DEADLOCK FALSE
