--------------------------- MODULE MachineImages ---------------------------
(***************************************************************************)
(* How the Worker controller turns (image name, version, machine type)     *)
(* into one provider image, and how it keeps the list of used images in    *)
(* the Worker's provider status.                                           *)
(*   pkg/apis/metal/helper/helper.go                                       *)
(*   pkg/controller/worker/machine_images.go                               *)
(*                                                                         *)
(* A "version" stands for the pair (image name, image version): the code   *)
(* never compares one without the other.  Capabilities are a partial       *)
(* function from capability names to non-empty sets of values; a name that *)
(* is left out means "every value of the definition".                      *)
(***************************************************************************)
EXTENDS Integers, Sequences

CONSTANTS
    Versions,          \* (name, version) pairs of machine images
    Images,            \* provider image references
    CapabilityNames,   \* capability names, "architecture" among them
    CapabilityValues,  \* values of capabilities, the architectures among them
    Architecture,      \* the name of the architecture capability
    AMD64, ARM64,      \* the two architectures Gardener knows
    Nil,               \* an absent value: a nil pointer, an empty string, no result
    Preference(_)      \* rank of a capability set, smaller is better (see BestFlavor)

ASSUME ArchitectureAssumption ==
    /\ Architecture \in CapabilityNames
    /\ {AMD64, ARM64} \subseteq CapabilityValues

ASSUME NilAssumption ==
    /\ Nil \notin Versions
    /\ Nil \notin Images
    /\ Nil \notin CapabilityValues

-----------------------------------------------------------------------------
(* Types *)

\* gardencorev1beta1.Capabilities.
Capabilities == UNION {[names -> (SUBSET CapabilityValues) \ {{}}] : names \in SUBSET CapabilityNames}

ASSUME PreferenceAssumption == \A caps \in Capabilities : Preference(caps) \in Nat

NoCapabilities == [n \in {} |-> {}]

ArchitectureOnly(arch) == [n \in {Architecture} |-> {arch}]

\* metalapi.MachineImageFlavor.
Flavors == [image : Images, capabilities : Capabilities]

\* metalapi.MachineImageVersion: the old format (image, architecture), or the
\* new one (a list of flavors; its order is of no consequence here).
VersionEntries == [image : Images \cup {Nil},
                   architecture : {AMD64, ARM64, Nil},
                   flavors : SUBSET Flavors]

\* metalapi.MachineImage, an entry of the Worker's provider status.  Nil as
\* architecture is a nil pointer.
StatusImages == [version : Versions,
                 image : Images,
                 architecture : {AMD64, ARM64, Nil},
                 capabilities : Capabilities]

ASSUME NilRecordAssumption ==
    /\ Nil \notin Flavors
    /\ Nil \notin StatusImages
    /\ Nil \notin Seq(StatusImages)

\* ptr.Deref(architecture, v1beta1constants.ArchitectureAMD64)
OrAMD64(arch) == IF arch = Nil THEN AMD64 ELSE arch

-----------------------------------------------------------------------------
(* Capabilities.  A definition is a function from the defined names to all *)
(* their values.                                                           *)

\* With no definitions in the CloudProfile there are the two architectures.
NormalizeCapabilityDefinitions(defs) ==
    IF DOMAIN defs # {} THEN defs
    ELSE [n \in {Architecture} |-> {AMD64, ARM64}]

\* The machine type's own architecture, else the only one that is defined,
\* else that of the worker pool.
NormalizeMachineTypeCapabilities(caps, arch, defs) ==
    LET only == {a \in CapabilityValues : Architecture \in DOMAIN defs /\ defs[Architecture] = {a}}
        chosen == IF only # {} THEN only ELSE {OrAMD64(arch)}
    IN  IF Architecture \in DOMAIN caps THEN caps
        ELSE [n \in DOMAIN caps \cup {Architecture} |->
                IF n = Architecture THEN chosen ELSE caps[n]]

\* gardencorev1beta1.GetCapabilitiesWithAppliedDefaults
WithDefaults(caps, defs) ==
    [n \in DOMAIN defs |-> IF n \in DOMAIN caps THEN caps[n] ELSE defs[n]]

\* gardencorev1beta1helper.AreCapabilitiesEqual, after defaulting both sides
EqualCapabilities(a, b, defs) == WithDefaults(a, defs) = WithDefaults(b, defs)

\* gardencorev1beta1helper.AreCapabilitiesCompatible: every capability has a
\* value that both sides support.
Compatible(a, b, defs) ==
    \A n \in DOMAIN defs : WithDefaults(a, defs)[n] \cap WithDefaults(b, defs)[n] # {}

-----------------------------------------------------------------------------
(* Lookup in the CloudProfile *)

\* An old-format entry becomes one flavor with its (defaulted) architecture;
\* an entry with flavors contributes them.
EntryFlavors(entry) ==
    IF entry.image # Nil /\ entry.flavors = {}
    THEN {[image |-> entry.image, capabilities |-> ArchitectureOnly(OrAMD64(entry.architecture))]}
    ELSE entry.flavors

ConvertLegacyVersionsToCapabilityFlavors(entries) == UNION {EntryFlavors(e) : e \in entries}

\* worker.FindBestImageFlavor: of the compatible flavors the one whose
\* capabilities are preferred (the definitions list names and values by
\* priority; Preference abstracts that order).
BestFlavor(flavors, machineCaps, defs) ==
    CHOOSE f \in flavors :
        /\ Compatible(f.capabilities, machineCaps, defs)
        /\ \A g \in flavors : Compatible(g.capabilities, machineCaps, defs) =>
              Preference(f.capabilities) <= Preference(g.capabilities)

\* The best flavor of all entries of the version, Nil (an error) when none fits.
FindImageInCloudProfile(entries, machineCaps, defs) ==
    LET flavors == ConvertLegacyVersionsToCapabilityFlavors(entries)
    IN  IF \E f \in flavors : Compatible(f.capabilities, machineCaps, defs)
        THEN BestFlavor(flavors, machineCaps, defs) ELSE Nil

-----------------------------------------------------------------------------
(* Lookup in the provider status *)

\* A status entry of the old format carries an architecture and no capabilities.
StatusCapabilities(img) ==
    IF DOMAIN img.capabilities = {} /\ img.architecture # Nil
    THEN ArchitectureOnly(img.architecture) ELSE img.capabilities

\* Mutant: the capabilities are not compared.
StatusMatchesByVersion(img, version, machineCaps, defs) == img.version = version

StatusMatches(img, version, machineCaps, defs) ==
    /\ img.version = version
    /\ Compatible(StatusCapabilities(img), machineCaps, defs)

\* The FIRST entry that fits, Nil (an error) when none does.
FindImageInWorkerStatus(images, version, machineCaps, defs) ==
    LET fitting == {i \in DOMAIN images : StatusMatches(images[i], version, machineCaps, defs)}
    IN  IF fitting = {} THEN Nil
        ELSE images[CHOOSE i \in fitting : \A j \in fitting : i <= j]

\* The profile first; any failure there falls back to the provider status,
\* which is Nil until the first status update.
SelectMachineImageForWorkerPool(entries, status, version, arch, machineCaps, defs) ==
    LET flavor == FindImageInCloudProfile(entries, machineCaps, defs)
    IN  IF flavor # Nil
        THEN [version |-> version, image |-> flavor.image,
              architecture |-> arch, capabilities |-> flavor.capabilities]
        ELSE IF status # Nil THEN FindImageInWorkerStatus(status, version, machineCaps, defs)
        ELSE Nil

\* Machines with the capabilities run what has AMD64 as its architecture.
RunsAMD64(caps, defs) ==
    Architecture \in DOMAIN defs => AMD64 \in defs[Architecture] \cap WithDefaults(caps, defs)[Architecture]

-----------------------------------------------------------------------------
(* The list of used images.  The definitions are normalised and hence      *)
(* never empty when the code gets here, so its branches for clusters       *)
(* without capability definitions cannot be taken and are not modelled.    *)

SameImage(a, b, defs) ==
    a.version = b.version /\ EqualCapabilities(a.capabilities, b.capabilities, defs)

\* Mutant: one entry per version.
AppendByVersion(images, img, defs) ==
    IF \E i \in DOMAIN images : images[i].version = img.version THEN images
    ELSE Append(images, [img EXCEPT !.architecture = Nil])

\* Appends unless an entry for the version has the same capabilities.  What is
\* appended keeps the capabilities but not the architecture.
AppendMachineImage(images, img, defs) ==
    IF \E i \in DOMAIN images : SameImage(images[i], img, defs) THEN images
    ELSE Append(images, [img EXCEPT !.architecture = Nil])

\* An image without capabilities is given its architecture as one.
UniformImage(img) ==
    IF DOMAIN img.capabilities # {} THEN img
    ELSE [img EXCEPT !.capabilities = ArchitectureOnly(OrAMD64(img.architecture)),
                     !.architecture = Nil]

\* Mutant: the list is taken as it is.
LeaveMachineImages(images, defs) == images

\* ensureUniformMachineImages as it is written: every image of the list is
\* made uniform and appended to a new list.
RebuildUniform(images, defs) ==
    LET list[i \in 0..Len(images)] ==
            IF i = 0 THEN << >> ELSE AppendMachineImage(list[i - 1], UniformImage(images[i]), defs)
    IN  list[Len(images)]

\* What it comes to.  Every image but the last went through it in the previous
\* iteration of UpdateMachineImagesStatus, so it can only rewrite, or drop as a
\* duplicate, the last one (property RebuildChangesLastOnly of module Worker).
EnsureUniformMachineImages(images, defs) ==
    IF images = << >> THEN images
    ELSE AppendMachineImage(SubSeq(images, 1, Len(images) - 1),
                            UniformImage(images[Len(images)]), defs)

=============================================================================
