----------------------- MODULE CloudProfileAdmission -----------------------
(***************************************************************************)
(* Admission of CloudProfiles and NamespacedCloudProfiles in the garden    *)
(* cluster, and the status of a NamespacedCloudProfile, from which its     *)
(* shoots take their machine images.                                       *)
(*   pkg/admission/mutator, pkg/admission/validator,                       *)
(*   pkg/apis/metal/validation/cloudprofile.go                             *)
(*                                                                         *)
(* A request passes the mutating and then the validating webhook.  Both    *)
(* read the parent CloudProfile of a NamespacedCloudProfile from the cache *)
(* of the manager, which may change in between.  Gardener's controller     *)
(* writes the status from what it has read, with the provider config of    *)
(* the parent; the mutator, which also sees status updates, merges the     *)
(* provider config of the NamespacedCloudProfile into it.                  *)
(*                                                                         *)
(* spec.machineImages is a function of the versions (of an image, see      *)
(* MachineImages); a provider config of the image names, to lists of       *)
(* entries, of which several may be about the same version.                *)
(***************************************************************************)
EXTENDS MachineImages, FiniteSets, SequencesExt

CONSTANTS
    ImageNames,            \* names of machine images
    ImageName(_),          \* the name in a (name, version) pair
    MachineCapabilities,   \* spec.machineCapabilities of the parent, NoCapabilities for none
    Profiles,              \* CloudProfiles that are submitted
    NamespacedProfiles,    \* NamespacedCloudProfiles that are submitted
    MaxGeneration          \* bound on the updates of the NamespacedCloudProfile

UsesCapabilities == DOMAIN MachineCapabilities # {}

ValidArchitectures == {AMD64, ARM64}

-----------------------------------------------------------------------------
(* Types.  What comes from a user is not validated yet.                    *)

ProviderFlavors == [image : Images \cup {Nil}, capabilities : Capabilities]

ProviderVersions == [version : Versions,
                     image : Images \cup {Nil},
                     architecture : CapabilityValues \cup {Nil},
                     flavors : SUBSET ProviderFlavors]

\* CloudProfileConfig.machineImages, Nil for an image that is not in it.
Configs == [ImageNames -> Seq(ProviderVersions) \cup {Nil}]

\* spec.machineImages: the flavors and the architectures of each version, Nil
\* for a version that is not in it.
CoreImages == [flavors : SUBSET Capabilities, architectures : SUBSET CapabilityValues]
MachineImageLists == [Versions -> CoreImages \cup {Nil}]

CloudProfileSpecs == [images : MachineImageLists, config : Configs \cup {Nil}]

NamespacedCloudProfiles == [spec : CloudProfileSpecs, generation : Nat, deleting : BOOLEAN]

NoConfig == [n \in ImageNames |-> Nil]

\* A missing provider config is an empty one.
ConfigOf(spec) == IF spec.config = Nil THEN NoConfig ELSE spec.config

Mapped(config) == {n \in ImageNames : config[n] # Nil}
Listed(images) == {v \in Versions : images[v] # Nil}

ASSUME AdmissionAssumption ==
    /\ \A v \in Versions : ImageName(v) \in ImageNames
    /\ MachineCapabilities \in Capabilities
    /\ UsesCapabilities => Architecture \in DOMAIN MachineCapabilities
    /\ Profiles \subseteq CloudProfileSpecs
    /\ NamespacedProfiles \subseteq CloudProfileSpecs
    /\ MaxGeneration \in Nat

ASSUME NilProfileAssumption ==
    /\ Nil \notin ProviderFlavors
    /\ Nil \notin ProviderVersions
    /\ Nil \notin Seq(ProviderVersions)
    /\ Nil \notin CoreImages
    /\ Nil \notin Configs
    /\ Nil \notin CloudProfileSpecs
    /\ Nil \notin NamespacedCloudProfiles

-----------------------------------------------------------------------------
(* Provider configs *)

\* helper.GroupVersionsByVersionString: where the entries of a version are.
Positions(config, v) ==
    IF config[ImageName(v)] # Nil
    THEN {i \in DOMAIN config[ImageName(v)] : config[ImageName(v)][i].version = v} ELSE {}

Entries(config, v) == {config[ImageName(v)][i] : i \in Positions(config, v)}

\* The architectures of all entries, whatever their format
\* (CollectAvailableArchitectures, providerMachineImageKey).
AvailableArchitectures(entries) == {OrAMD64(e.architecture) : e \in entries}

\* FindCapabilityFlavorsVersion: the flavors of the FIRST entry that has some.
FirstFlavors(config, v) ==
    LET listed == config[ImageName(v)]
        flavored == {i \in Positions(config, v) : listed[i].flavors # {}}
    IN  IF flavored = {} THEN {}
        ELSE listed[CHOOSE i \in flavored : \A j \in flavored : i <= j].flavors

-----------------------------------------------------------------------------
(* Mutation *)

\* Mutant: a missing architecture is not that of AMD64.
ProviderCapabilitiesAsGiven(e) ==
    IF e.flavors # {} THEN {f.capabilities : f \in e.flavors}
    ELSE IF e.image # Nil THEN {ArchitectureOnly(e.architecture)} ELSE {}

ProviderCapabilities(e) ==
    IF e.flavors # {} THEN {f.capabilities : f \in e.flavors}
    ELSE IF e.image # Nil THEN {ArchitectureOnly(OrAMD64(e.architecture))} ELSE {}

\* The flavors of a version become those of all its entries.
MutateMachineImageCapabilityFlavors(images, config) ==
    [v \in Versions |->
        IF images[v] = Nil \/ Entries(config, v) = {} THEN images[v]
        ELSE [images[v] EXCEPT !.flavors = UNION {ProviderCapabilities(e) : e \in Entries(config, v)}]]

\* The same for a CloudProfile and (with its parent's machine capabilities)
\* a NamespacedCloudProfile.
MutateProfile(profile) ==
    IF ~UsesCapabilities \/ profile.config = Nil THEN profile
    ELSE [profile EXCEPT !.images = MutateMachineImageCapabilityFlavors(@, profile.config)]

-----------------------------------------------------------------------------
(* Validation *)

\* gutil.ValidateCapabilities: only defined names and values, and one
\* architecture where several are defined.
ValidCapabilities(caps) ==
    /\ DOMAIN caps \subseteq DOMAIN MachineCapabilities
    /\ \A n \in DOMAIN caps : caps[n] \subseteq MachineCapabilities[n]
    /\ Cardinality(MachineCapabilities[Architecture]) > 1 =>
          Architecture \in DOMAIN caps /\ Cardinality(caps[Architecture]) = 1

\* Mutant: the format is not looked at.
ValidProviderVersionByArchitecture(e) == OrAMD64(e.architecture) \in ValidArchitectures

\* Exactly one of the two formats, the new one only with capabilities.
ValidProviderVersion(e) ==
    \/ /\ UsesCapabilities
       /\ e.flavors # {} /\ e.image = Nil /\ e.architecture = Nil
       /\ \A f \in e.flavors : ValidCapabilities(f.capabilities) /\ f.image # Nil
    \/ /\ e.flavors = {} /\ e.image # Nil
       /\ OrAMD64(e.architecture) \in ValidArchitectures

ValidProviderMachineImage(listed) ==
    listed # << >> /\ \A i \in DOMAIN listed : ValidProviderVersion(listed[i])

\* GetImageFlavorsWithAppliedDefaults: no flavors are one of everything.
DefaultedFlavors(image) ==
    IF image.flavors = {} THEN {MachineCapabilities}
    ELSE {WithDefaults(caps, MachineCapabilities) : caps \in image.flavors}

\* ValidateMissingCapabilityFlavors, ValidateMissingArchitectures: what the
\* spec asks for is in the provider config.
NoneMissing(image, config, v) ==
    LET provided == FirstFlavors(config, v)
    IN  \A wanted \in DefaultedFlavors(image) :
            IF provided # {}
            THEN \E f \in provided : WithDefaults(f.capabilities, MachineCapabilities) = wanted
            ELSE wanted[Architecture] \subseteq AvailableArchitectures(Entries(config, v))

\* ValidateExcessCapabilityFlavors, ValidateExcessArchitectures: the converse.
NoneInExcess(image, config, v) ==
    LET provided == FirstFlavors(config, v)
    IN  IF provided # {}
        THEN \A f \in provided : WithDefaults(f.capabilities, MachineCapabilities) \in DefaultedFlavors(image)
        ELSE \A a \in AvailableArchitectures(Entries(config, v)) :
                \E wanted \in DefaultedFlavors(image) : a \in wanted[Architecture]

\* Mutant: the architectures are not compared.
ValidMappingByVersion(images, config, v) ==
    /\ ImageName(v) \in Mapped(config)
    /\ Entries(config, v) # {}
    /\ UsesCapabilities => NoneMissing(images[v], config, v)

\* validateProviderImagesMapping for one version.
ValidMapping(images, config, v) ==
    /\ ImageName(v) \in Mapped(config)
    /\ IF UsesCapabilities
       THEN Entries(config, v) # {} /\ NoneMissing(images[v], config, v)
       ELSE images[v].architectures \subseteq
                ValidArchitectures \cap AvailableArchitectures(Entries(config, v))

ValidCloudProfile(profile) ==
    /\ profile.config # Nil
    /\ Mapped(profile.config) # {}
    /\ \A n \in Mapped(profile.config) : ValidProviderMachineImage(profile.config[n])
    /\ \A v \in Listed(profile.images) : ValidMapping(profile.images, profile.config, v)

\* A version of the spec that the parent does not have needs entries.
ValidNamespacedVersion(images, config, of, v) ==
    /\ ImageName(v) \in Mapped(config) \/ \E w \in Listed(of.images) : ImageName(w) = ImageName(v)
    /\ v \notin Listed(of.images) =>
        IF UsesCapabilities
        THEN /\ Entries(config, v) # {}
             /\ NoneMissing(images[v], config, v)
             /\ NoneInExcess(images[v], config, v)
        ELSE images[v].architectures \subseteq AvailableArchitectures(Entries(config, v))

\* An entry is about a version of the spec that the parent does not have, and
\* about an architecture of it.
ValidNamespacedEntry(images, of, e) ==
    /\ e.version \notin Listed(of.images)
    /\ e.version \in Listed(images)
    /\ IF UsesCapabilities
       THEN e.image # Nil /\ e.flavors = {} =>
                \E wanted \in DefaultedFlavors(images[e.version]) :
                    OrAMD64(e.architecture) \in wanted[Architecture]
       ELSE OrAMD64(e.architecture) \in images[e.version].architectures

ValidNamespacedCloudProfile(profile, of) ==
    LET config == ConfigOf(profile)
    IN  /\ \A v \in Listed(profile.images) : ValidNamespacedVersion(profile.images, config, of, v)
        /\ \A n \in Mapped(config) :
              /\ ValidProviderMachineImage(config[n])
              /\ \E v \in Listed(profile.images) : ImageName(v) = n
              /\ \A i \in DOMAIN config[n] : ValidNamespacedEntry(profile.images, of, config[n][i])

-----------------------------------------------------------------------------
(* Merging *)

\* The entries of an image by version: of several about one version the LAST.
LastEntries(listed) ==
    {listed[i] : i \in {j \in DOMAIN listed : \A k \in DOMAIN listed :
                            listed[k].version = listed[j].version => k <= j}}

\* Mutant: the status has priority.
MergeKeepingStatus(listed, inStatus) ==
    LastEntries(inStatus) \cup {e \in LastEntries(listed) : \A f \in LastEntries(inStatus) : f.version # e.version}

\* The spec has priority.
MergeVersions(listed, inStatus) ==
    LastEntries(listed) \cup {e \in LastEntries(inStatus) : \A f \in LastEntries(listed) : f.version # e.version}

\* Mutant: an image of the spec replaces that of the status.
MergeImages(config, inStatus) ==
    [n \in ImageNames |-> IF config[n] # Nil THEN config[n] ELSE inStatus[n]]

\* Both configs map an image: by version, in any order.  One of them does: as
\* it is.
MergeMachineImages(config, inStatus) ==
    [n \in ImageNames |->
        IF inStatus[n] = Nil THEN config[n]
        ELSE IF config[n] = Nil THEN inStatus[n]
        ELSE SetToSeq(MergeVersions(config[n], inStatus[n]))]

-----------------------------------------------------------------------------
(* State *)

VARIABLES
    parent,    \* the CloudProfile, Nil before it is created
    cached,    \* what the cache of the webhooks' manager has of it
    request,   \* a request between the two webhooks
    ncp,       \* the NamespacedCloudProfile
    reading,   \* what Gardener's controller has read to write the status
    status     \* the status of the NamespacedCloudProfile

vars == <<parent, cached, request, ncp, reading, status>>

\* A request for a CloudProfile or a NamespacedCloudProfile.
Requests == [namespaced : BOOLEAN, profile : CloudProfileSpecs]

\* status.cloudProfileSpec and status.observedGeneration
Statuses == [images : MachineImageLists, config : Configs, observedGeneration : Nat]

Init ==
    /\ parent = Nil
    /\ cached = Nil
    /\ request = Nil
    /\ ncp = Nil
    /\ reading = Nil
    /\ status = Nil

-----------------------------------------------------------------------------
(* CloudProfiles *)

\* Gardener refuses to remove versions that a NamespacedCloudProfile may use.
MutateCloudProfile ==
    /\ request = Nil
    /\ \E profile \in Profiles :
        /\ parent # Nil => Listed(parent.images) \subseteq Listed(profile.images)
        /\ request' = [namespaced |-> FALSE, profile |-> MutateProfile(profile)]
    /\ UNCHANGED <<parent, cached, ncp, reading, status>>

ValidateCloudProfile ==
    /\ request # Nil
    /\ ~request.namespaced
    /\ ValidCloudProfile(request.profile)
    /\ parent' = request.profile
    /\ request' = Nil
    /\ UNCHANGED <<cached, ncp, reading, status>>

RejectCloudProfile ==
    /\ request # Nil
    /\ ~request.namespaced
    /\ ~ValidCloudProfile(request.profile)
    /\ request' = Nil
    /\ UNCHANGED <<parent, cached, ncp, reading, status>>

\* The watch of the webhooks' manager delivers an update.
SyncCache ==
    /\ cached # parent
    /\ cached' = parent
    /\ UNCHANGED <<parent, request, ncp, reading, status>>

-----------------------------------------------------------------------------
(* NamespacedCloudProfiles *)

Deleting == ncp # Nil /\ ncp.deleting

\* The mutator reads the parent only if there is something to mutate, and
\* fails without it.
MutateNamespacedCloudProfile ==
    /\ request = Nil
    /\ ncp # Nil => ncp.generation < MaxGeneration
    /\ \E profile \in NamespacedProfiles :
        /\ Deleting \/ profile.config = Nil \/ Listed(profile.images) = {} \/ cached # Nil
        /\ request' = [namespaced |-> TRUE,
                       profile |-> IF Deleting THEN profile ELSE MutateProfile(profile)]
    /\ UNCHANGED <<parent, cached, ncp, reading, status>>

AdmitsNamespaced ==
    \/ Deleting
    \/ cached # Nil /\ ValidNamespacedCloudProfile(request.profile, cached)

\* The API server counts a generation for each change of the spec.
ValidateNamespacedCloudProfile ==
    /\ request # Nil
    /\ request.namespaced
    /\ AdmitsNamespaced
    /\ ncp' = IF ncp = Nil THEN [spec |-> request.profile, generation |-> 1, deleting |-> FALSE]
              ELSE IF request.profile = ncp.spec THEN ncp
              ELSE [spec |-> request.profile, generation |-> ncp.generation + 1, deleting |-> ncp.deleting]
    /\ request' = Nil
    /\ UNCHANGED <<parent, cached, reading, status>>

RejectNamespacedCloudProfile ==
    /\ request # Nil
    /\ request.namespaced
    /\ ~AdmitsNamespaced
    /\ request' = Nil
    /\ UNCHANGED <<parent, cached, ncp, reading, status>>

\* The deletion timestamp is a change of generation, too.
DeleteNamespacedCloudProfile ==
    /\ ncp # Nil
    /\ ~ncp.deleting
    /\ ncp.generation < MaxGeneration
    /\ ncp' = [spec |-> ncp.spec, generation |-> ncp.generation + 1, deleting |-> TRUE]
    /\ UNCHANGED <<parent, cached, request, reading, status>>

-----------------------------------------------------------------------------
(* The status *)

\* Gardener's controller, at any time: a change, a resync, a retry.
ReadForStatus ==
    /\ ncp # Nil
    /\ parent # Nil
    /\ reading = Nil
    /\ reading' = [parent |-> parent, spec |-> ncp.spec, generation |-> ncp.generation]
    /\ UNCHANGED <<parent, cached, request, ncp, status>>

\* The versions of the parent, and those of the NamespacedCloudProfile that
\* the parent does not have.
MergedImages ==
    [v \in Versions |-> IF reading.parent.images[v] # Nil THEN reading.parent.images[v]
                        ELSE reading.spec.images[v]]

\* Mutant: the generation is not compared.
MergeAlways(generation, observedGeneration) == TRUE

\* shouldMergeStatus; the provider config of a written status is never nil.
ShouldMergeStatus(generation, observedGeneration) == generation = observedGeneration

\* The controller's write with the mutator's merge, for which the request
\* carries the current spec and generation.
WriteStatus ==
    /\ reading # Nil
    /\ status' = [images |-> MergedImages,
                  config |-> IF /\ ~ncp.deleting
                                /\ ncp.spec.config # Nil
                                /\ ShouldMergeStatus(ncp.generation, reading.generation)
                             THEN MergeMachineImages(ncp.spec.config, reading.parent.config)
                             ELSE reading.parent.config,
                  observedGeneration |-> reading.generation]
    /\ reading' = Nil
    /\ UNCHANGED <<parent, cached, request, ncp>>

-----------------------------------------------------------------------------
(* Specification *)

Admission == ValidateCloudProfile \/ RejectCloudProfile
          \/ ValidateNamespacedCloudProfile \/ RejectNamespacedCloudProfile

Next ==
    \/ MutateCloudProfile \/ MutateNamespacedCloudProfile
    \/ Admission
    \/ SyncCache
    \/ DeleteNamespacedCloudProfile
    \/ ReadForStatus
    \/ WriteStatus

\* An admission request ends.  Gardener's controller retries and resyncs.
Fairness == WF_vars(Admission) /\ WF_vars(ReadForStatus) /\ WF_vars(WriteStatus)

Spec == Init /\ [][Next]_vars /\ Fairness

-----------------------------------------------------------------------------
(* Properties *)

\* Every variable has its type.
TypeOK ==
    /\ parent \in CloudProfileSpecs \cup {Nil}
    /\ cached \in CloudProfileSpecs \cup {Nil}
    /\ request \in Requests \cup {Nil}
    /\ ncp \in NamespacedCloudProfiles \cup {Nil}
    /\ reading \in [parent : CloudProfileSpecs, spec : CloudProfileSpecs, generation : Nat] \cup {Nil}
    /\ status \in Statuses \cup {Nil}

\* The (normalised) capabilities of the machine types a profile may have.
MachineTypeCapabilities ==
    IF UsesCapabilities
    THEN {caps \in Capabilities :
            /\ DOMAIN caps \subseteq DOMAIN MachineCapabilities
            /\ \A n \in DOMAIN caps : caps[n] \subseteq MachineCapabilities[n]}
    ELSE {ArchitectureOnly(a) : a \in ValidArchitectures}

\* A shoot may ask for the image on such a machine type.
Offered(image, caps) ==
    IF UsesCapabilities
    THEN \E flavor \in DefaultedFlavors(image) : Compatible(flavor, caps, MachineCapabilities)
    ELSE \E a \in image.architectures : caps = ArchitectureOnly(a)

\* What spec.machineImages offers of version v the Worker controller finds in
\* the provider config.
Selectable(images, config, v) ==
    \A caps \in MachineTypeCapabilities : Offered(images[v], caps) =>
        LET found == FindImageInCloudProfile(Entries(config, v), caps,
                                             NormalizeCapabilityDefinitions(MachineCapabilities))
        IN  found # Nil /\ found.image \in Images

\* Mutation, validation and the lookup of the Worker controller agree: of an
\* admitted CloudProfile every version is found for every machine type it is
\* offered for.
ParentSelectable ==
    parent # Nil => \A v \in Listed(parent.images) : Selectable(parent.images, parent.config, v)

\* The status is written for the current generation.
StatusAnswers == status' # status /\ reading.generation = ncp.generation /\ ~ncp.deleting

\* Exempt are a version that the parent has got after the NamespacedCloudProfile
\* was admitted with it, and one with several entries in an image that both map.
Intact(v) ==
    LET own == ConfigOf(ncp.spec)
        of == reading.parent
    IN  /\ Entries(own, v) = {} \/ v \notin Listed(of.images)
        /\ ImageName(v) \in Mapped(own) \cap Mapped(of.config) =>
              Cardinality(Positions(own, v)) <= 1 /\ Cardinality(Positions(of.config, v)) <= 1

\* The same for the status that the shoots of a NamespacedCloudProfile use,
\* whatever happened to parent and cache since it was admitted.
StatusSelectable ==
    [][StatusAnswers => \A v \in Listed(status'.images) :
            Intact(v) => Selectable(status'.images, status'.config, v)]_vars

AllEntries(config) == UNION {{config[n][i] : i \in DOMAIN config[n]} : n \in Mapped(config)}

\* A status never mixes generations: next to the entries of the parent it has
\* only those of the spec that its observedGeneration stands for, although the
\* mutator merges the spec of the moment of the write.
StatusOfOneGeneration ==
    [][status' # status =>
          AllEntries(status'.config) \subseteq
              AllEntries(reading.parent.config) \cup AllEntries(ConfigOf(reading.spec))]_vars

\* All images a NamespacedCloudProfile maps are in its status, with priority
\* over those of the parent.
SpecInStatus ==
    /\ status # Nil
    /\ status.observedGeneration = ncp.generation
    /\ \A n \in Mapped(ConfigOf(ncp.spec)) :
          LastEntries(ncp.spec.config[n]) \subseteq AllEntries(status.config)

\* A NamespacedCloudProfile gets such a status, however its updates, those of
\* the parent and the status writes interleave.
StatusSettles == ncp # Nil ~> Deleting \/ SpecInStatus

\* What pkg/admission/mutator/namespacedcloudprofile.go:99-100 says of merging:
\* the format of a version is preserved, that is, all its entries are kept.
StatusKeepsEntries ==
    [][StatusAnswers => \A v \in Versions :
            LET own == Entries(ConfigOf(ncp.spec), v)
            IN  Entries(status'.config, v) =
                    IF own # {} THEN own ELSE Entries(reading.parent.config, v)]_vars

\* What pkg/admission/mutator/cloudprofile.go:86 and
\* pkg/apis/metal/validation/cloudprofile.go:79-81 say: entries of both formats
\* may be about one version.  A CloudProfile is refused only for an invalid
\* entry or a version without entries.
SiblingsAdmitted ==
    [][UsesCapabilities /\ RejectCloudProfile =>
          LET profile == request.profile
          IN  \/ profile.config = Nil
              \/ Mapped(profile.config) = {}
              \/ \E n \in Mapped(profile.config) : ~ValidProviderMachineImage(profile.config[n])
              \/ \E v \in Listed(profile.images) : Entries(profile.config, v) = {}]_vars

=============================================================================
