------------------------------ MODULE Worker ------------------------------
(***************************************************************************)
(* The Worker controller (pkg/controller/worker) at work on one Worker     *)
(* resource: the extension's worker delegate, the generic worker actuator  *)
(* of the Gardener extension library that calls it, and the                *)
(* machine-controller-manager (MCM) that consumes what both write.         *)
(*                                                                         *)
(* Every call to the API server is one step, in the order of the code; the *)
(* shoot owner, the operator who edits the CloudProfile, the MCM and a     *)
(* crash or a failed call may come between any two of them.                *)
(***************************************************************************)
EXTENDS MachineImages, Functions

CONSTANTS
    PoolNames, MachineTypes, ProviderConfigs, \* names of pools and machine types; raw provider configs
    LabelKeys, LabelValues,   \* of server labels
    ExtraServerLabels,        \* extraServerLabels of each provider config
    SecretNames, Ignitions,   \* secrets that may be referenced, documents of ignition in them
    SecretRef,                \* extraIgnition.secretRef of each provider config, Nil without one
    Specs,            \* the values of Worker.spec.pools
    Profiles,         \* the CloudProfiles, with their provider config
    InitialStatuses,  \* provider status left by earlier releases of the extension
    Supports,         \* what each image really runs on: a machine has to have one of these values
    MaxDisturbances   \* bound on edits, failed calls and crashes together

\* An entry of Worker.spec.pools.
Pools == [name : PoolNames,
          zones : Nat \ {0},
          version : Versions,
          machineType : MachineTypes,
          architecture : {AMD64, ARM64, Nil},
          inPlace : BOOLEAN,
          config : ProviderConfigs]

ServerLabels == UNION {[keys -> LabelValues] : keys \in SUBSET LabelKeys}

\* types: the capabilities of each machine type in CloudProfile.spec.machineTypes.
\* serverLabels: those of each machine type in the provider config.
CloudProfiles == [definitions : UNION {[names -> (SUBSET CapabilityValues) \ {{}}] : names \in SUBSET CapabilityNames},
                  types : UNION {[mts -> Capabilities] : mts \in SUBSET MachineTypes},
                  serverLabels : [MachineTypes -> ServerLabels],
                  versions : [Versions -> SUBSET VersionEntries]]

DeploymentNames == UNION {{<<p.name, z>> : z \in 1..p.zones} : p \in UNION {Range(s) : s \in Specs}}

PoolHashes == (Versions \X MachineTypes \X ProviderConfigs) \cup {<< >>}

ClassNames == DeploymentNames \X PoolHashes

\* The provider spec of a MachineClass.  config stands for what is written into
\* it from the pool's provider config alone; ignition is what the secret adds.
ClassSpecs == [image : Images,
               config : ProviderConfigs,
               serverLabels : ServerLabels,
               ignition : Ignitions \cup {Nil}]

NoClass == Nil

\* What a pool asks selectMachineImageForWorkerPool for.
Requests == [version : Versions,
             capabilities : Capabilities,
             definitions : UNION {[names -> (SUBSET CapabilityValues) \ {{}}] : names \in SUBSET CapabilityNames}]

Snapshots == [spec : Specs, profile : Profiles, ignitions : [SecretNames -> Ignitions \cup {Nil}]]

Phases == {"idle", "classes", "secrets", "images", "deployments", "rollout",
           "prune", "cleanClasses", "cleanSecrets"}

ASSUME WorkerAssumption ==
    /\ MaxDisturbances \in Nat
    /\ ExtraServerLabels \in [ProviderConfigs -> ServerLabels]
    /\ SecretRef \in [ProviderConfigs -> SecretNames \cup {Nil}]
    /\ Nil \notin SecretNames
    /\ \A s \in Specs :
         /\ s \in Seq(Pools)
         /\ \A i, j \in DOMAIN s : s[i].name = s[j].name => i = j
    /\ \A s \in InitialStatuses : s = Nil \/ s \in Seq(StatusImages)
    /\ Profiles \subseteq CloudProfiles
    /\ Supports \in [Images -> Capabilities]
    /\ Nil \notin ClassNames
    /\ Nil \notin ClassSpecs
    /\ Nil \notin Requests

VARIABLES
    spec,         \* Worker.spec.pools
    profile,      \* the CloudProfile of the shoot's Cluster resource
    ignitions,    \* the ignition in each secret, Nil if it cannot be read
    status,       \* Worker.status.providerStatus.machineImages, Nil when unset
    classes,      \* the MachineClasses in the shoot namespace
    secrets,      \* names of the machine class secrets there
    deployments,  \* the MachineDeployments and the class each refers to
    machines,     \* the classes that live machines were created from
    pc,           \* where the running reconciliation is
    snap,         \* the spec and profile the delegate was constructed with, the ignitions it read
    todo,         \* objects of this phase still to be written or deleted
    collected,    \* UpdateMachineImagesStatus: the list built so far
    recorded,     \* history: what each pool asked for at the last status update
    disturbances  \* number of disturbances so far

cluster == <<spec, profile, ignitions, status>>
objects == <<classes, secrets, deployments, machines>>
control == <<pc, snap, todo, collected>>
vars == <<cluster, objects, control, recorded, disturbances>>

-----------------------------------------------------------------------------
(* The delegate's pure functions, over the pools ps and CloudProfile pr it *)
(* was constructed with.                                                   *)

\* Mutant: the provider config is forgotten for rolling pools too.
HashWithoutConfig(p) ==
    IF p.inPlace THEN << >> ELSE <<p.version, p.machineType, CHOOSE c \in ProviderConfigs : TRUE>>

\* With an in-place strategy neither the provider config nor the image version
\* is part of the hash (worker.WorkerPoolHash drops what is updated in place).
HashForWorkerPool(p) ==
    IF p.inPlace THEN << >> ELSE <<p.version, p.machineType, p.config>>

ClassName(p, z) == <<<<p.name, z>>, HashForWorkerPool(p)>>

\* GenerateMachineDeployments: per pool and zone a deployment with its class.
WantedDeployments(ps) == UNION {{<<p.name, z>> : z \in 1..p.zones} : p \in Range(ps)}

PoolOf(ps, d) == CHOOSE p \in Range(ps) : p.name = d[1]

WantedClass(ps, d) == ClassName(PoolOf(ps, d), d[2])

\* Mutant: the loop over the zones ends too early.
WantedClassesFirstZone(ps) == {WantedClass(ps, d) : d \in {e \in WantedDeployments(ps) : e[2] = 1}}

WantedClasses(ps) == {WantedClass(ps, d) : d \in WantedDeployments(ps)}

Definitions(pr) == NormalizeCapabilityDefinitions(pr.definitions)

MachineCapabilities(pr, p) ==
    NormalizeMachineTypeCapabilities(pr.types[p.machineType], OrAMD64(p.architecture), Definitions(pr))

SelectImage(pr, p) ==
    SelectMachineImageForWorkerPool(pr.versions[p.version], status, p.version,
        OrAMD64(p.architecture), MachineCapabilities(pr, p), Definitions(pr))

\* The labels of the pool's own config replace those of the machine type.
GetServerLabelsForMachine(pr, p) ==
    LET extra  == ExtraServerLabels[p.config]
        common == pr.serverLabels[p.machineType]
    IN  [k \in DOMAIN extra \cup DOMAIN common |-> IF k \in DOMAIN extra THEN extra[k] ELSE common[k]]

\* What the referenced secret adds (the merge itself is in ExtraIgnition).
SecretIgnition(ign, p) == IF SecretRef[p.config] = Nil THEN Nil ELSE ign[SecretRef[p.config]]

\* generateMachineClassAndSecrets fails as a whole if one pool's machine type,
\* image, server labels or secret are missing.
Reconcilable(pr, ign, p) ==
    /\ p.machineType \in DOMAIN pr.types
    /\ SelectImage(pr, p) # Nil
    /\ DOMAIN GetServerLabelsForMachine(pr, p) # {}
    /\ SecretRef[p.config] # Nil => SecretIgnition(ign, p) # Nil

ClassSpec(pr, ign, p) ==
    [image |-> SelectImage(pr, p).image,
     config |-> p.config,
     serverLabels |-> GetServerLabelsForMachine(pr, p),
     ignition |-> SecretIgnition(ign, p)]

-----------------------------------------------------------------------------
Init ==
    /\ spec \in Specs
    /\ profile \in Profiles
    /\ ignitions \in [SecretNames -> Ignitions \cup {Nil}]
    /\ status \in InitialStatuses
    /\ classes = [c \in ClassNames |-> NoClass]
    /\ secrets = {}
    /\ deployments = [d \in DeploymentNames |-> NoClass]
    /\ machines = {}
    /\ pc = "idle"
    /\ snap = Nil
    /\ todo = {}
    /\ collected = << >>
    /\ recorded = [n \in PoolNames |-> Nil]
    /\ disturbances = 0

-----------------------------------------------------------------------------
(* The environment *)

Disturb ==
    /\ disturbances < MaxDisturbances
    /\ disturbances' = disturbances + 1

\* ValidateWorkersUpdate: a pool keeps its zones (new ones may be appended), and
\* an in-place pool its provider config.  (Gardener itself: a pool keeps its update strategy.)
WorkersUpdateAdmitted(old, new) ==
    \A p \in Range(old), q \in Range(new) : p.name = q.name =>
        /\ p.zones <= q.zones
        /\ p.inPlace = q.inPlace
        /\ p.inPlace => p.config = q.config

\* The shoot owner changes the workers.  A version that a pool does not use
\* already has to be in the CloudProfile (Gardener's shoot admission).
EditSpec(new) ==
    /\ Disturb
    /\ WorkersUpdateAdmitted(spec, new)
    /\ \A q \in Range(new) :
          \/ \E p \in Range(spec) : p.name = q.name /\ p.version = q.version
          \/ profile.versions[q.version] # {}
    /\ spec' = new
    /\ UNCHANGED <<profile, ignitions, status, objects, control, recorded>>

\* The operator changes the CloudProfile; used versions may disappear.
EditProfile(new) ==
    /\ Disturb
    /\ profile' = new
    /\ UNCHANGED <<spec, ignitions, status, objects, control, recorded>>

\* The shoot owner changes a secret, or gardenlet copies it or removes the copy.
EditSecret(s, new) ==
    /\ Disturb
    /\ ignitions' = [ignitions EXCEPT ![s] = new]
    /\ UNCHANGED <<spec, profile, status, objects, control, recorded>>

\* A failed call, an error or a restart ends the reconciliation wherever it is;
\* it is retried from the beginning.
Abort ==
    /\ Disturb
    /\ pc # "idle"
    /\ pc' = "idle"
    /\ snap' = Nil
    /\ todo' = {}
    /\ collected' = << >>
    /\ UNCHANGED <<cluster, objects, recorded>>

-----------------------------------------------------------------------------
(* Reconciliation *)

Present == [spec |-> spec, profile |-> profile, ignitions |-> ignitions]

\* WorkerDelegate, GenerateMachineDeployments, and of DeployMachineClasses the
\* generation of all classes and secrets.  One pool that cannot be generated is
\* an error: nothing is written then.  Secrets are read here and not again.
StartReconcile ==
    /\ pc = "idle"
    /\ \A p \in Range(spec) : Reconcilable(profile, ignitions, p)
    /\ pc' = "classes"
    /\ snap' = Present
    /\ todo' = WantedClasses(spec)
    /\ UNCHANGED <<cluster, objects, collected, recorded, disturbances>>

\* Mutant: a class is created, not applied; creating it again is an error.
CreateMachineClass(d) ==
    /\ pc = "classes"
    /\ d \in WantedDeployments(snap.spec)
    /\ WantedClass(snap.spec, d) \in todo
    /\ classes[WantedClass(snap.spec, d)] = NoClass
    /\ classes' = [classes EXCEPT ![WantedClass(snap.spec, d)] =
                      ClassSpec(snap.profile, snap.ignitions, PoolOf(snap.spec, d))]
    /\ todo' = todo \ {WantedClass(snap.spec, d)}
    /\ UNCHANGED <<cluster, secrets, deployments, machines, pc, snap, collected, recorded, disturbances>>

\* DeployMachineClasses: first every class ...
PatchMachineClass(d) ==
    /\ pc = "classes"
    /\ d \in WantedDeployments(snap.spec)
    /\ WantedClass(snap.spec, d) \in todo
    /\ classes' = [classes EXCEPT ![WantedClass(snap.spec, d)] =
                      ClassSpec(snap.profile, snap.ignitions, PoolOf(snap.spec, d))]
    /\ todo' = todo \ {WantedClass(snap.spec, d)}
    /\ UNCHANGED <<cluster, secrets, deployments, machines, pc, snap, collected, recorded, disturbances>>

\* Mutant: a class that could not be patched does not stop the loop.
ClassesTried ==
    /\ pc = "classes"
    /\ pc' = "secrets"
    /\ todo' = WantedClasses(snap.spec)
    /\ UNCHANGED <<cluster, objects, snap, collected, recorded, disturbances>>

\* ... then every secret.
ClassesPatched ==
    /\ pc = "classes" /\ todo = {}
    /\ pc' = "secrets"
    /\ todo' = WantedClasses(snap.spec)
    /\ UNCHANGED <<cluster, objects, snap, collected, recorded, disturbances>>

PatchClassSecret(c) ==
    /\ pc = "secrets"
    /\ c \in todo
    /\ secrets' = secrets \cup {c}
    /\ todo' = todo \ {c}
    /\ UNCHANGED <<cluster, classes, deployments, machines, pc, snap, collected, recorded, disturbances>>

\* UpdateMachineImagesStatus iterates over the pools; todo holds the indices
\* of those to come.
SecretsPatched ==
    /\ pc = "secrets" /\ todo = {}
    /\ pc' = "images"
    /\ todo' = DOMAIN snap.spec
    /\ collected' = << >>
    /\ UNCHANGED <<cluster, objects, snap, recorded, disturbances>>

\* One iteration: select, make the list uniform, append.
CollectImage ==
    /\ pc = "images"
    /\ \E i \in todo :
          LET image == SelectImage(snap.profile, snap.spec[i])
              defs == Definitions(snap.profile)
          IN  /\ \A j \in todo : i <= j
              /\ image # Nil
              /\ collected' = AppendMachineImage(EnsureUniformMachineImages(collected, defs), image, defs)
              /\ todo' = todo \ {i}
    /\ UNCHANGED <<cluster, objects, pc, snap, recorded, disturbances>>

Request(pr, p) ==
    [version |-> p.version, capabilities |-> MachineCapabilities(pr, p), definitions |-> Definitions(pr)]

\* updateWorkerProviderStatus replaces the list.
PatchProviderStatus ==
    /\ pc = "images" /\ todo = {}
    /\ status' = collected
    /\ recorded' = [n \in PoolNames |->
          IF \E p \in Range(snap.spec) : p.name = n
          THEN Request(snap.profile, CHOOSE p \in Range(snap.spec) : p.name = n) ELSE Nil]
    /\ pc' = "deployments"
    /\ todo' = WantedDeployments(snap.spec)
    /\ collected' = << >>
    /\ UNCHANGED <<spec, profile, ignitions, objects, snap, disturbances>>

-----------------------------------------------------------------------------
(* The generic actuator, after the delegate's part *)

DeployMachineDeployment(d) ==
    /\ pc = "deployments"
    /\ d \in todo
    /\ deployments' = [deployments EXCEPT ![d] = WantedClass(snap.spec, d)]
    /\ todo' = todo \ {d}
    /\ UNCHANGED <<cluster, classes, secrets, machines, pc, snap, collected, recorded, disturbances>>

MachinesOf(d) == {c \in machines : c[1] = d}

DeploymentsDeployed ==
    /\ pc = "deployments" /\ todo = {}
    /\ pc' = "rollout"
    /\ UNCHANGED <<cluster, objects, snap, todo, collected, recorded, disturbances>>

\* Mutant: no waiting for the old machines.
WantedDeploymentsWritten ==
    /\ pc = "rollout"
    /\ pc' = "prune"
    /\ todo' = {d \in DeploymentNames : deployments[d] # NoClass} \ WantedDeployments(snap.spec)
    /\ UNCHANGED <<cluster, objects, snap, collected, recorded, disturbances>>

\* Wait until every wanted deployment has rolled its machines to its class.
WantedDeploymentsAvailable ==
    /\ pc = "rollout"
    /\ \A d \in WantedDeployments(snap.spec) : MachinesOf(d) = {WantedClass(snap.spec, d)}
    /\ pc' = "prune"
    /\ todo' = {d \in DeploymentNames : deployments[d] # NoClass} \ WantedDeployments(snap.spec)
    /\ UNCHANGED <<cluster, objects, snap, collected, recorded, disturbances>>

DeleteMachineDeployment(d) ==
    /\ pc = "prune"
    /\ d \in todo
    /\ deployments' = [deployments EXCEPT ![d] = NoClass]
    /\ todo' = todo \ {d}
    /\ UNCHANGED <<cluster, classes, secrets, machines, pc, snap, collected, recorded, disturbances>>

\* Wait until the machines of the deleted deployments are gone, then delete all
\* classes that are not wanted, and their secrets after them.
UnwantedDeploymentsDeleted ==
    /\ pc = "prune" /\ todo = {}
    /\ \A d \in DeploymentNames \ WantedDeployments(snap.spec) : MachinesOf(d) = {}
    /\ pc' = "cleanClasses"
    /\ todo' = {c \in ClassNames : classes[c] # NoClass} \ WantedClasses(snap.spec)
    /\ UNCHANGED <<cluster, objects, snap, collected, recorded, disturbances>>

DeleteMachineClass(c) ==
    /\ pc = "cleanClasses"
    /\ c \in todo
    /\ classes' = [classes EXCEPT ![c] = NoClass]
    /\ todo' = todo \ {c}
    /\ UNCHANGED <<cluster, secrets, deployments, machines, pc, snap, collected, recorded, disturbances>>

\* Mutant: only the secrets of the pools that are left are looked at.
ClassesCleanedOfPools ==
    /\ pc = "cleanClasses" /\ todo = {}
    /\ pc' = "cleanSecrets"
    /\ todo' = {c \in secrets \ WantedClasses(snap.spec) : c[1] \in WantedDeployments(snap.spec)}
    /\ UNCHANGED <<cluster, objects, snap, collected, recorded, disturbances>>

ClassesCleaned ==
    /\ pc = "cleanClasses" /\ todo = {}
    /\ pc' = "cleanSecrets"
    /\ todo' = secrets \ WantedClasses(snap.spec)
    /\ UNCHANGED <<cluster, objects, snap, collected, recorded, disturbances>>

DeleteClassSecret(c) ==
    /\ pc = "cleanSecrets"
    /\ c \in todo
    /\ secrets' = secrets \ {c}
    /\ todo' = todo \ {c}
    /\ UNCHANGED <<cluster, classes, deployments, machines, pc, snap, collected, recorded, disturbances>>

\* Mutant: the delegate outlives its reconciliation.
ReconcileDoneKeepingDelegate ==
    /\ pc = "cleanSecrets" /\ todo = {}
    /\ pc' = "idle"
    /\ UNCHANGED <<cluster, objects, snap, todo, collected, recorded, disturbances>>

\* The delegate is dropped.
ReconcileDone ==
    /\ pc = "cleanSecrets" /\ todo = {}
    /\ pc' = "idle"
    /\ snap' = Nil
    /\ UNCHANGED <<cluster, objects, todo, collected, recorded, disturbances>>

-----------------------------------------------------------------------------
(* The machine-controller-manager.  It can create or delete a machine only *)
(* while the machine's class and the class's secret exist.                 *)

Backed(c) == classes[c] # NoClass /\ c \in secrets

CreateMachine(d) ==
    /\ deployments[d] # NoClass
    /\ Backed(deployments[d])
    /\ deployments[d] \notin machines
    /\ machines' = machines \cup {deployments[d]}
    /\ UNCHANGED <<cluster, classes, secrets, deployments, control, recorded, disturbances>>

\* An old machine of a rolled deployment, or one of a deleted deployment.
DeleteMachine(c) ==
    /\ c \in machines
    /\ deployments[c[1]] # c
    /\ deployments[c[1]] # NoClass => deployments[c[1]] \in machines
    /\ Backed(c)
    /\ machines' = machines \ {c}
    /\ UNCHANGED <<cluster, classes, secrets, deployments, control, recorded, disturbances>>

-----------------------------------------------------------------------------
DelegateStep ==
    \/ StartReconcile
    \/ \E d \in DeploymentNames : PatchMachineClass(d)
    \/ ClassesPatched
    \/ \E c \in ClassNames : PatchClassSecret(c)
    \/ SecretsPatched
    \/ CollectImage
    \/ PatchProviderStatus

ActuatorStep ==
    \/ \E d \in DeploymentNames : DeployMachineDeployment(d)
    \/ DeploymentsDeployed
    \/ WantedDeploymentsAvailable
    \/ \E d \in DeploymentNames : DeleteMachineDeployment(d)
    \/ UnwantedDeploymentsDeleted
    \/ \E c \in ClassNames : DeleteMachineClass(c)
    \/ ClassesCleaned
    \/ \E c \in ClassNames : DeleteClassSecret(c)
    \/ ReconcileDone

MachineStep ==
    \/ \E d \in DeploymentNames : CreateMachine(d)
    \/ \E c \in ClassNames : DeleteMachine(c)

Environment ==
    \/ \E new \in Specs \ {spec} : EditSpec(new)
    \/ \E new \in Profiles \ {profile} : EditProfile(new)
    \/ \E s \in SecretNames : \E new \in (Ignitions \cup {Nil}) \ {ignitions[s]} : EditSecret(s, new)
    \/ Abort

Next == DelegateStep \/ ActuatorStep \/ MachineStep \/ Environment

Spec == Init /\ [][Next]_vars

-----------------------------------------------------------------------------
(* Properties *)

\* Every variable has its type.
TypeOK ==
    /\ spec \in Specs
    /\ profile \in Profiles
    /\ ignitions \in [SecretNames -> Ignitions \cup {Nil}]
    /\ status = Nil \/ status \in Seq(StatusImages)
    /\ classes \in [ClassNames -> ClassSpecs \cup {NoClass}]
    /\ secrets \subseteq ClassNames
    /\ deployments \in [DeploymentNames -> ClassNames \cup {NoClass}]
    /\ machines \subseteq ClassNames
    /\ pc \in Phases
    /\ IF pc = "idle" THEN snap = Nil ELSE snap \in Snapshots
    /\ pc \in {"idle", "rollout"} => todo = {}
    /\ pc \in {"deployments", "prune"} => todo \subseteq DeploymentNames
    /\ pc = "images" => todo \subseteq DOMAIN snap.spec
    /\ pc \in {"classes", "secrets", "cleanClasses", "cleanSecrets"} => todo \subseteq ClassNames
    /\ collected \in Seq(StatusImages)
    /\ recorded \in [PoolNames -> Requests \cup {Nil}]
    /\ disturbances \in 0..MaxDisturbances

\* A MachineDeployment only ever refers to a class that exists together with
\* its secret, although DeployMachineClasses writes all classes before the
\* first secret, may stop between any two of them, and the actuator deletes
\* both one by one.
DeploymentsBacked ==
    \A d \in DeploymentNames : deployments[d] # NoClass => Backed(deployments[d])

\* As long as a machine lives, the class it was created from and the class's
\* secret exist: without them the MCM could not even delete it.
MachinesBacked == \A c \in machines : Backed(c)

\* The inductive invariant behind the two: what a reconciliation has already
\* written when it reaches a phase.
Snapshot ==
    /\ pc # "idle" => \A p \in Range(snap.spec) : p.machineType \in DOMAIN snap.profile.types
    /\ pc \in {"classes", "secrets", "images"} =>
          \A p \in Range(snap.spec) : SelectImage(snap.profile, p) # Nil
    /\ pc = "deployments" => todo \subseteq WantedDeployments(snap.spec)
    /\ pc = "prune" => todo \cap WantedDeployments(snap.spec) = {}

Written ==
    /\ pc = "classes" => \A c \in WantedClasses(snap.spec) \ todo : classes[c] # NoClass
    /\ pc = "secrets" => /\ \A c \in WantedClasses(snap.spec) : classes[c] # NoClass
                         /\ WantedClasses(snap.spec) \ todo \subseteq secrets
    /\ pc \notin {"idle", "classes", "secrets"} => \A c \in WantedClasses(snap.spec) : Backed(c)

Rolled ==
    /\ \A d \in DeploymentNames : deployments[d] # NoClass => deployments[d][1] = d
    /\ pc = "deployments" => \A d \in WantedDeployments(snap.spec) \ todo :
                                deployments[d] = WantedClass(snap.spec, d)
    /\ pc \in {"rollout", "prune", "cleanClasses", "cleanSecrets"} =>
          \A d \in WantedDeployments(snap.spec) : deployments[d] = WantedClass(snap.spec, d)
    /\ pc = "prune" =>
          /\ \A d \in WantedDeployments(snap.spec) : MachinesOf(d) = {WantedClass(snap.spec, d)}
          /\ \A d \in DeploymentNames \ WantedDeployments(snap.spec) :
                d \in todo \/ deployments[d] = NoClass
    /\ pc \in {"cleanClasses", "cleanSecrets"} =>
          /\ machines \subseteq WantedClasses(snap.spec)
          /\ \A d \in DeploymentNames \ WantedDeployments(snap.spec) : deployments[d] = NoClass
          /\ todo \cap WantedClasses(snap.spec) = {}

IInv == TypeOK /\ Snapshot /\ Written /\ Rolled /\ DeploymentsBacked /\ MachinesBacked

\* What a pool used at the last status update can be found in the provider
\* status: the promise of WorkerStatus.MachineImages (types_worker.go).
PoolsRetained ==
    \A n \in PoolNames : recorded[n] # Nil =>
        FindImageInWorkerStatus(status, recorded[n].version, recorded[n].capabilities,
                                recorded[n].definitions) # Nil

\* ... so a pool that still asks for the same finds an image in any CloudProfile,
\* whatever has been removed from it.
UsedVersionsSelectable ==
    \A p \in Range(spec) :
        p.machineType \in DOMAIN profile.types /\ recorded[p.name] = Request(profile, p)
            => SelectImage(profile, p) # Nil

-----------------------------------------------------------------------------
(* Properties of the images, under what the CloudProfiles and the statuses *)
(* of earlier releases say of them.                                        *)

\* What any CloudProfile or old status offers for a version.
Offers(version) ==
    (UNION {ConvertLegacyVersionsToCapabilityFlavors(pr.versions[version]) : pr \in Profiles})
    \cup
    (UNION {{[image |-> s[i].image, capabilities |-> s[i].capabilities] :
                i \in {j \in DOMAIN s : s[j].version = version}} : s \in InitialStatuses \ {Nil}})

\* All images that are offered for the version have capabilities.
Described(version) == \A f \in Offers(version) : DOMAIN f.capabilities # {}

\* Images without capabilities are offered to no machines but those that run
\* AMD64: this is what such an image is given when the list is made uniform.
ImagesRetainable ==
    \A pr \in Profiles, ps \in Specs : \A p \in Range(ps) :
        p.machineType \in DOMAIN pr.types =>
            Described(p.version) \/ RunsAMD64(MachineCapabilities(pr, p), Definitions(pr))

\* The images that pools with the version and machine type may be given.
Fitting(version, machineType) ==
    {f.image : f \in {g \in Offers(version) :
        \E pr \in Profiles, ps \in Specs : \E p \in Range(ps) :
            /\ p.version = version /\ p.machineType = machineType
            /\ machineType \in DOMAIN pr.types
            /\ Compatible(g.capabilities, MachineCapabilities(pr, p), Definitions(pr))}}

\* Each version and machine type is mapped to one image throughout.
OneImagePerMachineType ==
    /\ \A v \in Versions : Described(v)
    /\ \A v \in Versions, mt \in MachineTypes : \A a, b \in Fitting(v, mt) : a = b

\* The capabilities caps promise no more than the image supports.
Understates(caps, image) ==
    \A n \in DOMAIN Supports[image] : n \in DOMAIN caps /\ caps[n] \subseteq Supports[image][n]

\* What is offered is true.
OffersTrue == \A v \in Versions : \A f \in Offers(v) : Understates(f.capabilities, f.image)

\* The image runs on machines with the capabilities.
RunsOn(image, caps, defs) ==
    \A n \in DOMAIN Supports[image] \cap DOMAIN defs :
        Supports[image][n] \cap WithDefaults(caps, defs)[n] # {}

\* The reconciliation has patched the class of a deployment.
Patched(d) == pc = "classes" => WantedClass(snap.spec, d) \notin todo

\* Where a class has been patched, its image runs on the pool's machines,
\* whether it came from the CloudProfile or, after any number of rewrites, from
\* the provider status (selectMachineImageForWorkerPool).
ImagesFit ==
    OffersTrue /\ pc # "idle" =>
        \A d \in WantedDeployments(snap.spec) :
            Patched(d) => RunsOn(classes[WantedClass(snap.spec, d)].image,
                                 MachineCapabilities(snap.profile, PoolOf(snap.spec, d)),
                                 Definitions(snap.profile))

\* Rebuilding the whole list before each append comes to rewriting its last
\* image: the earlier ones are uniform and pairwise different already
\* (ensureUniformMachineImages).
RebuildChangesLastOnly ==
    pc = "images" => EnsureUniformMachineImages(collected, Definitions(snap.profile))
                         = RebuildUniform(collected, Definitions(snap.profile))

\* What the name of a rolling pool's class covers of its content: the image, by
\* the version and the machine type, and what comes from the provider config.
Hashed(c, class) ==
    LET own == DOMAIN ExtraServerLabels[c[2][3]]
    IN  [image |-> class.image,
         config |-> class.config,
         serverLabels |-> [k \in own \cap DOMAIN class.serverLabels |-> class.serverLabels[k]],
         ignition |-> IF SecretRef[c[2][3]] = Nil THEN class.ignition ELSE Nil]

\* A class of a rolling pool that exists is rewritten in what its name does not
\* cover, and in nothing else: the machine type's server labels and what a
\* secret adds to the ignition (machines.go:161-172) follow the CloudProfile and
\* the secret.  The image stays when its version leaves the CloudProfile, and a
\* new provider config goes to a class of its own.  (A pool with an in-place
\* strategy keeps its class for all versions.)
HashedContentKept ==
    [][OneImagePerMachineType =>
          \A c \in ClassNames :
              c[2] # << >> /\ classes[c] # NoClass /\ classes'[c] # NoClass
                  => Hashed(c, classes'[c]) = Hashed(c, classes[c])]_classes

-----------------------------------------------------------------------------
\* The promise to the MCM, which sees a class once its secret is there.
Lifecycle == INSTANCE ClassLifecycle WITH
    Deployments <- DeploymentNames, Classes <- ClassNames, None <- NoClass,
    available <- {c \in ClassNames : Backed(c)}, refs <- deployments, running <- machines

\* However patches, failures, edits and the MCM interleave, what the MCM sees
\* is a behaviour of ClassLifecycle: no deployment refers to a class before it
\* is complete, no used class is withdrawn, no class loses its secret first.
ImplementsLifecycle == Lifecycle!LifecycleSpec

\* The reconciliation has done its work for the current spec, CloudProfile and secrets.
Settled ==
    /\ \A d \in DeploymentNames : deployments[d] =
          IF d \in WantedDeployments(spec) THEN WantedClass(spec, d) ELSE NoClass
    /\ machines = WantedClasses(spec)
    /\ secrets = WantedClasses(spec)
    /\ {c \in ClassNames : classes[c] # NoClass} = WantedClasses(spec)
    /\ \A d \in WantedDeployments(spec) :
          classes[WantedClass(spec, d)] = ClassSpec(profile, ignitions, PoolOf(spec, d))

\* A reconciliation that gets to its end, and was of the spec, CloudProfile and
\* secrets of now, has left exactly what they ask for, whatever those before it
\* left half done, and although the last class was chosen with another status.
SettledWhenDone ==
    /\ OneImagePerMachineType
    /\ pc = "cleanSecrets" /\ todo = {} /\ snap = Present
    => Settled

Blocked == \E p \in Range(spec) : ~Reconcilable(profile, ignitions, p)

\* Once the edits and failures stop, the shoot namespace converges to exactly
\* what the spec asks for, unless some pool cannot be generated.
SettlesUnlessBlocked == <>[](Settled \/ Blocked)

\* The controller retries until it succeeds, and the MCM works on every
\* deployment and every machine.
Fairness ==
    /\ WF_vars(DelegateStep \/ ActuatorStep)
    /\ \A d \in DeploymentNames : WF_vars(CreateMachine(d))
    /\ \A c \in ClassNames : WF_vars(DeleteMachine(c))

FairSpec == Spec /\ Fairness
=============================================================================
