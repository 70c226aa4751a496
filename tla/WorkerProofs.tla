---------------------------- MODULE WorkerProofs ----------------------------
(***************************************************************************)
(* The invariants of module Worker, for any number of pools, zones,        *)
(* CloudProfiles and disturbances.                                         *)
(***************************************************************************)
EXTENDS Worker, MachineImagesProofs

-----------------------------------------------------------------------------
(* Types of the delegate's functions *)

\* The pools of a Worker are pools.
LEMMA PoolsType ==
    ASSUME NEW ps \in Specs
    PROVE  Range(ps) \subseteq Pools
<1>1. ps \in Seq(Pools)
  BY WorkerAssumption DEF WorkerAssumption
<1> QED  BY <1>1 DEF Range

\* A name is that of at most one pool.
LEMMA NamesUnique ==
    ASSUME NEW ps \in Specs, NEW p \in Range(ps), NEW q \in Range(ps), p.name = q.name
    PROVE  p = q
  BY WorkerAssumption DEF WorkerAssumption, Range

\* GenerateMachineDeployments gives every deployment a class of its own, named
\* after the deployment and its pool's hash.
LEMMA WantedClassType ==
    ASSUME NEW ps \in Specs, NEW d \in WantedDeployments(ps)
    PROVE  /\ d \in DeploymentNames
           /\ PoolOf(ps, d) \in Range(ps)
           /\ PoolOf(ps, d).name = d[1]
           /\ WantedClass(ps, d) \in ClassNames
           /\ WantedClass(ps, d)[1] = d
<1>1. PICK p \in Range(ps) : \E z \in 1..p.zones : d = <<p.name, z>>
  BY DEF WantedDeployments
<1>2. d \in DeploymentNames
  BY <1>1 DEF DeploymentNames
<1>3. d[1] = p.name /\ d = <<d[1], d[2]>>
  BY <1>1
<1>4. PoolOf(ps, d) \in Range(ps) /\ PoolOf(ps, d).name = d[1]
  BY <1>3 DEF PoolOf
<1>5. HashForWorkerPool(PoolOf(ps, d)) \in PoolHashes
  BY <1>4, PoolsType DEF HashForWorkerPool, PoolHashes, Pools
<1>6. WantedClass(ps, d) = <<d, HashForWorkerPool(PoolOf(ps, d))>>
  BY <1>3, <1>4 DEF WantedClass, ClassName
<1> QED  BY <1>2, <1>4, <1>5, <1>6 DEF ClassNames

\* ... so the class determines the deployment.
LEMMA WantedClassInjective ==
    ASSUME NEW ps \in Specs, NEW d \in DeploymentNames, NEW c \in WantedClasses(ps), c[1] = d
    PROVE  d \in WantedDeployments(ps) /\ c = WantedClass(ps, d)
  BY WantedClassType DEF WantedClasses

\* The image of a pool is an image or an error.
LEMMA SelectImageType ==
    ASSUME NEW pr \in Profiles, NEW p \in Pools, p.machineType \in DOMAIN pr.types,
           status = Nil \/ status \in Seq(StatusImages)
    PROVE  /\ SelectImage(pr, p) \in StatusImages \cup {Nil}
           /\ MachineCapabilities(pr, p) \in Capabilities
           /\ Definitions(pr) \in CapabilityDefinitions
<1>1. pr \in CloudProfiles
  BY WorkerAssumption DEF WorkerAssumption
<1>2. pr.definitions \in CapabilityDefinitions /\ pr.versions \in [Versions -> SUBSET VersionEntries]
  BY <1>1 DEF CloudProfiles, CapabilityDefinitions
<1>3. pr.types[p.machineType] \in Capabilities
  BY <1>1 DEF CloudProfiles
<1>4. p.version \in Versions /\ p.architecture \in {AMD64, ARM64, Nil}
  BY DEF Pools
<1>5. OrAMD64(p.architecture) \in {AMD64, ARM64}
  BY <1>4, OrAMD64Type
<1>6. MachineCapabilities(pr, p) \in Capabilities
  BY <1>3, <1>5, MachineTypeCapabilitiesType DEF MachineCapabilities
<1>7. Definitions(pr) \in CapabilityDefinitions
  BY <1>2, DefinitionsType DEF Definitions
<1>8. pr.versions[p.version] \in SUBSET VersionEntries
  BY <1>2, <1>4
<1> QED  BY <1>4, <1>5, <1>6, <1>7, <1>8, SelectType DEF SelectImage

\* The labels of a class are server labels, and its ignition comes from a secret
\* or from none.
LEMMA LabelsType ==
    ASSUME NEW pr \in Profiles, NEW p \in Pools
    PROVE  GetServerLabelsForMachine(pr, p) \in ServerLabels
<1> DEFINE extra == ExtraServerLabels[p.config]
           common == pr.serverLabels[p.machineType]
           labels == GetServerLabelsForMachine(pr, p)
<1>1. extra \in ServerLabels
  BY WorkerAssumption DEF WorkerAssumption, Pools
<1>2. common \in ServerLabels
  <2>1. pr.serverLabels \in [MachineTypes -> ServerLabels]
    BY WorkerAssumption DEF WorkerAssumption, CloudProfiles
  <2> QED  BY <2>1 DEF Pools
<1>3. PICK own \in SUBSET LabelKeys : extra \in [own -> LabelValues]
  BY <1>1 DEF ServerLabels
<1>4. PICK theirs \in SUBSET LabelKeys : common \in [theirs -> LabelValues]
  BY <1>2 DEF ServerLabels
<1>5. labels = [k \in own \cup theirs |-> IF k \in own THEN extra[k] ELSE common[k]]
  BY <1>3, <1>4 DEF GetServerLabelsForMachine
<1>6. labels \in [own \cup theirs -> LabelValues]
  <2> HIDE DEF extra, common, labels
  <2> QED  BY <1>3, <1>4, <1>5
<1>7. own \cup theirs \in SUBSET LabelKeys
  OBVIOUS
<1> QED  BY <1>6, <1>7 DEF ServerLabels

LEMMA SecretIgnitionType ==
    ASSUME NEW ign \in [SecretNames -> Ignitions \cup {Nil}], NEW p \in Pools
    PROVE  SecretIgnition(ign, p) \in Ignitions \cup {Nil}
<1>1. SecretRef[p.config] \in SecretNames \cup {Nil}
  BY WorkerAssumption DEF WorkerAssumption, Pools
<1> QED  BY <1>1 DEF SecretIgnition

-----------------------------------------------------------------------------
(* The inductive invariant, conjunct by conjunct *)

\* A reconciliation under way has a delegate with a spec, a CloudProfile and secrets,
\* and its pools are pools with a known machine type.
LEMMA DelegateType ==
    ASSUME TypeOK, Snapshot, pc # "idle"
    PROVE  /\ snap \in Snapshots
           /\ snap.spec \in Specs /\ snap.profile \in Profiles
           /\ snap.ignitions \in [SecretNames -> Ignitions \cup {Nil}]
           /\ snap.spec \in Seq(Pools)
           /\ Range(snap.spec) \subseteq Pools
           /\ \A p \in Range(snap.spec) :
                 /\ SelectImage(snap.profile, p) \in StatusImages \cup {Nil}
                 /\ p.machineType \in DOMAIN snap.profile.types
<1>1. snap \in Snapshots
  BY DEF TypeOK
<1>2. /\ snap.spec \in Specs /\ snap.profile \in Profiles
      /\ snap.ignitions \in [SecretNames -> Ignitions \cup {Nil}]
  BY <1>1 DEF Snapshots
<1>3. snap.spec \in Seq(Pools) /\ Range(snap.spec) \subseteq Pools
  BY <1>2, PoolsType, WorkerAssumption DEF WorkerAssumption
<1>4. ASSUME NEW p \in Range(snap.spec)
      PROVE  /\ SelectImage(snap.profile, p) \in StatusImages \cup {Nil}
             /\ p.machineType \in DOMAIN snap.profile.types
  <2>1. p.machineType \in DOMAIN snap.profile.types
    BY DEF Snapshot
  <2> QED  BY <1>2, <1>3, <2>1, SelectImageType DEF TypeOK
<1> QED  BY <1>1, <1>2, <1>3, <1>4

\* While classes are patched every pool has an image, so what is written to a
\* class is a class.
LEMMA ClassSpecType ==
    ASSUME TypeOK, Snapshot, pc = "classes", NEW d \in WantedDeployments(snap.spec)
    PROVE  /\ ClassSpec(snap.profile, snap.ignitions, PoolOf(snap.spec, d)) \in ClassSpecs
           /\ ClassSpec(snap.profile, snap.ignitions, PoolOf(snap.spec, d)) # NoClass
<1>1. PoolOf(snap.spec, d) \in Range(snap.spec) /\ PoolOf(snap.spec, d) \in Pools
  BY DelegateType, WantedClassType
<1>2. SelectImage(snap.profile, PoolOf(snap.spec, d)) \in StatusImages
  BY <1>1, DelegateType DEF Snapshot
<1>3. /\ GetServerLabelsForMachine(snap.profile, PoolOf(snap.spec, d)) \in ServerLabels
      /\ SecretIgnition(snap.ignitions, PoolOf(snap.spec, d)) \in Ignitions \cup {Nil}
  BY <1>1, DelegateType, LabelsType, SecretIgnitionType
<1>4. ClassSpec(snap.profile, snap.ignitions, PoolOf(snap.spec, d)) \in ClassSpecs
  BY <1>1, <1>2, <1>3 DEF ClassSpec, ClassSpecs, StatusImages, Pools
<1> QED  BY <1>4, WorkerAssumption DEF WorkerAssumption, NoClass

\* Every step keeps the types.
LEMMA TypeInductive ==
    ASSUME TypeOK, Snapshot, [Next]_vars
    PROVE  TypeOK'
<1> USE DEF vars, cluster, objects, control
<1>1. CASE UNCHANGED vars
  BY <1>1 DEF TypeOK
<1>2. CASE StartReconcile
  <2>1. WantedClasses(spec) \subseteq ClassNames
    BY WantedClassType DEF WantedClasses, TypeOK
  <2> QED  BY <1>2, <2>1 DEF StartReconcile, Present, Snapshots, TypeOK, Phases
<1>3. ASSUME NEW d \in DeploymentNames, PatchMachineClass(d)
      PROVE  TypeOK'
  <2>1. pc = "classes" /\ d \in WantedDeployments(snap.spec)
    BY <1>3 DEF PatchMachineClass
  <2>4. ClassSpec(snap.profile, snap.ignitions, PoolOf(snap.spec, d)) \in ClassSpecs
    BY <2>1, ClassSpecType
  <2>5. classes' \in [ClassNames -> ClassSpecs \cup {NoClass}]
    BY <1>3, <2>4 DEF PatchMachineClass, TypeOK
  <2>6. todo' \subseteq ClassNames
    BY <1>3, <2>1 DEF PatchMachineClass, TypeOK
  <2> QED  BY <1>3, <2>1, <2>5, <2>6 DEF PatchMachineClass, TypeOK
<1>4. CASE ClassesPatched
  <2>1. WantedClasses(snap.spec) \subseteq ClassNames
    BY <1>4, WantedClassType, DelegateType DEF WantedClasses, ClassesPatched
  <2> QED  BY <1>4, <2>1 DEF ClassesPatched, TypeOK, Phases
<1>5. ASSUME NEW c \in ClassNames, PatchClassSecret(c)
      PROVE  TypeOK'
  BY <1>5 DEF PatchClassSecret, TypeOK
<1>6. CASE SecretsPatched
  BY <1>6 DEF SecretsPatched, TypeOK, Phases
<1>7. CASE CollectImage
  <2>1. PICK i \in todo :
            /\ SelectImage(snap.profile, snap.spec[i]) # Nil
            /\ collected' = AppendMachineImage(
                  EnsureUniformMachineImages(collected, Definitions(snap.profile)),
                  SelectImage(snap.profile, snap.spec[i]), Definitions(snap.profile))
            /\ todo' = todo \ {i}
    BY <1>7 DEF CollectImage
  <2>2. pc = "images" /\ snap.spec[i] \in Range(snap.spec)
    BY <1>7 DEF CollectImage, TypeOK, Range
  <2>3. SelectImage(snap.profile, snap.spec[i]) \in StatusImages
    BY <2>1, <2>2, DelegateType
  <2>4. collected \in Seq(StatusImages)
    BY DEF TypeOK
  <2>5. collected' \in Seq(StatusImages)
    BY <2>1, <2>3, <2>4, EnsureUniformType, AppendType
  <2> QED  BY <1>7, <2>1, <2>2, <2>5 DEF CollectImage, TypeOK
<1>8. CASE PatchProviderStatus
  <2>1. pc = "images"
    BY <1>8 DEF PatchProviderStatus
  <2>2. ASSUME NEW p \in Range(snap.spec)
        PROVE  Request(snap.profile, p) \in Requests
    <3>1. p \in Pools /\ p.version \in Versions
      BY <2>1, DelegateType DEF Pools
    <3>2. /\ MachineCapabilities(snap.profile, p) \in Capabilities
          /\ Definitions(snap.profile) \in CapabilityDefinitions
      BY <2>1, <3>1, DelegateType, SelectImageType DEF TypeOK
    <3> QED  BY <3>1, <3>2 DEF Request, Requests, CapabilityDefinitions
  <2>3. recorded' \in [PoolNames -> Requests \cup {Nil}]
    BY <1>8, <2>2 DEF PatchProviderStatus
  <2>4. WantedDeployments(snap.spec) \subseteq DeploymentNames
    BY <2>1, DelegateType, WantedClassType
  <2> QED  BY <1>8, <2>1, <2>3, <2>4 DEF PatchProviderStatus, TypeOK, Phases
<1>9. ASSUME NEW d \in DeploymentNames, DeployMachineDeployment(d)
      PROVE  TypeOK'
  <2>1. pc = "deployments" /\ d \in WantedDeployments(snap.spec)
    BY <1>9 DEF DeployMachineDeployment, Snapshot
  <2>2. WantedClass(snap.spec, d) \in ClassNames
    BY <2>1, DelegateType, WantedClassType
  <2> QED  BY <1>9, <2>2 DEF DeployMachineDeployment, TypeOK
<1>10. CASE DeploymentsDeployed
  BY <1>10 DEF DeploymentsDeployed, TypeOK, Phases
<1>11. CASE WantedDeploymentsAvailable
  BY <1>11 DEF WantedDeploymentsAvailable, TypeOK, Phases
<1>12. ASSUME NEW d \in DeploymentNames, DeleteMachineDeployment(d)
       PROVE  TypeOK'
  BY <1>12 DEF DeleteMachineDeployment, TypeOK
<1>13. CASE UnwantedDeploymentsDeleted
  BY <1>13 DEF UnwantedDeploymentsDeleted, TypeOK, Phases
<1>14. ASSUME NEW c \in ClassNames, DeleteMachineClass(c)
       PROVE  TypeOK'
  BY <1>14 DEF DeleteMachineClass, TypeOK
<1>15. CASE ClassesCleaned
  BY <1>15 DEF ClassesCleaned, TypeOK, Phases
<1>16. ASSUME NEW c \in ClassNames, DeleteClassSecret(c)
       PROVE  TypeOK'
  BY <1>16 DEF DeleteClassSecret, TypeOK
<1>17. CASE ReconcileDone
  BY <1>17 DEF ReconcileDone, TypeOK, Phases
<1>18. ASSUME NEW d \in DeploymentNames, CreateMachine(d)
       PROVE  TypeOK'
  BY <1>18 DEF CreateMachine, TypeOK
<1>19. ASSUME NEW c \in ClassNames, DeleteMachine(c)
       PROVE  TypeOK'
  BY <1>19 DEF DeleteMachine, TypeOK
<1>20. CASE Environment
  <2>1. disturbances' \in 0..MaxDisturbances
    BY <1>20, WorkerAssumption DEF Environment, EditSpec, EditProfile, EditSecret, Abort, Disturb, TypeOK, WorkerAssumption
  <2>2. ASSUME NEW new \in Specs, EditSpec(new)
        PROVE  TypeOK'
    BY <2>1, <2>2 DEF EditSpec, TypeOK
  <2>3. ASSUME NEW new \in Profiles, EditProfile(new)
        PROVE  TypeOK'
    BY <2>1, <2>3 DEF EditProfile, TypeOK
  <2>4. ASSUME NEW s \in SecretNames, NEW new \in Ignitions \cup {Nil}, EditSecret(s, new)
        PROVE  TypeOK'
    BY <2>1, <2>4 DEF EditSecret, TypeOK
  <2>5. CASE Abort
    BY <2>1, <2>5 DEF Abort, TypeOK, Phases
  <2> QED  BY <1>20, <2>2, <2>3, <2>4, <2>5 DEF Environment
<1> QED
  BY <1>1, <1>2, <1>3, <1>4, <1>5, <1>6, <1>7, <1>8, <1>9, <1>10, <1>11, <1>12, <1>13,
     <1>14, <1>15, <1>16, <1>17, <1>18, <1>19, <1>20
  DEF Next, DelegateStep, ActuatorStep, MachineStep

\* Once the reconciliation has begun, its pools keep their images until the
\* status is replaced; nothing in between changes the status.
LEMMA SnapshotInductive ==
    ASSUME TypeOK, Snapshot, [Next]_vars
    PROVE  Snapshot'
<1> USE DEF vars, cluster, objects, control
<1>1. ASSUME status' = status, NEW pr, NEW p
      PROVE  SelectImage(pr, p)' = SelectImage(pr, p)
  BY <1>1 DEF SelectImage
<1>2. ASSUME UNCHANGED <<status, pc, snap, todo>>
      PROVE  Snapshot'
  BY <1>1, <1>2 DEF Snapshot
<1>3. CASE StartReconcile
  <2>1. /\ snap'.spec = spec /\ snap'.profile = profile
        /\ pc' = "classes" /\ status' = status
    BY <1>3 DEF StartReconcile, Present
  <2>2. \A p \in Range(spec) : p.machineType \in DOMAIN profile.types /\ SelectImage(profile, p) # Nil
    BY <1>3 DEF StartReconcile, Reconcilable
  <2> QED  BY <1>1, <2>1, <2>2 DEF Snapshot
<1>4. ASSUME NEW d \in DeploymentNames, PatchMachineClass(d)
      PROVE  Snapshot'
  BY <1>1, <1>4 DEF PatchMachineClass, Snapshot
<1>5. CASE ClassesPatched
  BY <1>1, <1>5 DEF ClassesPatched, Snapshot
<1>6. ASSUME NEW c \in ClassNames, PatchClassSecret(c)
      PROVE  Snapshot'
  BY <1>1, <1>6 DEF PatchClassSecret, Snapshot
<1>7. CASE SecretsPatched
  BY <1>1, <1>7 DEF SecretsPatched, Snapshot
<1>8. CASE CollectImage
  BY <1>1, <1>8 DEF CollectImage, Snapshot
<1>9. CASE PatchProviderStatus
  BY <1>9 DEF PatchProviderStatus, Snapshot
<1>10. ASSUME NEW d \in DeploymentNames, DeployMachineDeployment(d)
       PROVE  Snapshot'
  BY <1>10 DEF DeployMachineDeployment, Snapshot
<1>11. CASE DeploymentsDeployed
  BY <1>11 DEF DeploymentsDeployed, Snapshot
<1>12. CASE WantedDeploymentsAvailable
  BY <1>12 DEF WantedDeploymentsAvailable, Snapshot
<1>13. ASSUME NEW d \in DeploymentNames, DeleteMachineDeployment(d)
       PROVE  Snapshot'
  BY <1>13 DEF DeleteMachineDeployment, Snapshot
<1>14. CASE UnwantedDeploymentsDeleted \/ ClassesCleaned \/ ReconcileDone
  BY <1>14 DEF UnwantedDeploymentsDeleted, ClassesCleaned, ReconcileDone, Snapshot
<1>15. ASSUME NEW c \in ClassNames, DeleteMachineClass(c) \/ DeleteClassSecret(c)
       PROVE  Snapshot'
  BY <1>15 DEF DeleteMachineClass, DeleteClassSecret, Snapshot
<1>16. CASE MachineStep
  BY <1>2, <1>16 DEF MachineStep, CreateMachine, DeleteMachine
<1>17. CASE Environment
  <2>1. CASE Abort
    BY <2>1 DEF Abort, Snapshot
  <2> QED  BY <1>2, <1>17, <2>1 DEF Environment, EditSpec, EditProfile, EditSecret
<1> QED
  BY <1>2, <1>3, <1>4, <1>5, <1>6, <1>7, <1>8, <1>9, <1>10, <1>11, <1>12, <1>13, <1>14,
     <1>15, <1>16, <1>17
  DEF Next, DelegateStep, ActuatorStep

\* What has been written stays written until the reconciliation ends: only the
\* cleanup deletes, and only what is not wanted.
LEMMA WrittenInductive ==
    ASSUME TypeOK, Snapshot, Rolled, Written, [Next]_vars
    PROVE  Written'
<1> USE DEF vars, cluster, objects, control
<1>1. ASSUME UNCHANGED <<pc, snap, todo, classes, secrets>>
      PROVE  Written'
  BY <1>1 DEF Written, Backed
<1>2. ASSUME pc' # "classes", pc' # "secrets", pc # "classes", pc # "secrets", pc # "idle",
             UNCHANGED <<snap, classes, secrets>>
      PROVE  Written'
  BY <1>2 DEF Written, Backed
<1>3. CASE StartReconcile
  BY <1>3 DEF StartReconcile, Present, Written
<1>4. ASSUME NEW d \in DeploymentNames, PatchMachineClass(d)
      PROVE  Written'
  <2>1. /\ pc = "classes" /\ pc' = "classes" /\ snap' = snap
        /\ d \in WantedDeployments(snap.spec)
        /\ classes' = [classes EXCEPT ![WantedClass(snap.spec, d)] =
                          ClassSpec(snap.profile, snap.ignitions, PoolOf(snap.spec, d))]
        /\ todo' = todo \ {WantedClass(snap.spec, d)}
    BY <1>4 DEF PatchMachineClass
  <2>5. ClassSpec(snap.profile, snap.ignitions, PoolOf(snap.spec, d)) # NoClass
    BY <2>1, ClassSpecType
  <2>6. WantedClasses(snap.spec) \subseteq ClassNames /\ DOMAIN classes = ClassNames
    BY <2>1, DelegateType, WantedClassType DEF WantedClasses, TypeOK
  <2>7. \A c \in WantedClasses(snap.spec) \ todo : classes[c] # NoClass
    BY <2>1 DEF Written
  <2>8. \A c \in WantedClasses(snap.spec) \ todo' : classes'[c] # NoClass
    BY <2>1, <2>5, <2>6, <2>7
  <2> QED  BY <2>1, <2>8 DEF Written
<1>5. CASE ClassesPatched
  BY <1>5 DEF ClassesPatched, Written
<1>6. ASSUME NEW c \in ClassNames, PatchClassSecret(c)
      PROVE  Written'
  BY <1>6 DEF PatchClassSecret, Written
<1>7. CASE SecretsPatched
  BY <1>7 DEF SecretsPatched, Written, Backed
<1>8. CASE CollectImage \/ PatchProviderStatus \/ DeploymentsDeployed \/ WantedDeploymentsAvailable
           \/ UnwantedDeploymentsDeleted \/ ClassesCleaned
  BY <1>2, <1>8 DEF CollectImage, PatchProviderStatus, DeploymentsDeployed,
       WantedDeploymentsAvailable, UnwantedDeploymentsDeleted, ClassesCleaned
<1>9. ASSUME NEW d \in DeploymentNames, DeployMachineDeployment(d) \/ DeleteMachineDeployment(d)
      PROVE  Written'
  BY <1>2, <1>9 DEF DeployMachineDeployment, DeleteMachineDeployment
<1>10. ASSUME NEW c \in ClassNames, DeleteMachineClass(c)
       PROVE  Written'
  <2>1. c \notin WantedClasses(snap.spec)
    BY <1>10 DEF DeleteMachineClass, Rolled
  <2>2. \A b \in ClassNames \ {c} : classes'[b] = classes[b]
    BY <1>10 DEF DeleteMachineClass, TypeOK
  <2>3. WantedClasses(snap.spec) \subseteq ClassNames
    BY <1>10, DelegateType, WantedClassType DEF WantedClasses, DeleteMachineClass
  <2> QED  BY <1>10, <2>1, <2>2, <2>3 DEF DeleteMachineClass, Written, Backed
<1>11. ASSUME NEW c \in ClassNames, DeleteClassSecret(c)
       PROVE  Written'
  BY <1>11 DEF DeleteClassSecret, Rolled, Written, Backed
<1>12. CASE ReconcileDone
  BY <1>12 DEF ReconcileDone, Written
<1>13. CASE MachineStep
  BY <1>1, <1>13 DEF MachineStep, CreateMachine, DeleteMachine
<1>14. CASE Environment
  <2>1. CASE Abort
    BY <2>1 DEF Abort, Written
  <2> QED  BY <1>1, <1>14, <2>1 DEF Environment, EditSpec, EditProfile, EditSecret
<1> QED
  BY <1>1, <1>3, <1>4, <1>5, <1>6, <1>7, <1>8, <1>9, <1>10, <1>11, <1>12, <1>13, <1>14
  DEF Next, DelegateStep, ActuatorStep

\* The rollout: deployments are switched one by one, machines follow, and what
\* is no longer wanted goes, while the MCM works on all of them.
LEMMA RolledInductive ==
    ASSUME TypeOK, Snapshot, Rolled, [Next]_vars
    PROVE  Rolled'
<1> USE DEF vars, cluster, objects, control
<1>1. ASSUME UNCHANGED <<pc, snap, todo, deployments, machines>>
      PROVE  Rolled'
  BY <1>1 DEF Rolled, MachinesOf
<1>2. ASSUME pc' \in {"idle", "classes", "secrets", "images"}, UNCHANGED deployments
      PROVE  Rolled'
  BY <1>2 DEF Rolled
<1>3. CASE StartReconcile \/ ClassesPatched \/ SecretsPatched \/ CollectImage \/ ReconcileDone
  BY <1>2, <1>3 DEF StartReconcile, ClassesPatched, SecretsPatched, CollectImage, ReconcileDone
<1>4. ASSUME NEW d \in DeploymentNames, PatchMachineClass(d)
      PROVE  Rolled'
  BY <1>2, <1>4 DEF PatchMachineClass
<1>5. ASSUME NEW c \in ClassNames, PatchClassSecret(c)
      PROVE  Rolled'
  BY <1>2, <1>5 DEF PatchClassSecret
<1>6. CASE PatchProviderStatus
  BY <1>6 DEF PatchProviderStatus, Rolled
<1>7. ASSUME NEW d \in DeploymentNames, DeployMachineDeployment(d)
      PROVE  Rolled'
  <2>1. pc = "deployments" /\ pc' = "deployments" /\ snap' = snap /\ d \in WantedDeployments(snap.spec)
    BY <1>7 DEF DeployMachineDeployment, Snapshot
  <2>2. WantedClass(snap.spec, d)[1] = d
    BY <2>1, DelegateType, WantedClassType
  <2>3. /\ deployments'[d] = WantedClass(snap.spec, d)
        /\ \A e \in DeploymentNames \ {d} : deployments'[e] = deployments[e]
        /\ todo' = todo \ {d}
    BY <1>7 DEF DeployMachineDeployment, TypeOK
  <2>4. WantedDeployments(snap.spec) \subseteq DeploymentNames
    BY <2>1, DelegateType, WantedClassType
  <2> QED  BY <2>1, <2>2, <2>3, <2>4 DEF Rolled
<1>8. CASE DeploymentsDeployed
  BY <1>8 DEF DeploymentsDeployed, Rolled
<1>9. CASE WantedDeploymentsAvailable
  BY <1>9 DEF WantedDeploymentsAvailable, Rolled, MachinesOf
<1>10. ASSUME NEW d \in DeploymentNames, DeleteMachineDeployment(d)
       PROVE  Rolled'
  <2>1. /\ pc = "prune" /\ pc' = "prune" /\ snap' = snap /\ machines' = machines
        /\ d \notin WantedDeployments(snap.spec)
    BY <1>10 DEF DeleteMachineDeployment, Snapshot
  <2>2. /\ deployments'[d] = NoClass
        /\ \A e \in DeploymentNames \ {d} : deployments'[e] = deployments[e]
        /\ todo' = todo \ {d}
    BY <1>10 DEF DeleteMachineDeployment, TypeOK
  <2>3. WantedDeployments(snap.spec) \subseteq DeploymentNames
    BY <2>1, DelegateType, WantedClassType
  <2> QED  BY <2>1, <2>2, <2>3 DEF Rolled, MachinesOf
<1>11. CASE UnwantedDeploymentsDeleted
  <2>1. /\ pc = "prune" /\ todo = {} /\ pc' = "cleanClasses" /\ snap' = snap
        /\ UNCHANGED <<deployments, machines>>
        /\ todo' \cap WantedClasses(snap.spec) = {}
    BY <1>11 DEF UnwantedDeploymentsDeleted
  <2>2. machines \subseteq WantedClasses(snap.spec)
    <3> SUFFICES ASSUME NEW c \in machines  PROVE c \in WantedClasses(snap.spec)
      OBVIOUS
    <3>1. c[1] \in DeploymentNames /\ c \in MachinesOf(c[1])
      BY DEF TypeOK, ClassNames, MachinesOf
    <3>2. c[1] \in WantedDeployments(snap.spec)
      BY <1>11, <3>1 DEF UnwantedDeploymentsDeleted
    <3> QED  BY <2>1, <3>1, <3>2 DEF Rolled, WantedClasses
  <2> QED  BY <2>1, <2>2 DEF Rolled
<1>12. ASSUME NEW c \in ClassNames, DeleteMachineClass(c) \/ DeleteClassSecret(c)
       PROVE  Rolled'
  BY <1>12 DEF DeleteMachineClass, DeleteClassSecret, Rolled
<1>13. CASE ClassesCleaned
  BY <1>13 DEF ClassesCleaned, Rolled
<1>14. ASSUME NEW d \in DeploymentNames, CreateMachine(d)
       PROVE  Rolled'
  <2>1. /\ UNCHANGED <<pc, snap, todo, deployments>>
        /\ deployments[d] # NoClass
        /\ machines' = machines \cup {deployments[d]}
    BY <1>14 DEF CreateMachine
  <2>2. deployments[d][1] = d
    BY <2>1 DEF Rolled
  <2>3. CASE pc = "prune"
    <3>1. ASSUME NEW e \in WantedDeployments(snap.spec)
          PROVE  MachinesOf(e)' = {WantedClass(snap.spec, e)}
      <4>1. MachinesOf(e) = {WantedClass(snap.spec, e)} /\ deployments[e] = WantedClass(snap.spec, e)
        BY <2>3 DEF Rolled
      <4> QED  BY <2>1, <2>2, <4>1 DEF MachinesOf
    <3> QED  BY <2>1, <2>3, <3>1 DEF Rolled
  <2>4. CASE pc \in {"cleanClasses", "cleanSecrets"}
    <3>1. deployments[d] \in WantedClasses(snap.spec)
      BY <2>1, <2>4 DEF Rolled, WantedClasses
    <3> QED  BY <2>1, <2>4, <3>1 DEF Rolled
  <2> QED  BY <2>1, <2>3, <2>4 DEF Rolled
<1>15. ASSUME NEW c \in ClassNames, DeleteMachine(c)
       PROVE  Rolled'
  <2>1. /\ UNCHANGED <<pc, snap, todo, deployments>>
        /\ c \in machines /\ deployments[c[1]] # c
        /\ machines' = machines \ {c}
    BY <1>15 DEF DeleteMachine
  <2>2. CASE pc = "prune"
    <3>1. ASSUME NEW e \in WantedDeployments(snap.spec)
          PROVE  MachinesOf(e)' = {WantedClass(snap.spec, e)}
      <4>1. MachinesOf(e) = {WantedClass(snap.spec, e)} /\ deployments[e] = WantedClass(snap.spec, e)
        BY <2>2 DEF Rolled
      <4>2. c \notin MachinesOf(e)
        BY <2>1, <4>1 DEF MachinesOf
      <4> QED  BY <2>1, <4>1, <4>2 DEF MachinesOf
    <3> QED  BY <2>1, <2>2, <3>1 DEF Rolled
  <2> QED  BY <2>1, <2>2 DEF Rolled
<1>16. CASE Environment
  <2>1. CASE Abort
    BY <1>2, <2>1 DEF Abort
  <2> QED  BY <1>1, <1>16, <2>1 DEF Environment, EditSpec, EditProfile, EditSecret
<1> QED
  BY <1>1, <1>3, <1>4, <1>5, <1>6, <1>7, <1>8, <1>9, <1>10, <1>11, <1>12, <1>13, <1>14,
     <1>15, <1>16
  DEF Next, DelegateStep, ActuatorStep, MachineStep

\* While something may be deleted, every deployment and every machine is one of
\* the classes that are wanted.
LEMMA CleanupSpares ==
    ASSUME TypeOK, Snapshot, Rolled, pc \in {"cleanClasses", "cleanSecrets"}
    PROVE  /\ \A d \in DeploymentNames : deployments[d] # NoClass => deployments[d] \notin todo
           /\ \A c \in machines : c \notin todo
  BY DEF Rolled, WantedClasses

\* A class that is patched is there.
LEMMA PatchedClassExists ==
    ASSUME TypeOK, Snapshot, NEW d \in DeploymentNames, PatchMachineClass(d), NEW c \in ClassNames,
           Backed(c)
    PROVE  Backed(c)'
<1>1. /\ pc = "classes" /\ d \in WantedDeployments(snap.spec)
      /\ classes' = [classes EXCEPT ![WantedClass(snap.spec, d)] =
                         ClassSpec(snap.profile, snap.ignitions, PoolOf(snap.spec, d))]
      /\ secrets' = secrets
  BY DEF PatchMachineClass
<1>2. ClassSpec(snap.profile, snap.ignitions, PoolOf(snap.spec, d)) # NoClass
  BY <1>1, ClassSpecType
<1> QED  BY <1>1, <1>2 DEF Backed, TypeOK

\* Nothing that a deployment or a machine refers to loses its class or secret.
LEMMA BackedKept ==
    ASSUME TypeOK, Snapshot, Rolled, [Next]_vars, NEW c \in ClassNames, Backed(c),
           c \in machines \/ \E d \in DeploymentNames : deployments[d] = c
    PROVE  Backed(c)'
<1> USE DEF vars, cluster, objects, control
<1>1. CASE UNCHANGED <<classes, secrets>>
  BY <1>1 DEF Backed
<1>2. ASSUME NEW d \in DeploymentNames, PatchMachineClass(d)
      PROVE  Backed(c)'
  BY <1>2, PatchedClassExists
<1>3. ASSUME NEW b \in ClassNames, PatchClassSecret(b)
      PROVE  Backed(c)'
  BY <1>3 DEF PatchClassSecret, Backed
<1>4. ASSUME NEW b \in ClassNames, DeleteMachineClass(b)
      PROVE  Backed(c)'
  <2>1. b # c
    BY <1>4, CleanupSpares, WorkerAssumption DEF DeleteMachineClass, WorkerAssumption, NoClass
  <2> QED  BY <1>4, <2>1 DEF DeleteMachineClass, Backed, TypeOK
<1>5. ASSUME NEW b \in ClassNames, DeleteClassSecret(b)
      PROVE  Backed(c)'
  <2>1. b # c
    BY <1>5, CleanupSpares, WorkerAssumption DEF DeleteClassSecret, WorkerAssumption, NoClass
  <2> QED  BY <1>5, <2>1 DEF DeleteClassSecret, Backed
<1>6. CASE ActuatorStep
  BY <1>1, <1>4, <1>5, <1>6
  DEF ActuatorStep, DeployMachineDeployment, DeploymentsDeployed, WantedDeploymentsAvailable,
      DeleteMachineDeployment, UnwantedDeploymentsDeleted, ClassesCleaned, ReconcileDone
<1>7. CASE DelegateStep
  BY <1>1, <1>2, <1>3, <1>7
  DEF DelegateStep, StartReconcile, ClassesPatched, SecretsPatched, CollectImage, PatchProviderStatus
<1>8. CASE MachineStep
  BY <1>1, <1>8 DEF MachineStep, CreateMachine, DeleteMachine
<1>9. CASE Environment
  BY <1>1, <1>9 DEF Environment, EditSpec, EditProfile, EditSecret, Abort
<1> QED  BY <1>1, <1>6, <1>7, <1>8, <1>9 DEF Next

\* A deployment is only ever pointed at a class that is complete.
LEMMA DeploymentsInductive ==
    ASSUME IInv, [Next]_vars
    PROVE  DeploymentsBacked'
<1> USE DEF vars, cluster, objects, control
<1> SUFFICES ASSUME NEW d \in DeploymentNames, deployments'[d] # NoClass
             PROVE  Backed(deployments[d])'
  BY DEF DeploymentsBacked
<1>1. CASE deployments'[d] = deployments[d]
  <2>1. PICK c \in ClassNames : c = deployments[d] /\ Backed(c)
    BY <1>1 DEF IInv, TypeOK, DeploymentsBacked
  <2>2. Backed(c)'
    BY <2>1, BackedKept DEF IInv
  <2> QED  BY <1>1, <2>1, <2>2
<1>2. CASE deployments'[d] # deployments[d]
  <2>1. PICK e \in DeploymentNames : DeployMachineDeployment(e) \/ DeleteMachineDeployment(e)
    BY <1>2 DEF Next, DelegateStep, ActuatorStep, MachineStep, Environment,
         StartReconcile, PatchMachineClass, ClassesPatched, PatchClassSecret, SecretsPatched,
         CollectImage, PatchProviderStatus, DeploymentsDeployed, WantedDeploymentsAvailable,
         UnwantedDeploymentsDeleted, DeleteMachineClass, ClassesCleaned, DeleteClassSecret,
         ReconcileDone, CreateMachine, DeleteMachine, EditSpec, EditProfile, EditSecret, Abort
  <2>2. DeployMachineDeployment(d)
    BY <1>2, <2>1 DEF DeployMachineDeployment, DeleteMachineDeployment, IInv, TypeOK
  <2>3. pc = "deployments" /\ d \in WantedDeployments(snap.spec) /\ UNCHANGED <<classes, secrets>>
    BY <2>2 DEF DeployMachineDeployment, IInv, Snapshot
  <2>4. deployments'[d] = WantedClass(snap.spec, d)
    BY <2>2 DEF DeployMachineDeployment, IInv, TypeOK
  <2>5. Backed(WantedClass(snap.spec, d))
    BY <2>3 DEF IInv, Written, WantedClasses
  <2> QED  BY <2>3, <2>4, <2>5 DEF Backed
<1> QED  BY <1>1, <1>2

\* A machine is only ever created from a class that is complete.
LEMMA MachinesInductive ==
    ASSUME IInv, [Next]_vars
    PROVE  MachinesBacked'
<1> USE DEF vars, cluster, objects, control
<1> SUFFICES ASSUME NEW c \in machines'  PROVE Backed(c)'
  BY DEF MachinesBacked
<1>1. CASE c \in machines
  BY <1>1, BackedKept DEF IInv, MachinesBacked, TypeOK
<1>2. CASE c \notin machines
  <2>1. PICK d \in DeploymentNames : CreateMachine(d)
    BY <1>2 DEF Next, DelegateStep, ActuatorStep, MachineStep, Environment,
         StartReconcile, PatchMachineClass, ClassesPatched, PatchClassSecret, SecretsPatched,
         CollectImage, PatchProviderStatus, DeployMachineDeployment, DeploymentsDeployed,
         WantedDeploymentsAvailable, DeleteMachineDeployment, UnwantedDeploymentsDeleted,
         DeleteMachineClass, ClassesCleaned, DeleteClassSecret, ReconcileDone, DeleteMachine,
         EditSpec, EditProfile, EditSecret, Abort
  <2> QED  BY <1>2, <2>1 DEF CreateMachine, Backed
<1> QED  BY <1>1, <1>2

\* The invariant holds of a shoot namespace without machines, whatever provider
\* status an earlier release left.
LEMMA IInvInit ==
    ASSUME Init  PROVE IInv
<1>1. TypeOK
  BY WorkerAssumption DEF Init, TypeOK, Phases, WorkerAssumption
<1> QED
  BY <1>1 DEF Init, IInv, Snapshot, Written, Rolled, DeploymentsBacked, MachinesBacked, NoClass

\* Every step keeps the invariant.
LEMMA IInvInductive ==
    ASSUME IInv, [Next]_vars  PROVE IInv'
  BY TypeInductive, SnapshotInductive, WrittenInductive, RolledInductive,
     DeploymentsInductive, MachinesInductive DEF IInv

-----------------------------------------------------------------------------
(* The theorems *)

\* The inductive invariant: what each phase of the reconciliation has already
\* achieved, over every interleaving with the MCM, edits, failures and crashes.
THEOREM Invariance == Spec => []IInv
  BY IInvInit, IInvInductive, PTL DEF Spec

\* Every variable keeps its type.
THEOREM TypeCorrect == Spec => []TypeOK
<1>1. IInv => TypeOK
  BY DEF IInv
<1> QED  BY <1>1, Invariance, PTL

\* A MachineDeployment only refers to a class that exists with its secret.
THEOREM DeploymentsAlwaysBacked == Spec => []DeploymentsBacked
<1>1. IInv => DeploymentsBacked
  BY DEF IInv
<1> QED  BY <1>1, Invariance, PTL

\* The class and the secret of a live machine exist.
THEOREM MachinesAlwaysBacked == Spec => []MachinesBacked
<1>1. IInv => MachinesBacked
  BY DEF IInv
<1> QED  BY <1>1, Invariance, PTL

-----------------------------------------------------------------------------
(* Refinement: what the MCM sees is a behaviour of ClassLifecycle. *)

\* The mapped variables change only in the steps below; there every step is one
\* of the abstract specification, or changes nothing the MCM can see.
LEMMA LifecycleStep ==
    ASSUME IInv, [Next]_vars
    PROVE  [Lifecycle!LifecycleNext]_(Lifecycle!lifecycleVars)
<1> USE DEF vars, cluster, objects, control
<1> DEFINE available == {c \in ClassNames : Backed(c)}
<1>1. ASSUME UNCHANGED <<classes, secrets, deployments, machines>>
      PROVE  UNCHANGED Lifecycle!lifecycleVars
  BY <1>1 DEF Lifecycle!lifecycleVars, Backed
<1>2. ASSUME NEW d \in DeploymentNames, PatchMachineClass(d)
      PROVE  UNCHANGED Lifecycle!lifecycleVars \/ Lifecycle!LifecycleNext
  <2>1. pc = "classes" /\ d \in WantedDeployments(snap.spec) /\ UNCHANGED <<secrets, deployments, machines>>
    BY <1>2 DEF PatchMachineClass
  <2>2. WantedClass(snap.spec, d) \in ClassNames /\ ClassSpec(snap.profile, snap.ignitions, PoolOf(snap.spec, d)) # NoClass
    BY <2>1, DelegateType, WantedClassType, ClassSpecType DEF IInv
  <2>3. /\ classes'[WantedClass(snap.spec, d)] # NoClass
        /\ \A c \in ClassNames \ {WantedClass(snap.spec, d)} : classes'[c] = classes[c]
    BY <1>2, <2>2 DEF PatchMachineClass, IInv, TypeOK
  <2>4. CASE WantedClass(snap.spec, d) \in secrets
    <3>1. available' = available \cup {WantedClass(snap.spec, d)}
      BY <2>1, <2>2, <2>3, <2>4 DEF Backed
    <3>2. Lifecycle!Publish(WantedClass(snap.spec, d))
      BY <2>1, <3>1 DEF Lifecycle!Publish
    <3> QED  BY <2>2, <3>2 DEF Lifecycle!LifecycleNext
  <2>5. CASE WantedClass(snap.spec, d) \notin secrets
    <3>1. available' = available
      BY <2>1, <2>3, <2>5 DEF Backed
    <3> QED  BY <2>1, <3>1 DEF Lifecycle!lifecycleVars
  <2> QED  BY <2>4, <2>5
<1>3. ASSUME NEW c \in ClassNames, PatchClassSecret(c)
      PROVE  UNCHANGED Lifecycle!lifecycleVars \/ Lifecycle!LifecycleNext
  <2>1. secrets' = secrets \cup {c} /\ UNCHANGED <<classes, deployments, machines>>
    BY <1>3 DEF PatchClassSecret
  <2>2. CASE classes[c] # NoClass
    <3>1. available' = available \cup {c}
      BY <2>1, <2>2 DEF Backed
    <3>2. Lifecycle!Publish(c)
      BY <2>1, <3>1 DEF Lifecycle!Publish
    <3> QED  BY <3>2 DEF Lifecycle!LifecycleNext
  <2>3. CASE classes[c] = NoClass
    <3>1. available' = available
      BY <2>1, <2>3 DEF Backed
    <3> QED  BY <2>1, <3>1 DEF Lifecycle!lifecycleVars
  <2> QED  BY <2>2, <2>3
<1>4. ASSUME NEW d \in DeploymentNames, DeployMachineDeployment(d)
      PROVE  Lifecycle!LifecycleNext
  <2>1. /\ pc = "deployments" /\ d \in WantedDeployments(snap.spec)
        /\ deployments' = [deployments EXCEPT ![d] = WantedClass(snap.spec, d)]
        /\ UNCHANGED <<classes, secrets, machines>>
    BY <1>4 DEF DeployMachineDeployment, IInv, Snapshot
  <2>2. WantedClass(snap.spec, d) \in available
    BY <2>1, DelegateType, WantedClassType DEF IInv, Written, WantedClasses
  <2>3. available' = available
    BY <2>1 DEF Backed
  <2>4. Lifecycle!Refer(d, WantedClass(snap.spec, d))
    BY <2>1, <2>2, <2>3 DEF Lifecycle!Refer
  <2> QED  BY <2>2, <2>4 DEF Lifecycle!LifecycleNext
<1>5. ASSUME NEW d \in DeploymentNames, DeleteMachineDeployment(d)
      PROVE  Lifecycle!LifecycleNext
  <2>1. Lifecycle!Release(d)
    BY <1>5 DEF DeleteMachineDeployment, Lifecycle!Release, Backed
  <2> QED  BY <2>1 DEF Lifecycle!LifecycleNext
<1>6. ASSUME NEW c \in ClassNames, DeleteMachineClass(c) \/ DeleteClassSecret(c)
      PROVE  Lifecycle!LifecycleNext
  <2>1. ~Lifecycle!InUse(c)
    BY <1>6, CleanupSpares, WorkerAssumption
    DEF Lifecycle!InUse, DeleteMachineClass, DeleteClassSecret, IInv, WorkerAssumption, NoClass
  <2>2. available' = available \ {c} /\ UNCHANGED <<deployments, machines>>
    BY <1>6 DEF DeleteMachineClass, DeleteClassSecret, Backed, IInv, TypeOK
  <2>3. Lifecycle!Withdraw(c)
    BY <2>1, <2>2 DEF Lifecycle!Withdraw
  <2> QED  BY <2>3 DEF Lifecycle!LifecycleNext
<1>7. ASSUME NEW d \in DeploymentNames, CreateMachine(d)
      PROVE  Lifecycle!LifecycleNext
  <2>1. deployments[d] \in available
    BY <1>7 DEF CreateMachine, IInv, TypeOK
  <2>2. Lifecycle!Start(d)
    BY <1>7, <2>1 DEF CreateMachine, Lifecycle!Start, Backed
  <2> QED  BY <2>2 DEF Lifecycle!LifecycleNext
<1>8. ASSUME NEW c \in ClassNames, DeleteMachine(c)
      PROVE  Lifecycle!LifecycleNext
  <2>1. \A d \in DeploymentNames : deployments[d] # c
    BY <1>8, WorkerAssumption DEF DeleteMachine, IInv, Rolled, WorkerAssumption, NoClass
  <2>2. Lifecycle!Stop(c)
    BY <1>8, <2>1 DEF DeleteMachine, Lifecycle!Stop, Backed
  <2> QED  BY <2>2 DEF Lifecycle!LifecycleNext
<1>9. CASE DelegateStep
  BY <1>1, <1>2, <1>3, <1>9
  DEF DelegateStep, StartReconcile, ClassesPatched, SecretsPatched, CollectImage, PatchProviderStatus
<1>10. CASE ActuatorStep
  BY <1>1, <1>4, <1>5, <1>6, <1>10
  DEF ActuatorStep, DeploymentsDeployed, WantedDeploymentsAvailable, UnwantedDeploymentsDeleted,
      ClassesCleaned, ReconcileDone
<1>11. CASE MachineStep
  BY <1>7, <1>8, <1>11 DEF MachineStep
<1>12. CASE Environment
  BY <1>1, <1>12 DEF Environment, EditSpec, EditProfile, EditSecret, Abort
<1> QED  BY <1>1, <1>9, <1>10, <1>11, <1>12 DEF Next

\* Patch by patch, delete by delete, with failures and restarts in between, the
\* Worker controller implements the lifecycle the MCM relies on.
THEOREM WorkerImplementsLifecycle == Spec => ImplementsLifecycle
<1>1. Init => Lifecycle!LifecycleInit
  BY DEF Init, Lifecycle!LifecycleInit, Backed
<1>2. IInv /\ [Next]_vars => [Lifecycle!LifecycleNext]_(Lifecycle!lifecycleVars)
  BY LifecycleStep
<1> QED
  BY <1>1, <1>2, Invariance, PTL DEF Spec, ImplementsLifecycle, Lifecycle!LifecycleSpec

-----------------------------------------------------------------------------
(* What a step does to the lists of images and to the classes.             *)

\* A step appends the image of a pool to the list that is built, drops that list
\* or writes it to the status.
LEMMA ListStep ==
    ASSUME IInv, [Next]_vars
    PROVE  /\ status' \in {status, collected}
           /\ \/ collected' \in {collected, << >>} /\ (pc' = "images" => collected' = << >> \/ UNCHANGED <<pc, snap>>)
              \/ \E i \in DOMAIN snap.spec :
                    /\ UNCHANGED <<pc, snap>>
                    /\ snap.spec[i] \in Range(snap.spec)
                    /\ snap.spec \in Specs /\ snap.profile \in Profiles
                    /\ snap.spec[i].machineType \in DOMAIN snap.profile.types
                    /\ SelectImage(snap.profile, snap.spec[i]) # Nil
                    /\ SelectImage(snap.profile, snap.spec[i]) \in StatusImages
                    /\ collected' = AppendMachineImage(
                          EnsureUniformMachineImages(collected, Definitions(snap.profile)),
                          SelectImage(snap.profile, snap.spec[i]), Definitions(snap.profile))
<1> USE DEF vars, cluster, objects, control
<1>1. CASE CollectImage
  <2>1. PICK i \in todo :
            /\ SelectImage(snap.profile, snap.spec[i]) # Nil
            /\ collected' = AppendMachineImage(
                  EnsureUniformMachineImages(collected, Definitions(snap.profile)),
                  SelectImage(snap.profile, snap.spec[i]), Definitions(snap.profile))
    BY <1>1 DEF CollectImage
  <2>2. /\ pc = "images" /\ i \in DOMAIN snap.spec /\ snap.spec[i] \in Range(snap.spec)
        /\ UNCHANGED <<pc, snap, status>>
    BY <1>1 DEF CollectImage, IInv, TypeOK, Range
  <2>3. /\ snap.spec \in Specs /\ snap.profile \in Profiles
        /\ snap.spec[i].machineType \in DOMAIN snap.profile.types
        /\ SelectImage(snap.profile, snap.spec[i]) \in StatusImages \cup {Nil}
    BY <2>2, DelegateType DEF IInv
  <2> QED  BY <2>1, <2>2, <2>3
<1>2. CASE PatchProviderStatus \/ SecretsPatched \/ Abort
  BY <1>2 DEF PatchProviderStatus, SecretsPatched, Abort
<1>3. CASE UNCHANGED <<status, collected>> /\ (pc' # "images" \/ UNCHANGED <<pc, snap>>)
  BY <1>3
<1>4. \/ CollectImage \/ PatchProviderStatus \/ SecretsPatched \/ Abort
      \/ UNCHANGED <<status, collected>> /\ (pc' # "images" \/ UNCHANGED <<pc, snap>>)
  BY DEF Next, DelegateStep, ActuatorStep, MachineStep, Environment, StartReconcile,
         PatchMachineClass, ClassesPatched, PatchClassSecret, DeployMachineDeployment,
         DeploymentsDeployed, WantedDeploymentsAvailable, DeleteMachineDeployment,
         UnwantedDeploymentsDeleted, DeleteMachineClass, ClassesCleaned, DeleteClassSecret,
         ReconcileDone, CreateMachine, DeleteMachine, EditSpec, EditProfile, EditSecret
<1> QED  BY <1>1, <1>2, <1>3, <1>4

\* A step leaves a class alone, deletes it, or is the patch of a wanted class.
LEMMA ClassStep ==
    ASSUME IInv, [Next]_vars, NEW c \in ClassNames, classes'[c] # NoClass
    PROVE  \/ classes'[c] = classes[c]
           \/ \E d \in WantedDeployments(snap.spec) :
                 /\ PatchMachineClass(d)
                 /\ c = WantedClass(snap.spec, d)
                 /\ classes'[c] = ClassSpec(snap.profile, snap.ignitions, PoolOf(snap.spec, d))
<1> USE DEF vars, cluster, objects, control
<1>1. ASSUME NEW d \in DeploymentNames, PatchMachineClass(d)
      PROVE  \/ classes'[c] = classes[c]
             \/ /\ d \in WantedDeployments(snap.spec)
                /\ c = WantedClass(snap.spec, d)
                /\ classes'[c] = ClassSpec(snap.profile, snap.ignitions, PoolOf(snap.spec, d))
  BY <1>1 DEF PatchMachineClass, IInv, TypeOK
<1>2. ASSUME NEW b \in ClassNames, DeleteMachineClass(b)
      PROVE  classes'[c] = classes[c]
  BY <1>2 DEF DeleteMachineClass, IInv, TypeOK
<1>3. \/ classes' = classes
      \/ \E d \in DeploymentNames : PatchMachineClass(d)
      \/ \E b \in ClassNames : DeleteMachineClass(b)
  BY DEF Next, DelegateStep, ActuatorStep, MachineStep, Environment, StartReconcile,
         ClassesPatched, PatchClassSecret, SecretsPatched, CollectImage, PatchProviderStatus,
         DeployMachineDeployment, DeploymentsDeployed, WantedDeploymentsAvailable,
         DeleteMachineDeployment, UnwantedDeploymentsDeleted, ClassesCleaned, DeleteClassSecret,
         ReconcileDone, CreateMachine, DeleteMachine, EditSpec, EditProfile, EditSecret, Abort
<1> QED  BY <1>1, <1>2, <1>3

\* Every class that has been patched was so in this step, or in an earlier one
\* of the same reconciliation and is still the same.
LEMMA PatchedStep ==
    ASSUME IInv, [Next]_vars, (pc # "idle")', NEW d \in WantedDeployments(snap.spec)', Patched(d)'
    PROVE  /\ snap' = snap /\ pc # "idle" /\ d \in WantedDeployments(snap.spec)
           /\ WantedClass(snap.spec, d) \in ClassNames
           /\ \/ /\ Patched(d)
                 /\ classes'[WantedClass(snap.spec, d)] = classes[WantedClass(snap.spec, d)]
              \/ /\ pc = "classes" /\ status' = status
                 /\ classes'[WantedClass(snap.spec, d)] = ClassSpec(snap.profile, snap.ignitions, PoolOf(snap.spec, d))
<1> USE DEF vars, cluster, objects, control
<1>1. ~StartReconcile
  BY DEF StartReconcile, Present, Patched, WantedClasses
<1>2. snap' = snap /\ pc # "idle"
  BY <1>1 DEF Next, DelegateStep, ActuatorStep, MachineStep, Environment,
         PatchMachineClass, ClassesPatched, PatchClassSecret, SecretsPatched, CollectImage,
         PatchProviderStatus, DeployMachineDeployment, DeploymentsDeployed,
         WantedDeploymentsAvailable, DeleteMachineDeployment, UnwantedDeploymentsDeleted,
         DeleteMachineClass, ClassesCleaned, DeleteClassSecret, ReconcileDone, CreateMachine,
         DeleteMachine, EditSpec, EditProfile, EditSecret, Abort
<1>3. /\ d \in WantedDeployments(snap.spec) /\ WantedClass(snap.spec, d) \in ClassNames
      /\ WantedClass(snap.spec, d) \in WantedClasses(snap.spec)
  BY <1>2, DelegateType, WantedClassType DEF IInv, WantedClasses
<1> DEFINE c == WantedClass(snap.spec, d)
<1>4. ASSUME NEW e \in DeploymentNames, PatchMachineClass(e)
      PROVE  \/ Patched(d) /\ classes'[c] = classes[c]
             \/ /\ pc = "classes" /\ status' = status
                /\ classes'[c] = ClassSpec(snap.profile, snap.ignitions, PoolOf(snap.spec, d))
  <2>1. /\ pc = "classes" /\ pc' = "classes" /\ e \in WantedDeployments(snap.spec)
        /\ classes' = [classes EXCEPT ![WantedClass(snap.spec, e)] =
                          ClassSpec(snap.profile, snap.ignitions, PoolOf(snap.spec, e))]
        /\ todo' = todo \ {WantedClass(snap.spec, e)} /\ status' = status
    BY <1>4 DEF PatchMachineClass
  <2>2. CASE e = d
    BY <1>3, <2>1, <2>2 DEF IInv, TypeOK
  <2>3. CASE e # d
    <3>1. WantedClass(snap.spec, e) # c
      BY <1>2, <1>3, <2>1, <2>3, DelegateType, WantedClassType DEF IInv
    <3>2. classes'[c] = classes[c]
      BY <1>3, <2>1, <3>1 DEF IInv, TypeOK
    <3> QED  BY <1>2, <2>1, <3>1, <3>2 DEF Patched
  <2> QED  BY <2>2, <2>3
<1>5. ASSUME NEW b \in ClassNames, DeleteMachineClass(b)
      PROVE  Patched(d) /\ classes'[c] = classes[c]
  <2>1. pc = "cleanClasses" /\ b \in todo /\ classes' = [classes EXCEPT ![b] = NoClass]
    BY <1>5 DEF DeleteMachineClass
  <2>2. b # c
    BY <1>3, <2>1 DEF IInv, Rolled
  <2> QED  BY <1>3, <2>1, <2>2 DEF Patched, IInv, TypeOK
<1>6. CASE ClassesPatched
  BY <1>2, <1>3, <1>6 DEF ClassesPatched, Patched
<1>7. CASE pc # "classes" /\ UNCHANGED classes
  BY <1>2, <1>3, <1>7 DEF Patched
<1>8. CASE UNCHANGED <<pc, todo, snap, classes>>
  BY <1>2, <1>3, <1>8 DEF Patched
<1>9. \/ \E e \in DeploymentNames : PatchMachineClass(e)
      \/ \E b \in ClassNames : DeleteMachineClass(b)
      \/ ClassesPatched
      \/ pc # "classes" /\ UNCHANGED classes
      \/ UNCHANGED <<pc, todo, snap, classes>>
  BY <1>1 DEF Next, DelegateStep, ActuatorStep, MachineStep, Environment,
         PatchClassSecret, SecretsPatched, CollectImage, PatchProviderStatus,
         DeployMachineDeployment, DeploymentsDeployed, WantedDeploymentsAvailable,
         DeleteMachineDeployment, UnwantedDeploymentsDeleted, ClassesCleaned, DeleteClassSecret,
         ReconcileDone, CreateMachine, DeleteMachine, EditSpec, EditProfile, EditSecret, Abort
<1> QED  BY <1>2, <1>3, <1>4, <1>5, <1>6, <1>7, <1>8, <1>9

-----------------------------------------------------------------------------
(* The rebuilding of the list                                              *)

\* All images but the last are uniform and pairwise different.
Building ==
    pc = "images" /\ collected # << >> =>
        Rebuilt(SubSeq(collected, 1, Len(collected) - 1), Definitions(snap.profile))

\* Every step keeps the list so: the image appended is the only one that is not
\* uniform, until the next iteration.
LEMMA BuildingInductive ==
    ASSUME IInv, Building, [Next]_vars
    PROVE  Building'
<1> DEFINE defs == Definitions(snap.profile)
           uniform == EnsureUniformMachineImages(collected, defs)
           image(i) == SelectImage(snap.profile, snap.spec[i])
<1> SUFFICES ASSUME (pc = "images" /\ collected # << >>)'
             PROVE  Rebuilt(SubSeq(collected', 1, Len(collected') - 1), Definitions(snap'.profile))
  BY DEF Building
<1>1. CASE collected' = collected /\ UNCHANGED <<pc, snap>>
  BY <1>1 DEF Building
<1>2. ASSUME NEW i \in DOMAIN snap.spec, image(i) \in StatusImages, UNCHANGED <<pc, snap>>,
             collected' = AppendMachineImage(uniform, image(i), defs)
      PROVE  Rebuilt(SubSeq(collected', 1, Len(collected') - 1), Definitions(snap'.profile))
  <2>1. collected \in Seq(StatusImages) /\ uniform \in Seq(StatusImages)
    BY EnsureUniformType DEF IInv, TypeOK
  <2>2. Rebuilt(uniform, defs)
    <3>1. CASE collected = << >>
      BY <3>1 DEF EnsureUniformMachineImages, Rebuilt
    <3>2. CASE collected # << >>
      <4> DEFINE front == SubSeq(collected, 1, Len(collected) - 1)
                 last == UniformImage(collected[Len(collected)])
      <4>1. front \in Seq(StatusImages)
        BY <2>1, <3>2
      <4>2. collected[Len(collected)] \in StatusImages
        BY <2>1, <3>2, ElementOfSeq, LenProperties
      <4>3. last \in StatusImages /\ DOMAIN last.capabilities # {}
        BY <4>2, UniformType
      <4>4. Rebuilt(front, defs)
        BY <1>2, <3>2 DEF Building
      <4>5. uniform = AppendMachineImage(front, last, defs)
        BY <3>2 DEF EnsureUniformMachineImages
      <4> HIDE DEF front, last, uniform, defs
      <4> QED  BY <4>1, <4>3, <4>4, <4>5, AppendRebuilt
    <3> QED  BY <3>1, <3>2
  <2>3. collected' # << >> /\ snap'.profile = snap.profile
    BY <1>2
  <2> HIDE DEF uniform
  <2> QED  BY <1>2, <2>1, <2>2, <2>3, AppendFront
<1> QED  BY <1>1, <1>2, ListStep

\* Whenever UpdateMachineImagesStatus rebuilds its list, rewriting the last image
\* is all that is done, for any pools, CloudProfiles and old statuses: the model
\* of ensureUniformMachineImages computes what the code does.
THEOREM RebuildsChangeLastOnly == Spec => []RebuildChangesLastOnly
<1>1. Init => Building
  BY DEF Init, Building
<1>2. IInv /\ Building /\ [Next]_vars => Building'
  BY BuildingInductive
<1>3. IInv /\ Building => RebuildChangesLastOnly
  BY RebuildLastOnly DEF IInv, TypeOK, Building, RebuildChangesLastOnly
<1> QED  BY <1>1, <1>2, <1>3, Invariance, PTL DEF Spec

-----------------------------------------------------------------------------
(* Where the images come from: every entry of the lists is in a set E that *)
(* has all that CloudProfiles and old statuses offer.                      *)

Entry(img) == [version |-> img.version, image |-> img.image, capabilities |-> img.capabilities]

Entries == [version : Versions, image : Images, capabilities : Capabilities]

From(E, images) == \A i \in DOMAIN images : Entry(images[i]) \in E

HasOffers(E) ==
    \A v \in Versions : \A f \in Offers(v) :
        [version |-> v, image |-> f.image, capabilities |-> f.capabilities] \in E

\* ensureUniformMachineImages does not lead out of E.
UniformWithin(E) ==
    \A e \in E : DOMAIN e.capabilities = {} =>
        \A a \in {AMD64, ARM64} : [e EXCEPT !.capabilities = ArchitectureOnly(a)] \in E

Origin(E) == (status # Nil => From(E, status)) /\ From(E, collected)

\* The entry of an image, once it is uniform.
LEMMA UniformFrom ==
    ASSUME NEW E, UniformWithin(E), NEW img \in StatusImages, Entry(img) \in E
    PROVE  Entry(UniformImage(img)) \in E
<1>1. CASE DOMAIN img.capabilities # {}
  BY <1>1 DEF UniformImage
<1>2. CASE DOMAIN img.capabilities = {}
  <2> DEFINE a == OrAMD64(img.architecture)
  <2>1. a \in {AMD64, ARM64}
    BY OrAMD64Type DEF StatusImages
  <2> HIDE DEF a
  <2>2. /\ UniformImage(img).version = img.version
        /\ UniformImage(img).image = img.image
        /\ UniformImage(img).capabilities = ArchitectureOnly(a)
    BY <1>2 DEF UniformImage, StatusImages, a
  <2>3. Entry(UniformImage(img)) = [Entry(img) EXCEPT !.capabilities = ArchitectureOnly(a)]
    BY <2>2 DEF Entry
  <2> QED  BY <1>2, <2>1, <2>3 DEF UniformWithin, Entry
<1> QED  BY <1>1, <1>2

\* Appending an entry of E keeps the list within E.
LEMMA AppendFrom ==
    ASSUME NEW E, NEW images \in Seq(StatusImages), From(E, images), NEW defs,
           NEW img \in StatusImages, Entry(img) \in E
    PROVE  From(E, AppendMachineImage(images, img, defs))
<1> DEFINE last == [img EXCEPT !.architecture = Nil]
<1>1. CASE AppendMachineImage(images, img, defs) = images
  BY <1>1
<1>2. CASE AppendMachineImage(images, img, defs) = Append(images, last)
  <2>1. Entry(last) \in E
    BY DEF Entry, StatusImages
  <2>2. ASSUME NEW i \in DOMAIN Append(images, last)
        PROVE  Entry(Append(images, last)[i]) \in E
    <3>1. CASE i = Len(images) + 1
      BY <2>1, <3>1
    <3>2. CASE i \in DOMAIN images
      BY <3>2 DEF From
    <3> QED  BY <3>1, <3>2
  <2> QED  BY <1>2, <2>2 DEF From
<1> QED  BY <1>1, <1>2 DEF AppendMachineImage

\* ... and so does making it uniform.
LEMMA EnsureUniformFrom ==
    ASSUME NEW E, UniformWithin(E), NEW images \in Seq(StatusImages), From(E, images), NEW defs
    PROVE  From(E, EnsureUniformMachineImages(images, defs))
<1>1. CASE images = << >>
  BY <1>1 DEF EnsureUniformMachineImages
<1>2. CASE images # << >>
  <2> DEFINE front == SubSeq(images, 1, Len(images) - 1)
             last == UniformImage(images[Len(images)])
  <2>1. front \in Seq(StatusImages) /\ From(E, front)
    BY <1>2 DEF From
  <2>2. images[Len(images)] \in StatusImages /\ Len(images) \in DOMAIN images
    BY <1>2, ElementOfSeq, LenProperties
  <2>3. last \in StatusImages /\ Entry(last) \in E
    BY <2>2, UniformType, UniformFrom DEF From
  <2> HIDE DEF front, last
  <2>4. From(E, AppendMachineImage(front, last, defs))
    BY <2>1, <2>3, AppendFrom
  <2> QED  BY <1>2, <2>4 DEF EnsureUniformMachineImages, front, last
<1> QED  BY <1>1, <1>2

\* The image of a pool is an entry of E, of the pool's version, and compatible.
LEMMA SelectedFrom ==
    ASSUME NEW E, HasOffers(E), NEW pr \in Profiles, NEW p \in Pools,
           p.machineType \in DOMAIN pr.types,
           status = Nil \/ status \in Seq(StatusImages), status # Nil => From(E, status),
           SelectImage(pr, p) # Nil
    PROVE  /\ SelectImage(pr, p) \in StatusImages
           /\ Entry(SelectImage(pr, p)) \in E
           /\ SelectImage(pr, p).version = p.version
           /\ \/ Compatible(SelectImage(pr, p).capabilities, MachineCapabilities(pr, p), Definitions(pr))
              \/ Compatible(StatusCapabilities(SelectImage(pr, p)), MachineCapabilities(pr, p), Definitions(pr))
<1> DEFINE entries == pr.versions[p.version]
           caps == MachineCapabilities(pr, p)
           defs == Definitions(pr)
           flavor == FindImageInCloudProfile(entries, caps, defs)
           image == SelectImage(pr, p)
<1>1. image \in StatusImages
  BY SelectImageType
<1>2. p.version \in Versions /\ entries \in SUBSET VersionEntries
  BY WorkerAssumption DEF WorkerAssumption, CloudProfiles, Pools
<1>3. CASE flavor # Nil
  <2>1. /\ image.version = p.version
        /\ image.image = flavor.image
        /\ image.capabilities = flavor.capabilities
    BY <1>3 DEF SelectImage, SelectMachineImageForWorkerPool
  <2>2. /\ flavor \in ConvertLegacyVersionsToCapabilityFlavors(entries)
        /\ Compatible(flavor.capabilities, caps, defs)
    BY <1>2, <1>3, ProfileLookupFits
  <2>3. flavor \in Offers(p.version)
    BY <2>2 DEF Offers
  <2>4. Entry(image) \in E
    BY <1>2, <2>1, <2>3 DEF HasOffers, Entry
  <2> QED  BY <1>1, <2>1, <2>2, <2>4
<1>4. CASE flavor = Nil
  <2>1. /\ status # Nil
        /\ image = FindImageInWorkerStatus(status, p.version, caps, defs)
    BY <1>4 DEF SelectImage, SelectMachineImageForWorkerPool
  <2>2. \E i \in DOMAIN status : image = status[i] /\ StatusMatches(image, p.version, caps, defs)
    <3> HIDE DEF caps, defs
    <3> QED  BY <2>1, StatusLookup
  <2> QED  BY <1>1, <2>1, <2>2 DEF From, StatusMatches
<1> QED  BY <1>3, <1>4

\* Whatever lists are built, written and dropped, no entry comes from elsewhere.
LEMMA OriginInductive ==
    ASSUME NEW CONSTANT E, HasOffers(E), UniformWithin(E), IInv, Origin(E), [Next]_vars
    PROVE  Origin(E)'
<1>1. collected \in Seq(StatusImages) /\ From(E, collected) /\ From(E, << >>)
  BY DEF IInv, TypeOK, Origin, From
<1>2. From(E, collected')
  <2>1. CASE collected' \in {collected, << >>}
    BY <1>1, <2>1
  <2>2. ASSUME NEW i \in DOMAIN snap.spec,
               snap.spec[i] \in Range(snap.spec), snap.spec \in Specs, snap.profile \in Profiles,
               snap.spec[i].machineType \in DOMAIN snap.profile.types,
               SelectImage(snap.profile, snap.spec[i]) # Nil,
               collected' = AppendMachineImage(
                     EnsureUniformMachineImages(collected, Definitions(snap.profile)),
                     SelectImage(snap.profile, snap.spec[i]), Definitions(snap.profile))
        PROVE  From(E, collected')
    <3> DEFINE defs == Definitions(snap.profile)
               image == SelectImage(snap.profile, snap.spec[i])
               uniform == EnsureUniformMachineImages(collected, defs)
    <3>1. snap.spec[i] \in Pools
      BY <2>2, PoolsType
    <3>2. image \in StatusImages /\ Entry(image) \in E
      BY <2>2, <3>1, SelectedFrom DEF IInv, TypeOK, Origin
    <3> HIDE DEF image, defs
    <3>3. uniform \in Seq(StatusImages) /\ From(E, uniform)
      BY <1>1, EnsureUniformType, EnsureUniformFrom
    <3> HIDE DEF uniform
    <3>4. From(E, AppendMachineImage(uniform, image, defs))
      BY <3>2, <3>3, AppendFrom
    <3> QED  BY <2>2, <3>4 DEF uniform, image, defs
  <2> QED  BY <2>1, <2>2, ListStep
<1>3. status' # Nil => From(E, status')
  BY <1>1, ListStep DEF Origin
<1> QED  BY <1>2, <1>3 DEF Origin, From

\* Initially there are only the offers.
LEMMA OriginInit ==
    ASSUME NEW CONSTANT E, HasOffers(E), Init
    PROVE  Origin(E)
<1>1. ASSUME status # Nil, NEW i \in DOMAIN status
      PROVE  Entry(status[i]) \in E
  <2>1. status \in InitialStatuses \ {Nil} /\ status \in Seq(StatusImages)
    BY <1>1, WorkerAssumption DEF Init, WorkerAssumption
  <2>2. status[i].version \in Versions
    <3>1. status[i] \in StatusImages
      BY <1>1, <2>1
    <3> QED  BY <3>1 DEF StatusImages
  <2>3. [image |-> status[i].image, capabilities |-> status[i].capabilities] \in Offers(status[i].version)
    BY <1>1, <2>1 DEF Offers
  <2> QED  BY <2>2, <2>3 DEF HasOffers, Entry
<1> QED  BY <1>1 DEF Origin, From, Init

\* What is offered is typed.
LEMMA OffersType ==
    ASSUME NEW v \in Versions
    PROVE  Offers(v) \subseteq Flavors
<1>1. ASSUME NEW pr \in Profiles
      PROVE  ConvertLegacyVersionsToCapabilityFlavors(pr.versions[v]) \subseteq Flavors
  <2>1. pr.versions[v] \in SUBSET VersionEntries
    BY WorkerAssumption DEF WorkerAssumption, CloudProfiles
  <2> QED  BY <2>1, ConvertedType
<1>2. ASSUME NEW s \in InitialStatuses \ {Nil}, NEW i \in DOMAIN s
      PROVE  [image |-> s[i].image, capabilities |-> s[i].capabilities] \in Flavors
  <2>1. s[i] \in StatusImages
    BY <1>2, WorkerAssumption DEF WorkerAssumption
  <2> QED  BY <2>1 DEF StatusImages, Flavors
<1> QED  BY <1>1, <1>2 DEF Offers

-----------------------------------------------------------------------------
(* Retention: no image that a pool uses is lost from the provider status,  *)
(* provided an image without capabilities is one for AMD64.                *)

\* An entry has capabilities if all images that are offered for its version do.
KeptEntries == {e \in Entries : Described(e.version) => DOMAIN e.capabilities # {}}

LEMMA KeptOffers == HasOffers(KeptEntries) /\ UniformWithin(KeptEntries)
<1>1. ASSUME NEW v \in Versions, NEW f \in Offers(v)
      PROVE  [version |-> v, image |-> f.image, capabilities |-> f.capabilities] \in KeptEntries
  BY OffersType DEF KeptEntries, Entries, Flavors, Described
<1>2. ASSUME NEW e \in KeptEntries, NEW a \in {AMD64, ARM64}
      PROVE  [e EXCEPT !.capabilities = ArchitectureOnly(a)] \in KeptEntries
  <2>1. ArchitectureOnly(a) \in Capabilities /\ DOMAIN ArchitectureOnly(a) # {}
    BY ArchitectureOnlyType, ArchitectureAssumption DEF ArchitectureAssumption
  <2> DEFINE new == [e EXCEPT !.capabilities = ArchitectureOnly(a)]
  <2>2. new \in Entries /\ new.capabilities = ArchitectureOnly(a)
    BY <2>1 DEF KeptEntries, Entries
  <2> HIDE DEF new
  <2>3. new \in KeptEntries
    BY <2>1, <2>2 DEF KeptEntries
  <2> QED  BY <2>3 DEF new
<1> QED  BY <1>1, <1>2 DEF HasOffers, UniformWithin

\* The loop of UpdateMachineImagesStatus: the list built so far retains the
\* image of every pool it has been through.
Retention ==
    /\ Origin(KeptEntries)
    /\ Stripped(collected)
    /\ pc = "images" => \A i \in DOMAIN snap.spec \ todo :
          Retains(collected, snap.spec[i].version,
                  MachineCapabilities(snap.profile, snap.spec[i]), Definitions(snap.profile))
    /\ status = Nil => \A n \in PoolNames : recorded[n] = Nil
    /\ PoolsRetained

LEMMA RetentionInit == Init => Retention
<1> SUFFICES ASSUME Init PROVE Retention
  OBVIOUS
<1>1. Origin(KeptEntries)
  BY KeptOffers, OriginInit
<1> QED  BY <1>1 DEF Init, Retention, PoolsRetained, Stripped

\* Images a pool finds for its version in the status can be kept for it.
LEMMA PoolKeeps ==
    ASSUME ImagesRetainable, NEW pr \in Profiles, NEW ps \in Specs, NEW p \in Range(ps),
           p.machineType \in DOMAIN pr.types,
           NEW img, Entry(img) \in KeptEntries, img.version = p.version
    PROVE  Keeps(img, MachineCapabilities(pr, p), Definitions(pr))
<1>1. CASE Described(p.version)
  BY <1>1 DEF KeptEntries, Entry, Keeps
<1>2. CASE RunsAMD64(MachineCapabilities(pr, p), Definitions(pr))
  BY <1>2 DEF Keeps
<1> QED  BY <1>1, <1>2 DEF ImagesRetainable

\* The capabilities of a pool's image fit the machines, wherever it was found.
LEMMA SelectedFits ==
    ASSUME ImagesRetainable, NEW pr \in Profiles, NEW ps \in Specs, NEW p \in Range(ps),
           p.machineType \in DOMAIN pr.types,
           status = Nil \/ status \in Seq(StatusImages), status # Nil => From(KeptEntries, status),
           SelectImage(pr, p) # Nil
    PROVE  /\ SelectImage(pr, p) \in StatusImages
           /\ SelectImage(pr, p).version = p.version
           /\ Compatible(SelectImage(pr, p).capabilities, MachineCapabilities(pr, p), Definitions(pr))
<1> DEFINE entries == pr.versions[p.version]
           caps == MachineCapabilities(pr, p)
           defs == Definitions(pr)
           flavor == FindImageInCloudProfile(entries, caps, defs)
           image == SelectImage(pr, p)
<1>0. p \in Pools
  BY PoolsType
<1>1. SelectImage(pr, p) \in StatusImages
  BY <1>0, SelectImageType
<1>2. p.version \in Versions /\ entries \in SUBSET VersionEntries
  BY <1>0, WorkerAssumption DEF WorkerAssumption, CloudProfiles, Pools
<1>3. CASE flavor # Nil
  <2>1. /\ image.version = p.version
        /\ image.capabilities = flavor.capabilities
    BY <1>3 DEF SelectImage, SelectMachineImageForWorkerPool
  <2>2. Compatible(flavor.capabilities, caps, defs)
    BY <1>2, <1>3, ProfileLookupFits
  <2> HIDE DEF flavor, image, caps, defs, entries
  <2> QED  BY <1>1, <2>1, <2>2 DEF image, caps, defs
<1>4. CASE flavor = Nil
  <2>1. /\ status # Nil
        /\ image = FindImageInWorkerStatus(status, p.version, caps, defs)
    BY <1>4 DEF SelectImage, SelectMachineImageForWorkerPool
  <2>2. \E i \in DOMAIN status : image = status[i] /\ StatusMatches(image, p.version, caps, defs)
    <3> HIDE DEF caps, defs
    <3> QED  BY <2>1, StatusLookup
  <2>3. Entry(image) \in KeptEntries /\ image.version = p.version
    BY <2>1, <2>2 DEF From, StatusMatches
  <2>4. Keeps(image, caps, defs)
    <3> HIDE DEF image
    <3> QED  BY <2>3, PoolKeeps
  <2> HIDE DEF image, caps, defs
  <2>5. image \in StatusImages
    BY <1>1 DEF image
  <2>6. Compatible(image.capabilities, caps, defs)
    BY <2>2, <2>4, <2>5, StatusKeeps
  <2> QED  BY <1>1, <2>3, <2>6 DEF image, caps, defs
<1> QED  BY <1>3, <1>4

\* Every step keeps the loop's invariant.
LEMMA RetentionInductive ==
    ASSUME ImagesRetainable, IInv, Retention, [Next]_vars
    PROVE  Retention'
<1> USE DEF vars, cluster, objects, control
<1>0. Origin(KeptEntries)'
  BY KeptOffers, OriginInductive DEF Retention
<1>1. ASSUME UNCHANGED <<status, recorded, collected>>, pc' # "images"
      PROVE  Retention'
  BY <1>0, <1>1 DEF Retention, PoolsRetained
<1>2. ASSUME UNCHANGED <<status, recorded, collected, pc, snap, todo>>
      PROVE  Retention'
  BY <1>0, <1>2 DEF Retention, PoolsRetained
<1>3. CASE SecretsPatched
  <2>1. DOMAIN snap'.spec \ todo' = {} /\ UNCHANGED <<status, recorded>>
    BY <1>3 DEF SecretsPatched
  <2>2. Stripped(collected)'
    BY <1>3 DEF SecretsPatched, Stripped
  <2> QED  BY <1>0, <2>1, <2>2 DEF Retention, PoolsRetained
<1>4. CASE CollectImage
  <2> DEFINE defs == Definitions(snap.profile)
             uniform == EnsureUniformMachineImages(collected, defs)
  <2>1. PICK i \in todo :
            /\ SelectImage(snap.profile, snap.spec[i]) # Nil
            /\ collected' = AppendMachineImage(uniform, SelectImage(snap.profile, snap.spec[i]), defs)
            /\ todo' = todo \ {i}
    BY <1>4 DEF CollectImage
  <2>2. /\ pc = "images" /\ i \in DOMAIN snap.spec
        /\ UNCHANGED <<pc, snap, status, recorded>>
    BY <1>4 DEF CollectImage, IInv, TypeOK
  <2>3. ASSUME NEW j \in DOMAIN snap.spec
        PROVE  snap.spec[j] \in Range(snap.spec) /\ snap.spec[j].machineType \in DOMAIN snap.profile.types
    BY <2>2, DelegateType DEF IInv, Range
  <2>4. snap.spec \in Specs /\ snap.profile \in Profiles
    BY <2>2, DelegateType DEF IInv
  <2> DEFINE image == SelectImage(snap.profile, snap.spec[i])
             caps(j) == MachineCapabilities(snap.profile, snap.spec[j])
  <2>5. /\ image \in StatusImages /\ image.version = snap.spec[i].version
        /\ Compatible(image.capabilities, caps(i), defs)
    BY <2>1, <2>2, <2>3, <2>4, SelectedFits DEF IInv, TypeOK, Retention, Origin
  <2>6. collected \in Seq(StatusImages) /\ Stripped(collected) /\ From(KeptEntries, collected)
    BY DEF IInv, TypeOK, Retention, Origin
  <2>7. ASSUME NEW j \in DOMAIN snap.spec, NEW k \in DOMAIN collected,
               collected[k].version = snap.spec[j].version
        PROVE  Keeps(collected[k], caps(j), defs)
    <3>1. Entry(collected[k]) \in KeptEntries
      BY <2>6 DEF From
    <3> QED  BY <2>3, <2>4, <2>7, <3>1, PoolKeeps
  <2> HIDE DEF defs
  <2>8. /\ uniform \in Seq(StatusImages) /\ Stripped(uniform)
        /\ \A version, m :
              /\ Retains(collected, version, m, defs)
              /\ \A k \in DOMAIN collected : collected[k].version = version => Keeps(collected[k], m, defs)
              => Retains(uniform, version, m, defs)
    BY <2>6, EnsureUniformType, EnsureUniformRetains
  <2> HIDE DEF uniform, image
  <2>9. /\ Stripped(collected')
        /\ \A m : Compatible(image.capabilities, m, defs) => Retains(collected', image.version, m, defs)
        /\ \A version, m : Retains(uniform, version, m, defs) => Retains(collected', version, m, defs)
    <3>1. collected' = AppendMachineImage(uniform, image, defs)
      BY <2>1 DEF image
    <3> QED  BY <2>5, <2>8, <3>1, AppendRetains
  <2> HIDE DEF caps
  <2>10. ASSUME NEW j \in DOMAIN snap.spec \ todo'
         PROVE  Retains(collected', snap.spec[j].version, caps(j), defs)
    <3>1. CASE j = i
      BY <2>5, <2>9, <3>1
    <3>2. CASE j # i
      <4>1. Retains(collected, snap.spec[j].version, caps(j), defs)
        BY <2>1, <2>2, <3>2 DEF Retention, defs, caps
      <4>2. Retains(uniform, snap.spec[j].version, caps(j), defs)
        BY <2>7, <2>8, <4>1
      <4> QED  BY <2>9, <4>2
    <3> QED  BY <3>1, <3>2
  <2>11. PoolsRetained'
    BY <2>2 DEF Retention, PoolsRetained
  <2>12. Stripped(collected)'
    BY <2>9 DEF Stripped
  <2> QED  BY <1>0, <2>2, <2>10, <2>11, <2>12 DEF Retention, Retains, defs, caps
<1>5. CASE PatchProviderStatus
  <2>1. /\ pc = "images" /\ todo = {} /\ pc' = "deployments"
        /\ status' = collected /\ collected' = << >> /\ UNCHANGED snap
    BY <1>5 DEF PatchProviderStatus
  <2>2. collected \in Seq(StatusImages) /\ collected # Nil
    <3>1. collected \in Seq(StatusImages)
      BY DEF IInv, TypeOK
    <3> QED  BY <3>1, NilRecordAssumption DEF NilRecordAssumption
  <2>3. ASSUME NEW n \in PoolNames, recorded'[n] # Nil
        PROVE  FindImageInWorkerStatus(collected, recorded'[n].version, recorded'[n].capabilities,
                                       recorded'[n].definitions) # Nil
    <3>1. PICK p \in Range(snap.spec) : recorded'[n] = Request(snap.profile, p)
      BY <1>5, <2>3 DEF PatchProviderStatus
    <3>2. PICK i \in DOMAIN snap.spec : p = snap.spec[i]
      BY DEF Range
    <3>3. Retains(collected, p.version, MachineCapabilities(snap.profile, p), Definitions(snap.profile))
      BY <2>1, <3>2 DEF Retention
    <3> QED  BY <2>2, <3>1, <3>3, StatusLookup DEF Request, Retains
  <2>4. Stripped(collected)'
    BY <2>1 DEF Stripped
  <2> QED  BY <1>0, <2>1, <2>2, <2>3, <2>4 DEF Retention, PoolsRetained
<1>6. CASE Abort
  <2>1. pc' = "idle" /\ collected' = << >> /\ UNCHANGED <<status, recorded>>
    BY <1>6 DEF Abort
  <2>2. Stripped(collected)'
    BY <2>1 DEF Stripped
  <2> QED  BY <1>0, <2>1, <2>2 DEF Retention, PoolsRetained
<1>7. CASE Environment
  BY <1>2, <1>6, <1>7 DEF Environment, EditSpec, EditProfile, EditSecret
<1>8. CASE DelegateStep
  BY <1>1, <1>3, <1>4, <1>5, <1>8
  DEF DelegateStep, StartReconcile, PatchMachineClass, ClassesPatched, PatchClassSecret
<1>9. CASE ActuatorStep
  BY <1>1, <1>9
  DEF ActuatorStep, DeployMachineDeployment, DeploymentsDeployed, WantedDeploymentsAvailable,
      DeleteMachineDeployment, UnwantedDeploymentsDeleted, DeleteMachineClass, ClassesCleaned,
      DeleteClassSecret, ReconcileDone
<1>10. CASE MachineStep
  BY <1>2, <1>10 DEF MachineStep, CreateMachine, DeleteMachine
<1>11. CASE UNCHANGED vars
  BY <1>2, <1>11
<1> QED  BY <1>7, <1>8, <1>9, <1>10, <1>11 DEF Next

\* Whatever is removed from the CloudProfile, the provider status keeps an image
\* for every pool it was last updated for.  Images without capabilities that are
\* not for AMD64 break this, as the run WorkerLegacyStatus shows.
THEOREM UsedImagesRetained ==
    ASSUME ImagesRetainable
    PROVE  Spec => []PoolsRetained
<1>2. IInv /\ Retention /\ [Next]_vars => Retention'
  BY RetentionInductive
<1>3. Retention => PoolsRetained
  BY DEF Retention
<1> QED  BY RetentionInit, <1>2, <1>3, Invariance, PTL DEF Spec

\* What is retained is found again.
LEMMA RetainedSelectable ==
    ASSUME IInv, Retention
    PROVE  UsedVersionsSelectable
<1> SUFFICES ASSUME NEW p \in Range(spec), p.machineType \in DOMAIN profile.types,
                    recorded[p.name] = Request(profile, p)
             PROVE  SelectImage(profile, p) # Nil
  BY DEF UsedVersionsSelectable
<1>1. p \in Pools /\ p.name \in PoolNames /\ profile \in Profiles /\ p.version \in Versions
  BY PoolsType DEF IInv, TypeOK, Pools
<1>2. /\ MachineCapabilities(profile, p) \in Capabilities
      /\ Definitions(profile) \in CapabilityDefinitions
  BY <1>1, SelectImageType DEF IInv, TypeOK
<1>3. Request(profile, p) # Nil
  BY <1>1, <1>2, WorkerAssumption DEF Request, Requests, CapabilityDefinitions, WorkerAssumption
<1>4. status # Nil /\ FindImageInWorkerStatus(status, p.version, MachineCapabilities(profile, p),
                                               Definitions(profile)) # Nil
  BY <1>1, <1>3 DEF Retention, PoolsRetained, Request
<1>5. p.version \in Versions /\ profile.versions[p.version] \in SUBSET VersionEntries
  BY <1>1, WorkerAssumption DEF WorkerAssumption, CloudProfiles
<1> DEFINE flavor == FindImageInCloudProfile(profile.versions[p.version],
                       MachineCapabilities(profile, p), Definitions(profile))
<1>6. CASE flavor = Nil
  BY <1>4, <1>6 DEF SelectImage, SelectMachineImageForWorkerPool
<1>7. CASE flavor # Nil
  <2>1. flavor \in Flavors
    BY <1>5, <1>7, ProfileLookupType
  <2>2. OrAMD64(p.architecture) \in {AMD64, ARM64, Nil}
    BY <1>1, OrAMD64Type DEF Pools
  <2>3. SelectImage(profile, p) \in StatusImages
    BY <1>1, <1>7, <2>1, <2>2
    DEF SelectImage, SelectMachineImageForWorkerPool, Flavors, StatusImages
  <2> QED  BY <2>3, NilRecordAssumption DEF NilRecordAssumption
<1> QED  BY <1>6, <1>7

\* ... so a pool that asks for what it asked for at the last update finds an
\* image in every CloudProfile.
THEOREM UsedVersionsAlwaysSelectable ==
    ASSUME ImagesRetainable
    PROVE  Spec => []UsedVersionsSelectable
<1>2. IInv /\ Retention /\ [Next]_vars => Retention'
  BY RetentionInductive
<1>3. IInv /\ Retention => UsedVersionsSelectable
  BY RetainedSelectable
<1> QED  BY RetentionInit, <1>2, <1>3, Invariance, PTL DEF Spec

-----------------------------------------------------------------------------
(* Images run on the machines they are chosen for                          *)

TrueEntries == {e \in Entries : Understates(e.capabilities, e.image)}

\* All that is known of the lists is true, and the patched classes fit.
Truth == OffersTrue => Origin(TrueEntries) /\ ImagesFit

\* Offers that are true are true entries, and an image that may be made uniform
\* requires nothing.
LEMMA TrueOffers ==
    ASSUME OffersTrue
    PROVE  HasOffers(TrueEntries) /\ UniformWithin(TrueEntries)
<1>1. ASSUME NEW v \in Versions, NEW f \in Offers(v)
      PROVE  [version |-> v, image |-> f.image, capabilities |-> f.capabilities] \in TrueEntries
  BY OffersType DEF OffersTrue, TrueEntries, Entries, Flavors
<1>2. ASSUME NEW e \in TrueEntries, DOMAIN e.capabilities = {}, NEW a \in {AMD64, ARM64}
      PROVE  [e EXCEPT !.capabilities = ArchitectureOnly(a)] \in TrueEntries
  <2>1. e \in Entries /\ DOMAIN Supports[e.image] = {}
    BY <1>2 DEF TrueEntries, Understates
  <2>2. ArchitectureOnly(a) \in Capabilities
    BY ArchitectureOnlyType, ArchitectureAssumption DEF ArchitectureAssumption
  <2> DEFINE new == [e EXCEPT !.capabilities = ArchitectureOnly(a)]
  <2>3. new \in Entries /\ new.image = e.image
    BY <2>1, <2>2 DEF Entries
  <2> HIDE DEF new
  <2>4. Understates(new.capabilities, new.image)
    BY <2>1, <2>3 DEF Understates
  <2> QED  BY <2>3, <2>4 DEF TrueEntries, new
<1> QED  BY <1>1, <1>2 DEF HasOffers, UniformWithin

\* What is compatible with less than the image supports, the image runs on.
LEMMA CompatibleRunsOn ==
    ASSUME NEW caps, NEW image, NEW machine, NEW defs,
           Understates(caps, image), Compatible(caps, machine, defs)
    PROVE  RunsOn(image, machine, defs)
<1> SUFFICES ASSUME NEW n \in DOMAIN Supports[image] \cap DOMAIN defs
             PROVE  Supports[image][n] \cap WithDefaults(machine, defs)[n] # {}
  BY DEF RunsOn
<1>1. n \in DOMAIN caps /\ caps[n] \subseteq Supports[image][n]
  BY DEF Understates
<1>2. WithDefaults(caps, defs)[n] = caps[n]
  BY <1>1 DEF WithDefaults
<1> QED  BY <1>1, <1>2 DEF Compatible

\* A pool's image runs on its machines.
LEMMA SelectedRunsOn ==
    ASSUME OffersTrue, NEW pr \in Profiles, NEW p \in Pools, p.machineType \in DOMAIN pr.types,
           status = Nil \/ status \in Seq(StatusImages), status # Nil => From(TrueEntries, status),
           SelectImage(pr, p) # Nil
    PROVE  RunsOn(SelectImage(pr, p).image, MachineCapabilities(pr, p), Definitions(pr))
<1> DEFINE caps == MachineCapabilities(pr, p)
           defs == Definitions(pr)
           image == SelectImage(pr, p)
<1>1. /\ Entry(image) \in TrueEntries
      /\ Compatible(image.capabilities, caps, defs) \/ Compatible(StatusCapabilities(image), caps, defs)
  BY TrueOffers, SelectedFrom
<1> HIDE DEF caps, defs, image
<1>2. Understates(image.capabilities, image.image)
  BY <1>1 DEF TrueEntries, Entry
<1>3. RunsOn(image.image, caps, defs)
  <2>1. CASE DOMAIN image.capabilities = {}
    BY <1>2, <2>1 DEF Understates, RunsOn
  <2>2. CASE DOMAIN image.capabilities # {}
    BY <1>1, <1>2, <2>2, CompatibleRunsOn DEF StatusCapabilities
  <2> QED  BY <2>1, <2>2
<1> QED  BY <1>3 DEF caps, defs, image

\* Every step keeps it so.
LEMMA TruthInductive ==
    ASSUME IInv, Truth, [Next]_vars
    PROVE  Truth'
<1> SUFFICES ASSUME OffersTrue  PROVE Origin(TrueEntries)' /\ ImagesFit'
  BY DEF Truth
<1>1. Origin(TrueEntries)'
  BY TrueOffers, OriginInductive DEF Truth
<1>2. ASSUME (pc # "idle")', NEW d \in WantedDeployments(snap.spec)', Patched(d)'
      PROVE  RunsOn(classes'[WantedClass(snap'.spec, d)].image,
                    MachineCapabilities(snap'.profile, PoolOf(snap'.spec, d)),
                    Definitions(snap'.profile))
  <2>1. /\ snap' = snap /\ pc # "idle" /\ d \in WantedDeployments(snap.spec)
        /\ \/ /\ Patched(d)
              /\ classes'[WantedClass(snap.spec, d)] = classes[WantedClass(snap.spec, d)]
           \/ /\ pc = "classes"
              /\ classes'[WantedClass(snap.spec, d)] = ClassSpec(snap.profile, snap.ignitions, PoolOf(snap.spec, d))
    BY <1>2, PatchedStep
  <2>2. ASSUME pc = "classes"
        PROVE  RunsOn(ClassSpec(snap.profile, snap.ignitions, PoolOf(snap.spec, d)).image,
                      MachineCapabilities(snap.profile, PoolOf(snap.spec, d)),
                      Definitions(snap.profile))
    <3>1. /\ PoolOf(snap.spec, d) \in Range(snap.spec) /\ PoolOf(snap.spec, d) \in Pools
          /\ snap.profile \in Profiles
          /\ PoolOf(snap.spec, d).machineType \in DOMAIN snap.profile.types
      BY <2>1, DelegateType, WantedClassType DEF IInv
    <3>2. SelectImage(snap.profile, PoolOf(snap.spec, d)) # Nil
      BY <2>2, <3>1 DEF IInv, Snapshot
    <3> QED  BY <3>1, <3>2, SelectedRunsOn DEF IInv, TypeOK, Truth, Origin, ClassSpec
  <2> QED  BY <2>1, <2>2 DEF Truth, ImagesFit
<1> QED  BY <1>1, <1>2 DEF ImagesFit

\* If the CloudProfiles and the statuses of earlier releases are right about
\* their images, no class is ever patched with an image that does not run on the
\* machines of its pool, however often the provider status is rewritten between.
THEOREM ImagesAlwaysFit == Spec => []ImagesFit
<1>1. ASSUME Init  PROVE Truth
  <2>1. ASSUME OffersTrue  PROVE Origin(TrueEntries)
    BY <1>1, <2>1, TrueOffers, OriginInit
  <2>2. ImagesFit
    BY <1>1 DEF ImagesFit, Init
  <2> QED  BY <2>1, <2>2 DEF Truth
<1>2. IInv /\ Truth /\ [Next]_vars => Truth'
  BY TruthInductive
<1>3. Truth => ImagesFit
  BY DEF Truth, ImagesFit
<1> QED  BY <1>1, <1>2, <1>3, Invariance, PTL DEF Spec

-----------------------------------------------------------------------------
(* What the classes contain                                                *)

OfferedEntries ==
    {e \in Entries : /\ DOMAIN e.capabilities # {}
                     /\ [image |-> e.image, capabilities |-> e.capabilities] \in Offers(e.version)}

\* What a class has from the provider config alone.
Own(class, config) ==
    /\ class.config = config
    /\ \A k \in DOMAIN ExtraServerLabels[config] :
          k \in DOMAIN class.serverLabels /\ class.serverLabels[k] = ExtraServerLabels[config][k]
    /\ SecretRef[config] = Nil => class.ignition = Nil

Chosen(class, version, machineType, config) ==
    class.image \in Fitting(version, machineType) /\ Own(class, config)

\* What the class of a deployment has when the delegate constructed with s has
\* patched it.
Made(class, s, d) ==
    LET p == PoolOf(s.spec, d)
    IN  /\ Chosen(class, p.version, p.machineType, p.config)
        /\ class.serverLabels = GetServerLabelsForMachine(s.profile, p)
        /\ class.ignition = SecretIgnition(s.ignitions, p)

\* A class of a rolling pool has what its name says: the provider config's own
\* content and an image for the version and machine type.  A patched class has
\* those of its pool, and the server labels and the secret that were read.
Contents ==
    OneImagePerMachineType =>
        /\ Origin(OfferedEntries)
        /\ \A c \in ClassNames : c[2] # << >> /\ classes[c] # NoClass =>
              Chosen(classes[c], c[2][1], c[2][2], c[2][3])
        /\ pc # "idle" => \A d \in WantedDeployments(snap.spec) : Patched(d) =>
              Made(classes[WantedClass(snap.spec, d)], snap, d)

\* The own labels of a provider config win over those of the machine type.
LEMMA OwnContent ==
    ASSUME NEW pr, NEW ign, NEW p
    PROVE  Own(ClassSpec(pr, ign, p), p.config)
  BY DEF Own, ClassSpec, GetServerLabelsForMachine, SecretIgnition

\* Offers with capabilities are made uniform by leaving them as they are.
LEMMA DescribedOffers ==
    ASSUME \A v \in Versions : Described(v)
    PROVE  HasOffers(OfferedEntries) /\ UniformWithin(OfferedEntries)
<1>1. ASSUME NEW v \in Versions, NEW f \in Offers(v)
      PROVE  DOMAIN f.capabilities # {}
  BY DEF Described
<1>2. ASSUME NEW v \in Versions, NEW f \in Offers(v)
      PROVE  [version |-> v, image |-> f.image, capabilities |-> f.capabilities] \in OfferedEntries
  <2>1. f \in Flavors
    BY OffersType
  <2>2. f = [image |-> f.image, capabilities |-> f.capabilities]
    BY <2>1 DEF Flavors
  <2> QED  BY <1>1, <2>1, <2>2 DEF OfferedEntries, Entries, Flavors
<1> QED  BY <1>2 DEF HasOffers, UniformWithin, OfferedEntries

\* A pool is given an image for its version and machine type.
LEMMA SelectedFitting ==
    ASSUME \A v \in Versions : Described(v),
           NEW pr \in Profiles, NEW ign, NEW ps \in Specs, NEW p \in Range(ps),
           p.machineType \in DOMAIN pr.types,
           status = Nil \/ status \in Seq(StatusImages), status # Nil => From(OfferedEntries, status),
           SelectImage(pr, p) # Nil
    PROVE  Chosen(ClassSpec(pr, ign, p), p.version, p.machineType, p.config)
<1> DEFINE caps == MachineCapabilities(pr, p)
           defs == Definitions(pr)
           image == SelectImage(pr, p)
           offer == [image |-> image.image, capabilities |-> image.capabilities]
<1>1. p \in Pools
  BY PoolsType
<1>2. /\ Entry(image) \in OfferedEntries /\ image.version = p.version
      /\ Compatible(image.capabilities, caps, defs) \/ Compatible(StatusCapabilities(image), caps, defs)
  BY <1>1, DescribedOffers, SelectedFrom
<1>3. /\ DOMAIN image.capabilities # {}
      /\ offer \in Offers(p.version)
  BY <1>2 DEF OfferedEntries, Entry
<1>4. Compatible(offer.capabilities, caps, defs)
  BY <1>2, <1>3 DEF StatusCapabilities
<1>5. offer.image \in Fitting(p.version, p.machineType)
  <2> HIDE DEF offer
  <2> QED  BY <1>3, <1>4 DEF Fitting
<1>6. ClassSpec(pr, ign, p).image = image.image
  BY DEF ClassSpec
<1> QED  BY <1>5, <1>6, OwnContent DEF Chosen

\* What is patched while the delegate works is chosen for the pool.
LEMMA PatchedChosen ==
    ASSUME \A v \in Versions : Described(v),
           IInv, status # Nil => From(OfferedEntries, status), pc = "classes",
           NEW d \in WantedDeployments(snap.spec)
    PROVE  Made(ClassSpec(snap.profile, snap.ignitions, PoolOf(snap.spec, d)), snap, d)
<1>1. /\ PoolOf(snap.spec, d) \in Range(snap.spec)
      /\ snap.profile \in Profiles /\ snap.spec \in Specs
      /\ PoolOf(snap.spec, d).machineType \in DOMAIN snap.profile.types
  BY DelegateType, WantedClassType DEF IInv
<1>2. SelectImage(snap.profile, PoolOf(snap.spec, d)) # Nil
  BY <1>1 DEF IInv, Snapshot
<1> DEFINE p == PoolOf(snap.spec, d)
           class == ClassSpec(snap.profile, snap.ignitions, p)
<1>3. Chosen(class, p.version, p.machineType, p.config)
  BY <1>1, <1>2, SelectedFitting DEF IInv, TypeOK
<1>4. /\ class.serverLabels = GetServerLabelsForMachine(snap.profile, p)
      /\ class.ignition = SecretIgnition(snap.ignitions, p)
  BY DEF ClassSpec
<1> QED  BY <1>3, <1>4 DEF Made

\* Every step keeps the contents.
LEMMA ContentsInductive ==
    ASSUME IInv, Contents, [Next]_vars
    PROVE  Contents'
<1> SUFFICES ASSUME OneImagePerMachineType
             PROVE  /\ Origin(OfferedEntries)'
                    /\ \A c \in ClassNames : c[2] # << >> /\ classes'[c] # NoClass =>
                          Chosen(classes'[c], c[2][1], c[2][2], c[2][3])
                    /\ pc' # "idle" => \A d \in WantedDeployments(snap'.spec) : Patched(d)' =>
                          Made(classes'[WantedClass(snap'.spec, d)], snap', d)
  BY DEF Contents
<1>1. \A v \in Versions : Described(v)
  BY DEF OneImagePerMachineType
<1>2. Origin(OfferedEntries)'
  BY <1>1, DescribedOffers, OriginInductive DEF Contents
<1>3. status # Nil => From(OfferedEntries, status)
  BY DEF Contents, Origin
<1>4. ASSUME NEW c \in ClassNames, c[2] # << >>, classes'[c] # NoClass
      PROVE  Chosen(classes'[c], c[2][1], c[2][2], c[2][3])
  <2>1. CASE classes'[c] = classes[c]
    BY <1>4, <2>1 DEF Contents
  <2>2. ASSUME NEW d \in WantedDeployments(snap.spec), pc = "classes", c = WantedClass(snap.spec, d),
               classes'[c] = ClassSpec(snap.profile, snap.ignitions, PoolOf(snap.spec, d))
        PROVE  Chosen(classes'[c], c[2][1], c[2][2], c[2][3])
    <3> DEFINE p == PoolOf(snap.spec, d)
    <3>1. c[2] = <<p.version, p.machineType, p.config>>
      BY <1>4, <2>2 DEF WantedClass, ClassName, HashForWorkerPool
    <3>2. Chosen(classes'[c], p.version, p.machineType, p.config)
      BY <1>1, <1>3, <2>2, PatchedChosen DEF Made
    <3> QED  BY <3>1, <3>2
  <2> QED  BY <1>4, <2>1, <2>2, ClassStep DEF PatchMachineClass
<1>5. ASSUME (pc # "idle")', NEW d \in WantedDeployments(snap.spec)', Patched(d)'
      PROVE  Made(classes'[WantedClass(snap'.spec, d)], snap', d)
  <2>1. /\ snap' = snap /\ pc # "idle" /\ d \in WantedDeployments(snap.spec)
        /\ \/ /\ Patched(d)
              /\ classes'[WantedClass(snap.spec, d)] = classes[WantedClass(snap.spec, d)]
           \/ /\ pc = "classes"
              /\ classes'[WantedClass(snap.spec, d)] = ClassSpec(snap.profile, snap.ignitions, PoolOf(snap.spec, d))
    BY <1>5, PatchedStep
  <2> QED  BY <1>1, <1>3, <2>1, PatchedChosen DEF Contents
<1> QED  BY <1>2, <1>4, <1>5

LEMMA ContentsInit == Init => Contents
<1> SUFFICES ASSUME Init, OneImagePerMachineType
             PROVE  /\ Origin(OfferedEntries)
                    /\ \A c \in ClassNames : classes[c] = NoClass
                    /\ pc = "idle"
  BY DEF Contents
<1>1. \A v \in Versions : Described(v)
  BY DEF OneImagePerMachineType
<1>2. Origin(OfferedEntries)
  BY <1>1, DescribedOffers, OriginInit
<1> QED  BY <1>2 DEF Init

THEOREM ContentsInvariance == Spec => []Contents
  BY ContentsInit, ContentsInductive, Invariance, PTL DEF Spec

\* If each version and machine type has one image throughout, then no class of a
\* rolling pool, as long as it exists, ever changes in what its name covers: the
\* image and all that comes from the provider config alone, whatever is patched,
\* edited, removed from the CloudProfile or aborted.
THEOREM HashedContentAlwaysKept == Spec => HashedContentKept
<1> DEFINE Kept == OneImagePerMachineType =>
                      \A c \in ClassNames :
                          c[2] # << >> /\ classes[c] # NoClass /\ classes'[c] # NoClass
                              => Hashed(c, classes'[c]) = Hashed(c, classes[c])
<1>1. ASSUME Contents, Contents'
      PROVE  Kept
  <2> SUFFICES ASSUME OneImagePerMachineType, NEW c \in ClassNames,
                      c[2] # << >>, classes[c] # NoClass, classes'[c] # NoClass
               PROVE  Hashed(c, classes'[c]) = Hashed(c, classes[c])
    OBVIOUS
  <2> DEFINE config == c[2][3]
             own == DOMAIN ExtraServerLabels[config]
  <2>1. /\ Chosen(classes[c], c[2][1], c[2][2], config)
        /\ Chosen(classes'[c], c[2][1], c[2][2], config)
    BY <1>1 DEF Contents
  <2>2. c[2] \in Versions \X MachineTypes \X ProviderConfigs
    BY DEF ClassNames, PoolHashes
  <2>3. classes'[c].image = classes[c].image
    BY <2>1, <2>2 DEF Chosen, OneImagePerMachineType
  <2>4. Own(classes[c], config) /\ Own(classes'[c], config)
    BY <2>1 DEF Chosen
  <2>5. classes'[c].config = classes[c].config
    BY <2>4 DEF Own
  <2>6. /\ own \cap DOMAIN classes[c].serverLabels = own
        /\ own \cap DOMAIN classes'[c].serverLabels = own
        /\ \A k \in own : classes'[c].serverLabels[k] = classes[c].serverLabels[k]
    BY <2>4 DEF Own
  <2>7. SecretRef[config] = Nil => classes'[c].ignition = classes[c].ignition
    BY <2>4 DEF Own
  <2> QED  BY <2>3, <2>5, <2>6, <2>7 DEF Hashed
<1>2. Contents /\ Contents' => [Kept]_classes
  BY <1>1
<1> QED  BY <1>2, ContentsInvariance, PTL DEF HashedContentKept

-----------------------------------------------------------------------------
(* The end of a reconciliation                                             *)

\* What has been cleaned up, and that the status was updated for these pools.
Cleaned ==
    /\ pc \in {"cleanClasses", "cleanSecrets"} => WantedClasses(snap.spec) \subseteq machines
    /\ pc = "cleanClasses" =>
          \A c \in ClassNames \ WantedClasses(snap.spec) : classes[c] = NoClass \/ c \in todo
    /\ pc = "cleanSecrets" =>
          /\ \A c \in ClassNames \ WantedClasses(snap.spec) : classes[c] = NoClass
          /\ secrets \subseteq WantedClasses(snap.spec) \cup todo
    /\ pc \in {"deployments", "rollout", "prune", "cleanClasses", "cleanSecrets"} =>
          \A p \in Range(snap.spec) : recorded[p.name] = Request(snap.profile, p)

\* The machines of the wanted classes outlive the cleanup.
LEMMA MachinesKept ==
    ASSUME IInv, Cleaned, pc \in {"cleanClasses", "cleanSecrets"}, [Next]_vars
    PROVE  WantedClasses(snap.spec) \subseteq machines'
<1> USE DEF vars, cluster, objects, control
<1>1. ASSUME NEW b \in ClassNames, DeleteMachine(b)
      PROVE  b \notin WantedClasses(snap.spec)
  <2> SUFFICES ASSUME b \in WantedClasses(snap.spec)  PROVE FALSE
    OBVIOUS
  <2>1. PICK d \in WantedDeployments(snap.spec) : b = WantedClass(snap.spec, d)
    BY DEF WantedClasses
  <2>2. b[1] = d
    BY <2>1, DelegateType, WantedClassType DEF IInv
  <2>3. deployments[b[1]] = b
    BY <2>1, <2>2 DEF IInv, Rolled
  <2> QED  BY <1>1, <2>3 DEF DeleteMachine
<1>2. \/ machines \subseteq machines'
      \/ \E b \in ClassNames : DeleteMachine(b) /\ machines' = machines \ {b}
  BY DEF Next, DelegateStep, ActuatorStep, MachineStep, Environment, StartReconcile,
         PatchMachineClass, ClassesPatched, PatchClassSecret, SecretsPatched, CollectImage,
         PatchProviderStatus, DeployMachineDeployment, DeploymentsDeployed,
         WantedDeploymentsAvailable, DeleteMachineDeployment, UnwantedDeploymentsDeleted,
         DeleteMachineClass, ClassesCleaned, DeleteClassSecret, ReconcileDone, CreateMachine,
         DeleteMachine, EditSpec, EditProfile, EditSecret, Abort
<1> QED  BY <1>1, <1>2 DEF Cleaned

\* When all machines of the pruned deployments are gone, those of the wanted
\* classes are there.
LEMMA MachinesWanted ==
    ASSUME IInv, pc = "prune"
    PROVE  WantedClasses(snap.spec) \subseteq machines
<1> SUFFICES ASSUME NEW d \in WantedDeployments(snap.spec)
             PROVE  WantedClass(snap.spec, d) \in machines
  BY DEF WantedClasses
<1>1. MachinesOf(d) = {WantedClass(snap.spec, d)}
  BY DEF IInv, Rolled
<1> QED  BY <1>1 DEF MachinesOf

\* The status update records what every pool asked for.
LEMMA RequestsRecorded ==
    ASSUME IInv, PatchProviderStatus, NEW p \in Range(snap.spec)
    PROVE  recorded'[p.name] = Request(snap.profile, p)
<1>1. snap.spec \in Specs /\ p \in Pools
  BY DelegateType DEF IInv, PatchProviderStatus
<1>2. p.name \in PoolNames
  BY <1>1 DEF Pools
<1>3. (CHOOSE q \in Range(snap.spec) : q.name = p.name) = p
  BY <1>1, NamesUnique
<1> QED  BY <1>2, <1>3 DEF PatchProviderStatus

\* Every step cleans up further.
LEMMA CleanedInductive ==
    ASSUME IInv, Cleaned, [Next]_vars
    PROVE  Cleaned'
<1> USE DEF vars, cluster, objects, control
<1>1. ASSUME pc' \notin {"deployments", "rollout", "prune", "cleanClasses", "cleanSecrets"}
      PROVE  Cleaned'
  BY <1>1 DEF Cleaned
<1>2. ASSUME UNCHANGED <<pc, snap, todo, classes, secrets, recorded>>
      PROVE  Cleaned'
  BY <1>2, MachinesKept DEF Cleaned
<1>3. ASSUME pc' \notin {"cleanClasses", "cleanSecrets"}, UNCHANGED <<snap, recorded>>,
             pc \in {"deployments", "rollout", "prune"}
      PROVE  Cleaned'
  BY <1>3 DEF Cleaned
<1>4. CASE PatchProviderStatus
  <2>1. pc' = "deployments" /\ snap' = snap
    BY <1>4 DEF PatchProviderStatus
  <2> QED  BY <1>4, <2>1, RequestsRecorded DEF Cleaned
<1>5. CASE UnwantedDeploymentsDeleted
  BY <1>5, MachinesWanted DEF UnwantedDeploymentsDeleted, Cleaned
<1>6. ASSUME NEW c \in ClassNames, DeleteMachineClass(c)
      PROVE  Cleaned'
  <2>1. /\ pc = "cleanClasses" /\ UNCHANGED <<pc, snap, secrets, recorded, machines>>
        /\ classes' = [classes EXCEPT ![c] = NoClass] /\ todo' = todo \ {c}
    BY <1>6 DEF DeleteMachineClass
  <2>2. ASSUME NEW b \in ClassNames \ WantedClasses(snap.spec)
        PROVE  classes'[b] = NoClass \/ b \in todo'
    BY <2>1 DEF Cleaned, IInv, TypeOK
  <2> QED  BY <2>1, <2>2 DEF Cleaned
<1>7. CASE ClassesCleaned
  BY <1>7 DEF ClassesCleaned, Cleaned
<1>8. ASSUME NEW c \in ClassNames, DeleteClassSecret(c)
      PROVE  Cleaned'
  BY <1>8 DEF DeleteClassSecret, Cleaned
<1>9. CASE DelegateStep
  BY <1>1, <1>4, <1>9
  DEF DelegateStep, StartReconcile, PatchMachineClass, ClassesPatched, PatchClassSecret,
      SecretsPatched, CollectImage
<1>10. CASE ActuatorStep
  BY <1>1, <1>3, <1>5, <1>6, <1>7, <1>8, <1>10
  DEF ActuatorStep, DeployMachineDeployment, DeploymentsDeployed, WantedDeploymentsAvailable,
      DeleteMachineDeployment, ReconcileDone
<1>11. CASE MachineStep
  BY <1>2, <1>11 DEF MachineStep, CreateMachine, DeleteMachine
<1>12. CASE Environment
  BY <1>1, <1>2, <1>12 DEF Environment, EditSpec, EditProfile, EditSecret, Abort
<1>13. CASE UNCHANGED vars
  BY <1>2, <1>13
<1> QED  BY <1>9, <1>10, <1>11, <1>12, <1>13 DEF Next

\* A reconciliation at its end, of the spec, CloudProfile and secrets of now.
LEMMA SettledAtEnd ==
    ASSUME IInv, Retention, Contents, Cleaned
    PROVE  SettledWhenDone
<1> SUFFICES ASSUME OneImagePerMachineType, pc = "cleanSecrets", todo = {},
                    snap = Present
             PROVE  Settled
  BY DEF SettledWhenDone
<1>1. snap.spec = spec /\ snap.profile = profile /\ snap.ignitions = ignitions
  BY DEF Present
<1>2. ASSUME NEW d \in DeploymentNames
      PROVE  deployments[d] = IF d \in WantedDeployments(spec) THEN WantedClass(spec, d) ELSE NoClass
  BY <1>1 DEF IInv, Rolled
<1>3. machines = WantedClasses(spec)
  BY <1>1 DEF IInv, Rolled, Cleaned
<1>4. \A c \in WantedClasses(spec) : c \in ClassNames /\ Backed(c)
  BY <1>1, DelegateType, WantedClassType DEF IInv, Written, WantedClasses
<1>5. secrets = WantedClasses(spec)
  BY <1>1, <1>4 DEF Cleaned, Backed
<1>6. {c \in ClassNames : classes[c] # NoClass} = WantedClasses(spec)
  BY <1>1, <1>4 DEF Cleaned, Backed
<1>7. ASSUME NEW d \in WantedDeployments(spec)
      PROVE  classes[WantedClass(spec, d)] = ClassSpec(profile, ignitions, PoolOf(spec, d))
  <2> DEFINE p == PoolOf(spec, d)
             class == classes[WantedClass(spec, d)]
             wanted == ClassSpec(profile, ignitions, p)
  <2>1. /\ p \in Range(spec) /\ p \in Pools /\ p.machineType \in DOMAIN profile.types
        /\ spec \in Specs /\ profile \in Profiles
    BY <1>1, DelegateType, WantedClassType DEF IInv
  <2>2. SelectImage(profile, p) # Nil
    BY <1>1, <2>1, RetainedSelectable DEF Cleaned, UsedVersionsSelectable
  <2>3. Chosen(wanted, p.version, p.machineType, p.config)
    BY <2>1, <2>2, SelectedFitting DEF OneImagePerMachineType, Contents, Origin, IInv, TypeOK
  <2>4. /\ Chosen(class, p.version, p.machineType, p.config)
        /\ class.serverLabels = GetServerLabelsForMachine(profile, p)
        /\ class.ignition = SecretIgnition(ignitions, p)
    BY <1>1 DEF Contents, Patched, Made
  <2>5. p.version \in Versions /\ p.machineType \in MachineTypes
    BY <2>1 DEF Pools
  <2>6. class.image = wanted.image /\ class.config = wanted.config
    BY <2>3, <2>4, <2>5 DEF Chosen, Own, OneImagePerMachineType
  <2>7. class \in ClassSpecs
    BY <1>4, <1>6 DEF IInv, TypeOK, WantedClasses
  <2>8. wanted = [image |-> wanted.image, config |-> wanted.config,
                  serverLabels |-> wanted.serverLabels, ignition |-> wanted.ignition]
    BY DEF ClassSpec
  <2>9. class.serverLabels = wanted.serverLabels /\ class.ignition = wanted.ignition
    BY <2>4 DEF ClassSpec
  <2> HIDE DEF class, wanted
  <2>10. class = wanted
    BY <2>6, <2>7, <2>8, <2>9 DEF ClassSpecs
  <2> QED  BY <2>10 DEF class, wanted
<1> QED  BY <1>2, <1>3, <1>5, <1>6, <1>7 DEF Settled

\* A reconciliation that gets to its end leaves exactly what its spec, secrets and
\* CloudProfile ask for, and no other class or secret, for any number of pools
\* and zones and after any failures, edits and updates of the status.
THEOREM SettledAtTheEnd == Spec => []SettledWhenDone
<1>1. Init => Cleaned
  BY DEF Init, Cleaned
<1>2. IInv /\ Cleaned /\ [Next]_vars => Cleaned'
  BY CleanedInductive
<1>3. ASSUME Contents, IInv, Cleaned, OneImagePerMachineType => Retention
      PROVE  SettledWhenDone
  BY <1>3, SettledAtEnd DEF SettledWhenDone
<1>4. OneImagePerMachineType => ImagesRetainable
  BY PoolsType DEF OneImagePerMachineType, ImagesRetainable, Pools
<1>5. IInv /\ (OneImagePerMachineType => Retention) /\ [Next]_vars
        => (OneImagePerMachineType => Retention)'
  BY <1>4, RetentionInductive DEF OneImagePerMachineType
<1> QED  BY <1>1, <1>2, <1>3, <1>5, RetentionInit, Invariance, ContentsInvariance, PTL DEF Spec
=============================================================================
