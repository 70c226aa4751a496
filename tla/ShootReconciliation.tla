------------------------ MODULE ShootReconciliation ------------------------
(***************************************************************************)
(* A shoot and what the extension makes of it in the seed: a user edits    *)
(* the shoot, gardenlet copies it into the Cluster resource and into the   *)
(* resources of the extension in any order, and the controllers and the    *)
(* control plane webhook work with what they find of these copies, at      *)
(* different times.                                                        *)
(*                                                                         *)
(* The extension's parts have no state in common but the Cluster, so that  *)
(* a behaviour is about the shoot and one of them, `watched`.              *)
(***************************************************************************)
EXTENDS ShootAdmission, ControlPlaneValues, ControlPlaneWebhook

CONSTANTS
    Shoots,             \* the shoots users may ask for
    Contents,           \* the contents of the secrets they reference
    Watched,            \* the parts looked at
    Base,               \* the objects of the components as gardenlet has them
    LocalAPI,           \* the annotation of the seed
    WebhookRegistered,  \* whether the admission of the extension is installed
    MaxDisturbances     \* bounds edits and aborted reconciliations

Parts == {"controlplane", "infrastructure", "worker"} \cup Components

\* The objects of a component, as far as the webhook looks at them.
ObjectsOf(part) ==
    CASE part = "mcm" ->
            [labels : SUBSET {"allow-egress"},
             containers : SUBSET [name : Strings, args : SUBSET Flags, mounts : SUBSET {"cloudprovider"}],
             volumes : SUBSET {"cloudprovider"}]
      [] part = "vpa"                  -> [policies : SUBSET Policies]
      [] part \in {"apiserver", "kcm"} -> [found : BOOLEAN, command : SUBSET Flags]
      [] part = "kubelet" -> [found : BOOLEAN, command : SUBSET Flags, pre : SUBSET {"set-hostname"}]

\* The texts the webhook writes.
WrittenTexts ==
    {"provider-sidecar", "v", "3", "metal-kubeconfig", "/etc/metal/kubeconfig", "node-name-policy", "limits",
     "cloud-provider", "external", "allocate-node-cidrs", "true", "false"} \cup NodeNamePolicies

ASSUME ReconciliationAssumption ==
    /\ Watched \subseteq Parts /\ Contents \subseteq Secrets
    /\ \A s \in Shoots :
          /\ s.controlPlane \in Given(RawControlPlaneConfigs)
          /\ s.infrastructure \in Given(RawInfrastructureConfigs)
          /\ s.workers[1].config \in Given(WorkerConfigs)
          /\ s.resources \in Seq(ResourceReferences)
          /\ {s.networking.pods, s.networking.services} \subseteq Given(Strings)
    /\ WrittenTexts \subseteq Strings
    /\ \A part \in Components : Base[part] \in ObjectsOf(part)
    /\ WebhookRegistered \in BOOLEAN /\ MaxDisturbances \in Nat

VARIABLES
    shoot,          \* in the garden
    request,        \* the last one to the admission, with its answer
    garden,         \* the secrets users have, by name
    disturbances,
    watched,
    cluster,        \* the shoot in the Cluster, as the extension's cache has it
    resource,       \* the provider config in the extension resource
    step,           \* of the reconciliation under way
    run,            \* what it has read: config, cluster, checksums
    applied,        \* what the one that made the chart in the shoot had read
    configMap,      \* the applied charts of the control plane
    configSeen,     \* the config map in the cache
    seedChart,
    shootChart,
    status,         \* the networking status of the infrastructure
    copies,         \* the referenced secrets in the seed
    ignition,       \* what the machine class has
    object,         \* the component's object as stored
    objectOf        \* the shoot in the cache when it was written

gardenVars == <<shoot, request, garden>>
chartVars == <<applied, configMap, configSeen, seedChart, shootChart>>
objectVars == <<object, objectOf>>
vars == <<gardenVars, disturbances, watched, cluster, resource, step, run, chartVars, status, copies,
          ignition, objectVars>>

ClusterOf(s) == [name |-> "shoot--x", shoot |-> s, localAPI |-> LocalAPI]

\* The provider config in the resource of the watched part.
ResourceOf(s) ==
    CASE watched = "controlplane"   -> s.controlPlane
      [] watched = "infrastructure" -> s.infrastructure
      [] watched = "worker"         -> s.workers[1].config
      [] OTHER                      -> Nil

NoRun == [config |-> Nil, cluster |-> Nil, sums |-> Nil]

Init ==
    /\ watched \in Watched
    /\ shoot \in Shoots
    /\ request = Nil /\ disturbances = 0
    /\ garden \in [Objects -> Contents]
    /\ cluster = shoot /\ resource = ResourceOf(shoot)
    /\ step = "idle" /\ run = NoRun /\ applied = Nil
    /\ configMap = Nil /\ configSeen = Nil /\ seedChart = Nil /\ shootChart = Nil
    /\ status = Nil
    /\ copies = [o \in Objects |-> Nil] /\ ignition = Nil
    /\ object = Nil /\ objectOf = Nil

-----------------------------------------------------------------------------
(* Users and gardenlet.                                                    *)

Disturb ==
    /\ disturbances < MaxDisturbances
    /\ disturbances' = disturbances + 1

\* A user edits the shoot (Gardener keeps the type of the network).
Edit(new) ==
    LET answer == IF WebhookRegistered THEN ValidateShoot(NewShootValidator, shoot, new, TRUE)
                  ELSE Allowed
    IN  /\ Disturb
        /\ new.networking.type = shoot.networking.type
        /\ request' = [old |-> shoot, new |-> new, answer |-> answer]
        /\ shoot' = IF answer = Allowed THEN new ELSE shoot
        /\ UNCHANGED <<garden, watched, cluster, resource, step, run, chartVars, status, copies,
                       ignition, objectVars>>

EditSecret(o, content) ==
    /\ watched = "worker"
    /\ Disturb
    /\ garden' = [garden EXCEPT ![o] = content]
    /\ UNCHANGED <<shoot, request, watched, cluster, resource, step, run, chartVars, status, copies,
                   ignition, objectVars>>

SyncCluster ==
    /\ cluster # shoot
    /\ cluster' = shoot
    /\ UNCHANGED <<gardenVars, disturbances, watched, resource, step, run, chartVars, status, copies,
                   ignition, objectVars>>

DeployResource ==
    /\ resource # ResourceOf(shoot)
    /\ resource' = ResourceOf(shoot)
    /\ UNCHANGED <<gardenVars, disturbances, watched, cluster, step, run, chartVars, status, copies,
                   ignition, objectVars>>

\* The secrets the shoot references, and no others, are copied.
Referenced(s) ==
    [o \in Objects |->
        IF \E i \in 1..Len(s.resources) : s.resources[i].kind = "Secret" /\ s.resources[i].object = o
        THEN garden[o] ELSE Nil]

DeployReferences ==
    /\ watched = "worker"
    /\ copies # Referenced(shoot)
    /\ copies' = Referenced(shoot)
    /\ UNCHANGED <<gardenVars, disturbances, watched, cluster, resource, step, run, chartVars, status,
                   ignition, objectVars>>

-----------------------------------------------------------------------------
(* The control plane controller.  An error of a step ends the reconciliation. *)

ReconcileSteps == {"config", "checksums", "controlplane", "shoot", "class"}

StartReconcile ==
    /\ watched = "controlplane" /\ step = "idle"
    /\ run' = [config |-> resource, cluster |-> cluster, sums |-> Nil]
    /\ step' = "config"
    /\ UNCHANGED <<gardenVars, disturbances, watched, cluster, resource, chartVars, status, copies,
                   ignition, objectVars>>

\* The config is decoded for each chart; where there are no values, the
\* reconciliation ends with what it has done so far.
Then(next, values, read) ==
    /\ step' = IF values = Refused THEN "idle" ELSE next
    /\ run' = IF values = Refused THEN NoRun ELSE read

ApplyConfigChart ==
    /\ step = "config"
    /\ \E cpConfig \in {ToConfig(run.config)} :
          LET values == OrRefused({cpConfig}, ConfigChartValues(ClusterOf(run.cluster), cpConfig))
          IN  /\ Then("checksums", values, run)
              /\ configMap' = IF values = Refused THEN configMap ELSE values
    /\ UNCHANGED <<gardenVars, disturbances, watched, cluster, resource, applied, configSeen,
                   seedChart, shootChart, status, copies, ignition, objectVars>>

\* Config maps are read from a cache, secrets are not.
SyncConfigMap ==
    /\ configSeen # configMap
    /\ configSeen' = configMap
    /\ UNCHANGED <<gardenVars, disturbances, watched, cluster, resource, step, run, applied, configMap,
                   seedChart, shootChart, status, copies, ignition, objectVars>>

\* Mutant: a checksum that was computed before is kept.
ChecksumOnce(seen) ==
    IF seedChart = Nil THEN seen ELSE seedChart.ccm.checksums

\* Distinct config maps have distinct checksums; without one it is not found.
Checksum(seen) == IF seen = Nil THEN Refused ELSE seen

ComputeChecksums ==
    LET sum == Checksum(configSeen)
    IN  /\ step = "checksums"
        /\ Then("controlplane", sum, [config |-> run.config, cluster |-> run.cluster, sums |-> sum])
        /\ UNCHANGED <<gardenVars, disturbances, watched, cluster, resource, chartVars, status, copies,
                       ignition, objectVars>>

ApplyControlPlaneChart ==
    /\ step = "controlplane"
    /\ \E cpConfig \in {ToConfig(run.config)} :
          LET values == OrRefused({cpConfig}, ControlPlaneChartValues(cpConfig, ClusterOf(run.cluster),
                                                  DOMAIN SecretConfigs, run.sums, FALSE))
          IN  /\ Then("shoot", values, run)
              /\ seedChart' = IF values = Refused THEN seedChart ELSE values
    /\ UNCHANGED <<gardenVars, disturbances, watched, cluster, resource, applied, configMap,
                   configSeen, shootChart, status, copies, ignition, objectVars>>

ApplyShootChart ==
    /\ step = "shoot"
    /\ \E cpConfig \in {ToConfig(run.config)} :
          LET values == OrRefused({cpConfig}, ShootChartValues(ClusterOf(run.cluster), cpConfig))
          IN  /\ Then("idle", values, run)
              /\ shootChart' = IF values = Refused THEN shootChart ELSE values
              /\ applied' = IF values = Refused THEN applied ELSE run
    /\ UNCHANGED <<gardenVars, disturbances, watched, cluster, resource, configMap, configSeen,
                   seedChart, status, copies, ignition, objectVars>>

\* A crash, or an error of the API, between two steps.
Abort ==
    /\ Disturb
    /\ step # "idle"
    /\ step' = "idle" /\ run' = NoRun
    /\ UNCHANGED <<gardenVars, watched, cluster, resource, chartVars, status, copies, ignition,
                   objectVars>>

-----------------------------------------------------------------------------
(* The infrastructure controller and the worker controller.                *)

\* Errors and panics leave the status as it is.
ReportNetworks ==
    LET outcome == ReconcileInfrastructure(resource, cluster.networking, status)
    IN  /\ watched = "infrastructure"
        /\ outcome \notin {Refused, Panic, status}
        /\ status' = outcome
        /\ UNCHANGED <<gardenVars, disturbances, watched, cluster, resource, step, run, chartVars,
                       copies, ignition, objectVars>>

StartWorker ==
    /\ watched = "worker" /\ step = "idle"
    /\ run' = [config |-> resource, cluster |-> cluster, sums |-> Nil]
    /\ step' = "class"
    /\ UNCHANGED <<gardenVars, disturbances, watched, cluster, resource, chartVars, status, copies,
                   ignition, objectVars>>

\* The secret is read when the classes are generated.
GenerateClass ==
    LET merged == ClassIgnition(run.config, run.cluster.resources, copies)
    IN  /\ step = "class"
        /\ step' = "idle" /\ run' = NoRun
        /\ ignition' = IF merged = Refused THEN ignition ELSE merged
        /\ UNCHANGED <<gardenVars, disturbances, watched, cluster, resource, chartVars, status,
                       copies, objectVars>>

-----------------------------------------------------------------------------
(* The control plane webhook.  A request it refuses changes nothing.       *)

Write(from) ==
    /\ \E mutated \in {Ensure(watched, from, ClusterOf(cluster))} \ {Refused} : object' = mutated
    /\ objectOf' = cluster
    /\ UNCHANGED <<gardenVars, disturbances, watched, cluster, resource, step, run, chartVars, status,
                   copies, ignition>>

\* Gardenlet writes its own idea of the object, others what they find stored.
WriteObject ==
    /\ watched \in Components
    /\ Write(Base[watched])
RewriteObject ==
    /\ watched \in Components
    /\ object # Nil
    /\ Write(object)

-----------------------------------------------------------------------------
Next ==
    \/ \E new \in Shoots \ {shoot} : Edit(new)
    \/ \E o \in Objects : \E content \in Contents \ {garden[o]} : EditSecret(o, content)
    \/ SyncCluster \/ DeployResource \/ DeployReferences
    \/ StartReconcile \/ ApplyConfigChart \/ SyncConfigMap \/ ComputeChecksums
    \/ ApplyControlPlaneChart \/ ApplyShootChart \/ Abort
    \/ ReportNetworks \/ StartWorker \/ GenerateClass
    \/ WriteObject \/ RewriteObject

Spec == Init /\ [][Next]_vars

\* The next step of the watched part's controller or of gardenlet's writes; at
\* any time at most one of them can be taken.
ControllerStep ==
    \/ StartReconcile \/ ApplyConfigChart \/ ComputeChecksums \/ ApplyControlPlaneChart
    \/ ApplyShootChart \/ ReportNetworks \/ StartWorker \/ GenerateClass \/ WriteObject

\* Gardenlet and the caches catch up, and reconciliations start again and again.
Fairness ==
    /\ WF_vars(SyncCluster) /\ WF_vars(DeployResource) /\ WF_vars(DeployReferences)
    /\ WF_vars(SyncConfigMap) /\ WF_vars(ControllerStep)

FairSpec == Spec /\ Fairness

-----------------------------------------------------------------------------
(* Properties.                                                             *)

\* The provider configs in the resource of a part.
ConfigsOf(part) ==
    CASE part = "controlplane"   -> RawControlPlaneConfigs
      [] part = "infrastructure" -> RawInfrastructureConfigs
      [] part = "worker"         -> WorkerConfigs
      [] OTHER                    -> {}

CloudConfigs == [clusterName : {"shoot--x"}, networking : Given(CloudControllerNetworkings)]

\* Every variable has its type.
TypeOK ==
    /\ watched \in Watched /\ shoot \in Shoots
    /\ request \in Given([old : Shoots, new : Shoots, answer : {Allowed, Refused, Panic}])
    /\ garden \in [Objects -> Contents] /\ copies \in [Objects -> Given(Contents)]
    /\ disturbances \in 0..MaxDisturbances
    /\ cluster \in Shoots /\ run.cluster \in Given(Shoots)
    /\ {resource, run.config} \subseteq Given(ConfigsOf(watched))
    /\ step \in {"idle"} \cup ReconcileSteps
    /\ configMap \in Given(CloudConfigs) /\ configSeen \in Given(CloudConfigs)
    /\ status \in Given(NetworkingStatuses)
    /\ ignition \in Given([document : Documents, override : BOOLEAN])
    /\ object # Nil => watched \in Components /\ object \in ObjectsOf(watched)
    /\ objectOf \in Given(Shoots)

\* The BGP configuration of a document, Nil if there is none.
WrittenBgp(raw) ==
    IF raw = Nil THEN Nil
    ELSE IF raw.loadBalancerConfig = Nil THEN Nil
    ELSE IF raw.loadBalancerConfig.calicoConfig = Nil THEN Nil
    ELSE raw.loadBalancerConfig.calicoConfig.calicoBgpConfig

\* The BGP configuration the chart in the shoot was made from.
AppliedBgp == IF applied = Nil THEN Nil ELSE WrittenBgp(applied.config)
BgpApplied(bgp) == bgp # Nil /\ applied.cluster.networking.type = "calico"

SameRule(values, rule) ==
    /\ values.cidr = rule.cidr
    /\ values.action = OrZero(rule.action, "")
    /\ values.matchOperator = OrZero(rule.matchOperator, "")
    /\ values.source = IF rule.source = "" THEN Nil ELSE rule.source

\* In the shoot each filter has, in each direction and for
\* each family, the rules the user wrote for it, in their order: routes are
\* not exported by a rule for imports (valuesprovider.go:600-650).
RoutesDelivered ==
    LET bgp == AppliedBgp
    IN  BgpApplied(bgp) =>
        LET written   == Elements(bgp.bgpFilter)
            delivered == shootChart.calicoBgp.bgpFilter
        IN  /\ Len(delivered) = Len(written)
            /\ \A i \in 1..Len(written), d \in {"exportV4", "importV4", "exportV6", "importV6"} :
                  LET rules == Elements(written[i][d])
                  IN  /\ Len(delivered[i][d]) = Len(rules)
                      /\ \A j \in 1..Len(rules) : SameRule(delivered[i][d][j], rules[j])

\* What a number in a document says.
Meaning(json) ==
    IF json = Nil THEN 0
    ELSE IF json.kind = "null" THEN 0
    ELSE IF json.kind = "integer" THEN json.number
    ELSE IF json.kind # "string" THEN Invalid
    ELSE IF Len(json.text) = 1 THEN json.text[1]
    ELSE json.text[1] * Half + json.text[2]

\* The AS numbers that arrive in the shoot are the ones the user wrote, in
\* whichever notation: none is cut off to its width, or taken for another
\* (asnumber.go:21-67, valuesprovider.go:652-670).
NumbersDelivered ==
    LET bgp == AppliedBgp
    IN  BgpApplied(bgp) =>
        /\ shootChart.calicoBgp.asNumber = Meaning(bgp.asNumber)
        /\ \A i \in 1..Len(Elements(bgp.bgpPeer)) :
              shootChart.calicoBgp.bgpPeer[i].asNumber = Meaning(bgp.bgpPeer[i].asNumber)

\* After a finished reconciliation the seed runs the manager of the metal load
\* balancers if and only if the shoot runs their speakers, whatever was edited,
\* aborted or stale in between (valuesprovider.go:306 and 439).
ChartsAgree ==
    step = "idle" /\ applied # Nil /\ applied = run =>
        seedChart.manager.enabled = shootChart.speaker.enabled

\* The webhook's work does not depend on how often it was done, nor on what
\* the Cluster was then: the stored object is the mutation of gardenlet's
\* object with the Cluster of the last write (ensurer.go:51-206).
NoResidue ==
    object # Nil => object = Ensure(watched, Base[watched], ClusterOf(objectOf))

\* A class whose ignition changes gets all of it: with a reference to a secret,
\* the files of a document of that secret behind its own, never its own alone
\* (machines.go:300-352).
IgnitionWhole ==
    [][ignition' \notin {ignition, Nil} =>
        LET config == run.config.extraIgnition
            own    == Elements(OrZero(config.raw, EmptyDocument).files)
        IN  config.secretRef \in {Nil, ""} \/
            \E content \in Contents :
                /\ content.ignition \in Documents
                /\ Elements(ignition'.document.files) = own \o Elements(content.ignition.files)]_vars

\* The set of the values of a flag, Nil for a bare one.
ValuesOf(args, flag) ==
    {arg.value : arg \in {a \in args : a.flag = flag}}

\* When users leave the shoot alone, the component ends up with its flags, and
\* with one value for each: a stale Cluster is made up for by a later write
\* (ensurer.go:57-64, 138-141).
FlagsSettle ==
    <>[](object # Nil =>
            /\ watched = "kcm" =>
                  ValuesOf(object.command, "allocate-node-cidrs") =
                      {IF shoot.networking.ipv6 THEN "false" ELSE "true"}
            /\ watched = "mcm" /\ shoot.controlPlane # Nil =>
                  \/ DecodeControlPlaneConfig(shoot.controlPlane, TRUE) = Refused
                  \/ \E c \in object.containers :
                        /\ c.name = ProviderSidecarContainer.name
                        /\ ValuesOf(c.args, "node-name-policy") =
                              {shoot.controlPlane.nodeNamePolicy} \cap NodeNamePolicies)

Named(networks) == \A i \in 1..Len(networks) : networks[i].name \notin {Nil, ""}

\* The networks of the shoot end up in the status, unless one of the nodes' has
\* no name; those it has no more may stay (actuator_reconcile.go:19-63).
StatusSettles ==
    <>[](watched = "infrastructure" /\ shoot.infrastructure # Nil =>
            LET nodes      == Elements(shoot.infrastructure.networks)
                networking == shoot.networking
                reported   == OrZero(status, NoNetworking)
            IN  Named(nodes) =>
                /\ nodes # <<>> =>
                      reported.nodes = [i \in 1..Len(nodes) |-> OrZero(nodes[i].cidr, "")]
                /\ networking.pods # Nil => reported.pods = <<networking.pods>>
                /\ networking.services # Nil => reported.services = <<networking.services>>)

\* Whether there are values for all charts of the shoot.
Deliverable(s) ==
    \E cpConfig \in {ToConfig(s.controlPlane)} \ {Refused} :
        /\ ShootChartValues(ClusterOf(s), cpConfig) # Refused
        /\ OverlayEnabled(s.networking) # Refused

\* When users leave the shoot alone and its configuration has values, the
\* charts end up as it says, and the checksum in the CCM's pods as that of the
\* config map: the sum of a stale one is made up for (app.go:138-143).
ChartsSettle ==
    <>[](watched = "controlplane" =>
            \/ applied # Nil /\ applied.config = shoot.controlPlane /\ applied.cluster = shoot
               /\ seedChart.ccm.checksums = configMap
               /\ seedChart.ccm.configureCloudRoutes = (shoot.networking.overlay \in {FALSE, Nil})
            \/ ~Deliverable(shoot))

\* With a document in the secret, the class ends up with the pool's own files
\* before the secret's, and with the pool's own setting if there is one.
IgnitionSettles ==
    <>[](watched = "worker" =>
         LET config == shoot.workers[1].config
         IN  ClassIgnition(config, shoot.resources, Referenced(shoot)) \notin {Refused, Nil} =>
             LET own     == OrZero(config.extraIgnition.raw, EmptyDocument)
                 refname == config.extraIgnition.secretRef
                 secret  == IF refname \in {Nil, ""} THEN EmptyDocument
                            ELSE LET ref == CHOOSE r \in Range(shoot.resources) : r.name = refname
                                 IN  garden[ref.object].ignition
             IN  /\ ignition # Nil
                 /\ Elements(ignition.document.files) = Elements(own.files) \o Elements(secret.files)
                 /\ ignition.document.setting =
                       IF own.setting \notin {Nil, ""} THEN own.setting
                       ELSE OrZero(secret.setting, own.setting))

\* validator/shoot.go:38 "Validate validates the given shoot objects.": a shoot
\* that no rule objects to is allowed.
CompleteShootsAdmitted ==
    request # Nil =>
        (ValidateShoot(CompleteValidator, request.old, request.new, TRUE) = Allowed
            => request.answer = Allowed)

\* validation/shoot.go:60 "secretRef must reference a secret in the shoot's
\* resources": for workers without errors the controller finds the secret.
AdmittedWorkersFindTheirSecret ==
    ValidateWorkers(shoot.workers, shoot.resources) = {} =>
        \A worker \in Range(shoot.workers) :
            worker.config # Nil /\ worker.config.extraIgnition # Nil =>
                \/ worker.config.extraIgnition.secretRef \in {Nil, ""}
                \/ LookupReferencedSecret(shoot.resources, worker.config.extraIgnition.secretRef) # Refused
=============================================================================
