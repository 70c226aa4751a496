------------------------ MODULE ControlPlaneWebhook ------------------------
(***************************************************************************)
(* What the control plane webhook does to the objects gardenlet writes     *)
(* (src/pkg/webhook/controlplane/ensurer.go): one operator for each kind   *)
(* of object, from the object as it comes, mutated before or not, to the   *)
(* object that is stored.                                                  *)
(*                                                                         *)
(* A command line is a set of flags, records of their name and their value *)
(* (Nil for a bare flag): their order is of no account, and gardenlet      *)
(* gives none twice.  Containers and policies are sets with unique names.  *)
(***************************************************************************)
EXTENDS ControlPlaneConfig

Flags == [flag : Strings, value : Given(Strings)]
Policies == [container : Strings, mode : Strings]

Flag(name, value) == [flag |-> name, value |-> value]

-----------------------------------------------------------------------------
(* The helpers of the Gardener library.                                    *)

\* The flag with a value is removed, whatever the value, or the flag in either
\* form.
EnsureNoFlagValue(args, name) == {arg \in args : arg.flag # name \/ arg.value = Nil}
EnsureNoFlag(args, name) == {arg \in args : arg.flag # name}

\* The flag gets this value in place of the one it has, or is added.
EnsureFlag(args, name, value) == EnsureNoFlagValue(args, name) \cup {Flag(name, value)}

\* The container of that name is replaced, or added.
EnsureContainer(containers, container) ==
    {c \in containers : c.name # container.name} \cup {container}

\* The sidecar as the Gardener library makes it.
ProviderSidecarContainer == [name |-> "provider-sidecar", args |-> {Flag("v", "3")}, mounts |-> {}]

-----------------------------------------------------------------------------
(* The machine-controller-manager: sidecar, kubeconfig, node name policy.  *)

EnsureMCMCommandLineArgs(args, policy) ==
    LET withKubeconfig == EnsureFlag(args, "metal-kubeconfig", "/etc/metal/kubeconfig")
    IN  IF policy \in NodeNamePolicies THEN EnsureFlag(withKubeconfig, "node-name-policy", policy)
        ELSE withKubeconfig

\* The labels a seed with a local metal API asks for are only ever added.
EnsureEgress(labels, cluster) ==
    IF cluster.localAPI = "true" THEN labels \cup {"allow-egress"} ELSE labels

\* Mutant: a sidecar that is there already is kept and updated.
EnsureMCMDeploymentKeepingSidecar(deployment, cluster) ==
    LET raw      == cluster.shoot.controlPlane
        cpConfig == IF raw = Nil THEN EmptyConfig ELSE DecodeControlPlaneConfig(raw, TRUE)
        there    == {c \in deployment.containers : c.name = ProviderSidecarContainer.name}
        sidecar  == CHOOSE c \in IF there = {} THEN {ProviderSidecarContainer} ELSE there : TRUE
    IN  IF cpConfig = Refused THEN Refused
        ELSE [labels |-> EnsureEgress(deployment.labels, cluster),
              containers |-> EnsureContainer(deployment.containers,
                  [name |-> sidecar.name,
                   args |-> EnsureMCMCommandLineArgs(sidecar.args, cpConfig.nodeNamePolicy),
                   mounts |-> sidecar.mounts \cup {"cloudprovider"}]),
              volumes |-> deployment.volumes \cup {"cloudprovider"}]

EnsureMachineControllerManagerDeployment(deployment, cluster) ==
    LET raw      == cluster.shoot.controlPlane
        cpConfig == IF raw = Nil THEN EmptyConfig ELSE DecodeControlPlaneConfig(raw, TRUE)
        sidecar  == ProviderSidecarContainer
    IN  IF cpConfig = Refused THEN Refused
        ELSE [labels |-> EnsureEgress(deployment.labels, cluster),
              containers |-> EnsureContainer(deployment.containers,
                  [name |-> sidecar.name,
                   args |-> EnsureMCMCommandLineArgs(sidecar.args, cpConfig.nodeNamePolicy),
                   mounts |-> sidecar.mounts \cup {"cloudprovider"}]),
              volumes |-> deployment.volumes \cup {"cloudprovider"}]

\* The sidecar's own scaling policy; a missing resource policy is one without policies.
EnsureMachineControllerManagerVPA(vpa) ==
    LET policy == [container |-> ProviderSidecarContainer.name, mode |-> "limits"]
    IN  [policies |-> {p \in vpa.policies : p.container # policy.container} \cup {policy}]

-----------------------------------------------------------------------------
(* The control plane of Kubernetes and the kubelet.                        *)

\* Without its container, or a unit without ExecStart, no command is found.
OfContainer(deployment, command) ==
    IF deployment.found THEN [found |-> TRUE, command |-> command] ELSE deployment

EnsureKubeAPIServerDeployment(deployment) ==
    OfContainer(deployment,
        EnsureNoFlagValue(EnsureNoFlagValue(deployment.command, "cloud-provider"), "cloud-config"))

\* Mutant: the flag that is there already may stay.
EnsureKubeControllerManagerAppending(deployment, cluster) ==
    LET external == EnsureFlag(deployment.command, "cloud-provider", "external")
        bare     == EnsureNoFlagValue(external, "cloud-config")
    IN  OfContainer(deployment,
            bare \cup {Flag("allocate-node-cidrs",
                            IF cluster.shoot.networking.ipv6 THEN "false" ELSE "true")})

EnsureKubeControllerManagerDeployment(deployment, cluster) ==
    LET external == EnsureFlag(deployment.command, "cloud-provider", "external")
        bare     == EnsureNoFlag(EnsureNoFlagValue(external, "cloud-config"), "allocate-node-cidrs")
    IN  OfContainer(deployment,
            EnsureFlag(bare, "allocate-node-cidrs",
                       IF cluster.shoot.networking.ipv6 THEN "false" ELSE "true"))

EnsureKubeletCommandLineArgs(command) == EnsureFlag(command, "cloud-provider", "external")

\* pre has the commands before ExecStart.
EnsureKubeletServiceUnitOptions(unit) ==
    [found |-> unit.found,
     command |-> IF unit.found THEN EnsureKubeletCommandLineArgs(unit.command) ELSE unit.command,
     pre |-> unit.pre \cup {"set-hostname"}]

\* What the ensurer leaves as it comes.
EnsureKubeSchedulerDeployment(deployment) == deployment
EnsureClusterAutoscalerDeployment(deployment) == deployment
EnsureKubeletConfiguration(configuration) == configuration
EnsureKubernetesGeneralConfiguration(configuration) == configuration
EnsureAdditionalUnits(units) == units
EnsureAdditionalFiles(files) == files

-----------------------------------------------------------------------------
Components == {"mcm", "vpa", "apiserver", "kcm", "kubelet"}

\* The webhook on an object of a component, with the Cluster it finds.
Ensure(component, object, cluster) ==
    CASE component = "mcm"       -> EnsureMachineControllerManagerDeployment(object, cluster)
      [] component = "vpa"       -> EnsureMachineControllerManagerVPA(object)
      [] component = "apiserver" -> EnsureKubeAPIServerDeployment(object)
      [] component = "kcm"       -> EnsureKubeControllerManagerDeployment(object, cluster)
      [] component = "kubelet"   -> EnsureKubeletServiceUnitOptions(object)
=============================================================================
