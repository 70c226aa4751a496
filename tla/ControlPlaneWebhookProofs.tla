--------------------- MODULE ControlPlaneWebhookProofs ---------------------
(***************************************************************************)
(* The control plane webhook sees objects it has mutated before, with      *)
(* another Cluster: doing its work again leaves nothing of what it did     *)
(* then, for any objects, flags and Clusters.                              *)
(***************************************************************************)
EXTENDS ControlPlaneWebhook, TLAPS

-----------------------------------------------------------------------------
(* Command lines *)

\* The command line of the kube-apiserver.
APIServerCommand(args) ==
    EnsureNoFlagValue(EnsureNoFlagValue(args, "cloud-provider"), "cloud-config")

\* ... and the one of the kube-controller-manager, with whether it allocates CIDRs.
KCMCommand(args, allocate) ==
    EnsureFlag(EnsureNoFlag(EnsureNoFlagValue(EnsureFlag(args, "cloud-provider", "external"),
                                              "cloud-config"),
                            "allocate-node-cidrs"),
               "allocate-node-cidrs", allocate)

\* What is left of a command of the kube-controller-manager, and what is added.
LEMMA KCMCommandIs ==
    ASSUME NEW args, NEW allocate
    PROVE  KCMCommand(args, allocate) =
                {arg \in args : /\ arg.flag # "cloud-provider" \/ arg.value = Nil
                                /\ arg.flag # "cloud-config" \/ arg.value = Nil
                                /\ arg.flag # "allocate-node-cidrs"}
                \cup {Flag("cloud-provider", "external"), Flag("allocate-node-cidrs", allocate)}
  BY DEF KCMCommand, EnsureFlag, EnsureNoFlagValue, EnsureNoFlag, Flag

\* Mutated again, all are as if they were mutated for the first time.
LEMMA CommandsAgain ==
    ASSUME NEW args, NEW first, NEW second
    PROVE  /\ APIServerCommand(APIServerCommand(args)) = APIServerCommand(args)
           /\ EnsureKubeletCommandLineArgs(EnsureKubeletCommandLineArgs(args))
                = EnsureKubeletCommandLineArgs(args)
           /\ KCMCommand(KCMCommand(args, first), second) = KCMCommand(args, second)
<1>1. APIServerCommand(APIServerCommand(args)) = APIServerCommand(args)
  BY DEF APIServerCommand, EnsureNoFlagValue
<1>2. EnsureKubeletCommandLineArgs(EnsureKubeletCommandLineArgs(args))
        = EnsureKubeletCommandLineArgs(args)
  BY DEF EnsureKubeletCommandLineArgs, EnsureFlag, EnsureNoFlagValue, Flag
<1>3. KCMCommand(KCMCommand(args, first), second) = KCMCommand(args, second)
  <2> DEFINE once == KCMCommand(args, first)
  <2>1. KCMCommand(once, second) =
            {arg \in once : /\ arg.flag # "cloud-provider" \/ arg.value = Nil
                            /\ arg.flag # "cloud-config" \/ arg.value = Nil
                            /\ arg.flag # "allocate-node-cidrs"}
            \cup {Flag("cloud-provider", "external"), Flag("allocate-node-cidrs", second)}
    BY KCMCommandIs
  <2> QED  BY <2>1, KCMCommandIs DEF Flag
<1> QED  BY <1>1, <1>2, <1>3

-----------------------------------------------------------------------------
(* The objects *)

\* The webhook's work is not added to what it has done before, with whatever
\* Cluster that was (as long as the seed is the same): no flag of then, no value,
\* container, policy or volume is left (ensurer.go:51-206).
THEOREM EnsureAgain ==
    ASSUME NEW component \in Components, NEW object, NEW before, NEW now,
           before.localAPI = now.localAPI,
           Ensure(component, object, before) # Refused
    PROVE  Ensure(component, Ensure(component, object, before), now) = Ensure(component, object, now)
<1>1. CASE component = "mcm"
  <2> DEFINE once == EnsureMachineControllerManagerDeployment(object, before)
  <2>1. once # Refused
    BY <1>1 DEF Ensure
  <2>2. /\ once.labels = EnsureEgress(object.labels, before)
        /\ once.volumes = object.volumes \cup {"cloudprovider"}
        /\ \E c : /\ c.name = ProviderSidecarContainer.name
                  /\ once.containers = EnsureContainer(object.containers, c)
    BY <2>1 DEF EnsureMachineControllerManagerDeployment
  <2>3. EnsureEgress(once.labels, now) = EnsureEgress(object.labels, now)
    BY <2>2 DEF EnsureEgress
  <2>4. once.volumes \cup {"cloudprovider"} = object.volumes \cup {"cloudprovider"}
    BY <2>2
  <2>5. ASSUME NEW c, c.name = ProviderSidecarContainer.name
        PROVE  EnsureContainer(once.containers, c) = EnsureContainer(object.containers, c)
    BY <2>2, <2>5 DEF EnsureContainer
  <2>6. EnsureMachineControllerManagerDeployment(once, now)
            = EnsureMachineControllerManagerDeployment(object, now)
    <3> HIDE DEF once
    <3> QED  BY <2>3, <2>4, <2>5 DEF EnsureMachineControllerManagerDeployment
  <2> QED  BY <1>1, <2>6 DEF Ensure
<1>2. CASE component = "vpa"
  <2> DEFINE policy == [container |-> ProviderSidecarContainer.name, mode |-> "limits"]
  <2>1. \A vpa : EnsureMachineControllerManagerVPA(vpa) =
            [policies |-> {p \in vpa.policies : p.container # policy.container} \cup {policy}]
    BY DEF EnsureMachineControllerManagerVPA
  <2> HIDE DEF policy
  <2>2. EnsureMachineControllerManagerVPA(EnsureMachineControllerManagerVPA(object))
            = EnsureMachineControllerManagerVPA(object)
    BY <2>1
  <2> QED  BY <1>2, <2>2 DEF Ensure
<1>3. CASE component = "apiserver"
  <2> DEFINE command == APIServerCommand(object.command)
  <2>1. \A o, c : Ensure(component, o, c) = OfContainer(o, APIServerCommand(o.command))
    BY <1>3 DEF Ensure, EnsureKubeAPIServerDeployment, APIServerCommand
  <2>2. APIServerCommand(command) = command
    BY CommandsAgain
  <2> HIDE DEF command
  <2>3. OfContainer([found |-> TRUE, command |-> command], command)
            = [found |-> TRUE, command |-> command]
    BY DEF OfContainer
  <2>4. CASE object.found
    BY <2>1, <2>2, <2>3, <2>4 DEF OfContainer, command
  <2>5. CASE ~object.found
    BY <2>1, <2>5 DEF OfContainer
  <2> QED  BY <2>4, <2>5
<1>4. CASE component = "kcm"
  <2> DEFINE Allocate(c) == IF c.shoot.networking.ipv6 THEN "false" ELSE "true"
             command == KCMCommand(object.command, Allocate(before))
  <2>1. \A o, c : Ensure(component, o, c) = OfContainer(o, KCMCommand(o.command, Allocate(c)))
    BY <1>4 DEF Ensure, EnsureKubeControllerManagerDeployment, KCMCommand
  <2> HIDE DEF Allocate
  <2>2. CASE object.found
    <3>1. Ensure(component, object, before) = [found |-> TRUE, command |-> command]
      BY <2>1, <2>2 DEF OfContainer
    <3>2. KCMCommand(command, Allocate(now)) = KCMCommand(object.command, Allocate(now))
      BY CommandsAgain
    <3> HIDE DEF command
    <3>3. Ensure(component, [found |-> TRUE, command |-> command], now)
              = [found |-> TRUE, command |-> KCMCommand(command, Allocate(now))]
      <4> DEFINE once == [found |-> TRUE, command |-> command]
      <4>1. once.found /\ once.command = command
        OBVIOUS
      <4> HIDE DEF once
      <4>2. Ensure(component, once, now) = OfContainer(once, KCMCommand(once.command, Allocate(now)))
        BY <2>1
      <4> QED  BY <4>1, <4>2 DEF OfContainer, once
    <3>4. Ensure(component, object, now)
              = [found |-> TRUE, command |-> KCMCommand(object.command, Allocate(now))]
      BY <2>1, <2>2 DEF OfContainer
    <3> QED  BY <3>1, <3>2, <3>3, <3>4
  <2>3. CASE ~object.found
    BY <2>1, <2>3 DEF OfContainer
  <2> QED  BY <2>2, <2>3
<1>5. CASE component = "kubelet"
  <2> DEFINE command == IF object.found THEN EnsureKubeletCommandLineArgs(object.command)
                        ELSE object.command
             pre == object.pre \cup {"set-hostname"}
             once == [found |-> object.found, command |-> command, pre |-> pre]
  <2>1. \A o, c : Ensure(component, o, c) = EnsureKubeletServiceUnitOptions(o)
    BY <1>5 DEF Ensure
  <2>2. EnsureKubeletServiceUnitOptions(object) = once
    BY DEF EnsureKubeletServiceUnitOptions
  <2>3. pre \cup {"set-hostname"} = pre
    OBVIOUS
  <2>4. object.found => EnsureKubeletCommandLineArgs(command) = command
    BY CommandsAgain
  <2> HIDE DEF command, pre
  <2>5. EnsureKubeletServiceUnitOptions(once) = once
    BY <2>3, <2>4 DEF EnsureKubeletServiceUnitOptions
  <2> QED  BY <2>1, <2>2, <2>5
<1> QED  BY <1>1, <1>2, <1>3, <1>4, <1>5 DEF Components
=============================================================================
