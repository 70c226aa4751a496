------------------------- MODULE ControlPlaneValues -------------------------
(***************************************************************************)
(* The chart values of a control plane                                     *)
(* (src/pkg/controller/controlplane/valuesprovider.go): what the generic   *)
(* actuator asks for in turn, for the config chart, the control plane      *)
(* chart in the seed and the chart in the shoot.                           *)
(*                                                                         *)
(* A cluster is the record of its name, the shoot and the annotation of    *)
(* the seed, as the Cluster resource has them; Refused stands for the      *)
(* error of a chart.                                                       *)
(***************************************************************************)
EXTENDS ControlPlaneConfig, SequencesExt

ToConfig(providerConfig) ==
    IF providerConfig = Nil THEN EmptyConfig ELSE DecodeControlPlaneConfig(providerConfig, TRUE)

\* The values that an error of one of the parts makes unavailable.
OrRefused(parts, values) == IF \E part \in parts : part = Refused THEN Refused ELSE values

Disabled == [enabled |-> FALSE]

\* The configuration of one of the three load balancers.
LoadBalancerOf(cpConfig, kind) ==
    IF cpConfig.loadBalancerConfig = Nil THEN Nil ELSE cpConfig.loadBalancerConfig[kind]

-----------------------------------------------------------------------------
(* The config chart: the cloud config of the CCM.                          *)

ConfigChartValues(cluster, cpConfig) ==
    LET ccm == cpConfig.cloudControllerManager
    IN  [clusterName |-> cluster.name,
         networking |-> IF ccm = Nil THEN Nil ELSE ccm.networking]

-----------------------------------------------------------------------------
(* The control plane chart: the CCM and the load balancer manager.         *)

\* The certificates the actuator generates before it asks for values, each
\* with the one that signs it.
SecretConfigs ==
    [name \in {"ca-controlplane", "cloud-controller-manager-server"} |->
        IF name = "ca-controlplane" THEN Nil ELSE "ca-controlplane"]

OverlayEnabled(networking) ==
    CASE networking.overlay = Nil         -> FALSE
      [] networking.overlay \in BOOLEAN   -> networking.overlay
      [] OTHER                            -> Refused

\* `generated` are the names of the generated secrets, `sums` the checksums
\* of what the actuator found in the seed.
CCMChartValues(cpConfig, cluster, generated, sums, workloadIdentity) ==
    LET ccm == cpConfig.cloudControllerManager
        overlay == OverlayEnabled(cluster.shoot.networking)
    IN  IF "cloud-controller-manager-server" \notin generated \/ overlay = Refused THEN Refused
        ELSE [clusterName |-> cluster.name,
              podNetwork |-> cluster.shoot.networking.pods,
              checksums |-> sums,
              allowEgress |-> cluster.localAPI = "true",
              featureGates |-> IF ccm = Nil THEN Nil ELSE ccm.featureGates,
              podPrefixSize |-> IF ccm = Nil THEN Nil
                                ELSE IF ccm.podPrefixSize > 0 THEN ccm.podPrefixSize ELSE Nil,
              configureCloudRoutes |-> ~overlay,
              workloadIdentity |-> workloadIdentity]

\* Mutant: wherever a load balancer is configured.
LoadBalancerManagerOfAny(cpConfig) ==
    IF cpConfig.loadBalancerConfig = Nil THEN Disabled
    ELSE LET metal == cpConfig.loadBalancerConfig.metalLoadBalancerConfig
         IN  [enabled |-> TRUE,
              nodeCIDRMask |-> IF metal = Nil THEN 0 ELSE metal.nodeCIDRMask,
              allocateNodeCIDRs |-> IF metal = Nil THEN FALSE ELSE metal.allocateNodeCIDRs]

LoadBalancerManagerChartValues(cpConfig) ==
    LET metal == LoadBalancerOf(cpConfig, "metalLoadBalancerConfig")
    IN  IF metal = Nil THEN Disabled
        ELSE [enabled |-> TRUE, nodeCIDRMask |-> metal.nodeCIDRMask,
              allocateNodeCIDRs |-> metal.allocateNodeCIDRs]

ControlPlaneChartValues(cpConfig, cluster, generated, sums, workloadIdentity) ==
    LET ccm == CCMChartValues(cpConfig, cluster, generated, sums, workloadIdentity)
    IN  OrRefused({ccm}, [ccm |-> ccm, manager |-> LoadBalancerManagerChartValues(cpConfig)])

\* The charts the extension has no values for.
GetControlPlaneExposureChartValues == <<>>
GetControlPlaneShootCRDsChartValues == <<>>
GetStorageClassesChartValues == <<>>

-----------------------------------------------------------------------------
(* The chart in the shoot: MetalLB, Calico and the speaker.                *)

\* The size of the mask, 0 for a range.
ParseAddressPool(cidr) ==
    IF ~cidr.range THEN (IF cidr.mask < 0 THEN Refused ELSE cidr.mask)
    ELSE IF cidr.start < 0 \/ cidr.end < 0 \/ cidr.start > cidr.end THEN Refused ELSE 0

AddressPools(cidrs) == cidrs = Nil \/ \A i \in 1..Len(cidrs) : ParseAddressPool(cidrs[i]) # Refused

\* nil as no elements.
Elements(s) == IF s = Nil THEN <<>> ELSE s

MetallbChartValues(cpConfig) ==
    LET metallb == LoadBalancerOf(cpConfig, "metallbConfig")
    IN  CASE metallb = Nil                       -> Disabled
          [] ~AddressPools(metallb.ipAddressPool) -> Refused
          [] OTHER -> [enabled |-> TRUE, speaker |-> metallb.enableSpeaker,
                       l2Advertisement |-> metallb.enableL2Advertisement,
                       ipAddressPool |-> metallb.ipAddressPool]

Calico(cluster) == cluster.shoot.networking.type = "calico"

ValidateCalicoIPPoolAssignmentMode(mode) == mode \in AssignmentModes
ValidateCalicoIPPoolAllowedUses(use) == use \in AllowedUses

ValidPool(pool) ==
    /\ ParseAddressPool(pool.cidr) # Refused
    /\ pool.assignmentMode = "" \/ ValidateCalicoIPPoolAssignmentMode(pool.assignmentMode)
    /\ \A i \in DOMAIN Elements(pool.allowedUses) :
           ValidateCalicoIPPoolAllowedUses(pool.allowedUses[i])

PoolValues(pool) ==
    [allowedUses |-> OrZero(pool.allowedUses, <<"LoadBalancer">>),
     assignmentMode |-> IF pool.assignmentMode = "" THEN "Automatic" ELSE pool.assignmentMode,
     cidr |-> pool.cidr, blockSize |-> ParseAddressPool(pool.cidr), disabled |-> pool.disabled]

CalicoIPPoolChartValues(cpConfig, cluster) ==
    LET calico == LoadBalancerOf(cpConfig, "calicoConfig")
        pools  == IF calico = Nil THEN Nil ELSE calico.calicoIPPools
    IN  CASE pools = Nil      -> Disabled
          [] ~Calico(cluster) -> [enabled |-> TRUE, pools |-> <<>>]
          [] \E i \in 1..Len(pools) : ~ValidPool(pools[i]) -> Refused
          [] OTHER            -> [enabled |-> TRUE, pools |-> Each(PoolValues, pools)]

\* A rule has a source only if it is given; other fields are copied.
RuleValues(rule) ==
    [cidr |-> rule.cidr, action |-> rule.action, matchOperator |-> rule.matchOperator,
     source |-> IF rule.source = "" THEN Nil ELSE rule.source]

ProcessFilters(rules) ==
    IF AddressPools(Each(LAMBDA rule : rule.cidr, rules)) THEN Each(RuleValues, Elements(rules))
    ELSE Refused

\* Mutant: the imports of a family are the exports of the other.
FilterValuesCrossed(filter) ==
    [name |-> filter.name,
     exportV4 |-> ProcessFilters(filter.exportV4), importV4 |-> ProcessFilters(filter.exportV4),
     exportV6 |-> ProcessFilters(filter.exportV6), importV6 |-> ProcessFilters(filter.importV6)]

\* The directions without rules stay out.
FilterValues(filter) ==
    [name |-> filter.name,
     exportV4 |-> ProcessFilters(filter.exportV4), importV4 |-> ProcessFilters(filter.importV4),
     exportV6 |-> ProcessFilters(filter.exportV6), importV6 |-> ProcessFilters(filter.importV6)]

ValidFilter(filter) == \A direction \in {"exportV4", "importV4", "exportV6", "importV6"} :
                           ProcessFilters(filter[direction]) # Refused

PeerValues(peer) ==
    [peerIP |-> peer.peerIP, asNumber |-> ToUint32(peer.asNumber),
     nodeSelector |-> peer.nodeSelector, filters |-> Elements(peer.filters)]

ServiceIPs == {"serviceLoadBalancerIPs", "serviceExternalIPs", "serviceClusterIPs"}

CalicoBgpChartValues(cpConfig, cluster) ==
    LET calico == LoadBalancerOf(cpConfig, "calicoConfig")
        bgp    == IF calico = Nil THEN Nil ELSE calico.calicoBgpConfig
        OfCalico(values) == IF Calico(cluster) THEN values ELSE <<>>
    IN  IF bgp = Nil THEN Disabled
        ELSE IF Calico(cluster)
                /\ \/ \E ips \in ServiceIPs : ~AddressPools(bgp[ips])
                   \/ \E i \in DOMAIN Elements(bgp.bgpFilter) : ~ValidFilter(bgp.bgpFilter[i])
        THEN Refused
        ELSE [enabled |-> TRUE,
              asNumber |-> ToUint32(bgp.asNumber),
              nodeToNodeMeshEnabled |-> bgp.nodeToNodeMeshEnabled,
              services |-> [ips \in ServiceIPs |-> OfCalico(Elements(bgp[ips]))],
              bgpPeer |-> OfCalico(Each(PeerValues, Elements(bgp.bgpPeer))),
              bgpFilter |-> OfCalico(Each(FilterValues, Elements(bgp.bgpFilter)))]

SpeakerChartValues(cpConfig) ==
    LET metal == LoadBalancerOf(cpConfig, "metalLoadBalancerConfig")
    IN  IF metal = Nil THEN Disabled
        ELSE [enabled |-> TRUE, vni |-> metal.vni, metalBondServer |-> metal.metalBondServer]

ShootChartValues(cluster, cpConfig) ==
    LET metallb == MetallbChartValues(cpConfig)
        pools   == CalicoIPPoolChartValues(cpConfig, cluster)
        bgp     == CalicoBgpChartValues(cpConfig, cluster)
    IN  OrRefused({metallb, pools, bgp},
                  [metallb |-> metallb, calicoIPPool |-> pools, calicoBgp |-> bgp,
                   speaker |-> SpeakerChartValues(cpConfig)])
=============================================================================
