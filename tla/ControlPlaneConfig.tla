------------------------- MODULE ControlPlaneConfig -------------------------
(***************************************************************************)
(* The ControlPlaneConfig of a shoot as a user writes it                   *)
(* (src/pkg/apis/metal/v1alpha1/types_controlplane.go), as the controllers *)
(* use it (src/pkg/apis/metal/types_controlplane.go) and the decoding of   *)
(* the one into the other: JSON and the generated conversions.             *)
(*                                                                         *)
(* A field that is not given is Nil in the first, and its type's zero      *)
(* value in the second: Nil for pointers and slices.                       *)
(***************************************************************************)
EXTENDS ASNumber

CONSTANTS
    Nil,
    Refused,        \* an error, where a config or a number is expected
    Strings,        \* names, selectors, operators, addresses; "" is one
    FeatureGates,   \* the maps from feature gates to booleans
    Sizes           \* the int32s of prefix sizes, masks and VNIs

ASSUME ConfigAssumption == "" \in Strings /\ 0 \in Sizes /\ Sizes \subseteq Int

\* The text of an address pool: an address and the size of a mask, or with a
\* dash a first and a last address; -1 for what is none.
CIDRs == [range : {FALSE}, address : Int, mask : Int] \cup [range : {TRUE}, start : Int, end : Int]
NoCIDR == [range |-> FALSE, address |-> 0, mask |-> -1]

Given(S) == S \cup {Nil}
OrZero(field, zero) == IF field = Nil THEN zero ELSE field

-----------------------------------------------------------------------------
(* The types of the controllers.                                           *)

NodeNamePolicies == {"BMCName", "ServerName", "ServerClaimName"}
AllowedUses == {"LoadBalancer", "Tunnel", "Workload"}
AssignmentModes == {"Automatic", "Manual"}
MatchSources == {"RemotePeers"}

IPAMKinds == [apiGroup : Strings, kind : Strings]
CloudControllerNetworkings == [configureNodeAddresses : BOOLEAN, ipamKind : Given(IPAMKinds)]
CloudControllerManagerConfigs ==
    [featureGates : Given(FeatureGates), networking : Given(CloudControllerNetworkings),
     podPrefixSize : Sizes]
MetalLoadBalancerConfigs ==
    [nodeCIDRMask : Sizes, allocateNodeCIDRs : BOOLEAN, vni : Sizes, metalBondServer : Strings]
MetallbConfigs ==
    [ipAddressPool : Given(Seq(CIDRs)), enableSpeaker : BOOLEAN, enableL2Advertisement : BOOLEAN]
CalicoIPPools ==
    [allowedUses : Given(Seq(Strings)), assignmentMode : Strings, cidr : CIDRs, disabled : BOOLEAN]
BGPFilterRules ==
    [cidr : CIDRs, matchOperator : Strings, action : Strings, source : Strings]
BGPFilters ==
    LET rules == Given(Seq(BGPFilterRules))
    IN  [name : Strings, exportV4 : rules, importV4 : rules, exportV6 : rules, importV6 : rules]
BgpPeers ==
    [peerIP : Strings, asNumber : ASNumbers, nodeSelector : Strings, filters : Given(Seq(Strings))]
CalicoBgpConfigs ==
    [asNumber : ASNumbers, nodeToNodeMeshEnabled : BOOLEAN,
     serviceLoadBalancerIPs : Given(Seq(CIDRs)), serviceExternalIPs : Given(Seq(CIDRs)),
     serviceClusterIPs : Given(Seq(CIDRs)),
     bgpPeer : Given(Seq(BgpPeers)), bgpFilter : Given(Seq(BGPFilters))]
CalicoConfigs ==
    [calicoBgpConfig : Given(CalicoBgpConfigs), calicoIPPools : Given(Seq(CalicoIPPools))]
LoadBalancerConfigs ==
    [metallbConfig : Given(MetallbConfigs), calicoConfig : Given(CalicoConfigs),
     metalLoadBalancerConfig : Given(MetalLoadBalancerConfigs)]
ControlPlaneConfigs ==
    [cloudControllerManager : Given(CloudControllerManagerConfigs),
     loadBalancerConfig : Given(LoadBalancerConfigs), nodeNamePolicy : Strings \cup NodeNamePolicies]

\* Nil is no value that can be given.
ASSUME NilAssumption ==
    /\ Nil \notin Strings /\ Nil \notin Sizes /\ Nil \notin CIDRs /\ Nil \notin BOOLEAN
    /\ Nil \notin CloudControllerManagerConfigs /\ Nil \notin CloudControllerNetworkings
    /\ Nil \notin IPAMKinds
    /\ Nil \notin LoadBalancerConfigs /\ Nil \notin MetalLoadBalancerConfigs
    /\ Nil \notin MetallbConfigs /\ Nil \notin CalicoConfigs /\ Nil \notin CalicoBgpConfigs
    /\ Nil \notin Seq(BgpPeers) /\ Nil \notin Seq(BGPFilters)
    /\ Nil \notin Seq(BGPFilterRules) /\ Nil \notin Seq(CalicoIPPools) /\ Nil \notin Seq(CIDRs)
    /\ Nil \notin Seq(Strings)
    /\ Refused \notin ControlPlaneConfigs

\* The config of a control plane without a providerConfig.
EmptyConfig ==
    [cloudControllerManager |-> Nil, loadBalancerConfig |-> Nil, nodeNamePolicy |-> ""]

-----------------------------------------------------------------------------
(* What a user may write.                                                  *)

RawIPAMKinds == [apiGroup : Given(Strings), kind : Given(Strings)]
RawCloudControllerNetworkings ==
    [configureNodeAddresses : Given(BOOLEAN), ipamKind : Given(RawIPAMKinds)]
RawCloudControllerManagerConfigs ==
    [featureGates : Given(FeatureGates), networking : Given(RawCloudControllerNetworkings),
     podPrefixSize : Given(Sizes)]
RawMetalLoadBalancerConfigs ==
    [nodeCIDRMask : Given(Sizes), allocateNodeCIDRs : Given(BOOLEAN), vni : Given(Sizes),
     metalBondServer : Given(Strings)]
RawMetallbConfigs ==
    [ipAddressPool : Given(Seq(CIDRs)), enableSpeaker : Given(BOOLEAN),
     enableL2Advertisement : Given(BOOLEAN)]
RawCalicoIPPools ==
    [allowedUses : Given(Seq(Strings)), assignmentMode : Given(Strings), cidr : Given(CIDRs),
     disabled : Given(BOOLEAN)]
RawBGPFilterRules ==
    [cidr : Given(CIDRs), matchOperator : Given(Strings), action : Given(Strings),
     source : Given(Strings)]
RawBGPFilters ==
    LET rules == Given(Seq(RawBGPFilterRules))
    IN  [name : Given(Strings), exportV4 : rules, importV4 : rules, exportV6 : rules, importV6 : rules]
RawBgpPeers ==
    [peerIP : Given(Strings), asNumber : Given(JSONValues), nodeSelector : Given(Strings),
     filters : Given(Seq(Strings))]
RawCalicoBgpConfigs ==
    [asNumber : Given(JSONValues), nodeToNodeMeshEnabled : Given(BOOLEAN),
     serviceLoadBalancerIPs : Given(Seq(CIDRs)), serviceExternalIPs : Given(Seq(CIDRs)),
     serviceClusterIPs : Given(Seq(CIDRs)),
     bgpPeer : Given(Seq(RawBgpPeers)), bgpFilter : Given(Seq(RawBGPFilters))]
RawCalicoConfigs ==
    [calicoBgpConfig : Given(RawCalicoBgpConfigs), calicoIPPools : Given(Seq(RawCalicoIPPools))]
RawLoadBalancerConfigs ==
    [metallbConfig : Given(RawMetallbConfigs), calicoConfig : Given(RawCalicoConfigs),
     metalLoadBalancerConfig : Given(RawMetalLoadBalancerConfigs)]

\* unknown: some field of the document is none of the types'.
RawControlPlaneConfigs ==
    [cloudControllerManager : Given(RawCloudControllerManagerConfigs),
     loadBalancerConfig : Given(RawLoadBalancerConfigs),
     nodeNamePolicy : Given(Strings \cup NodeNamePolicies), unknown : BOOLEAN]

-----------------------------------------------------------------------------
(* Decoding, type by type.                                                 *)

\* A slice, element by element.
Each(Convert(_), s) == IF s = Nil THEN Nil ELSE [i \in 1..Len(s) |-> Convert(s[i])]
Pointer(Convert(_), p) == IF p = Nil THEN Nil ELSE Convert(p)

DecodeASNumber(json) == IF json = Nil THEN 0 ELSE UnmarshalJSON(json, 0)

DecodeIPAMKind(in) ==
    [apiGroup |-> OrZero(in.apiGroup, ""), kind |-> OrZero(in.kind, "")]

DecodeCloudControllerNetworking(in) ==
    [configureNodeAddresses |-> OrZero(in.configureNodeAddresses, FALSE),
     ipamKind |-> Pointer(DecodeIPAMKind, in.ipamKind)]

DecodeCloudControllerManagerConfig(in) ==
    [featureGates |-> in.featureGates,
     networking |-> Pointer(DecodeCloudControllerNetworking, in.networking),
     podPrefixSize |-> OrZero(in.podPrefixSize, 0)]

DecodeMetalLoadBalancerConfig(in) ==
    [nodeCIDRMask |-> OrZero(in.nodeCIDRMask, 0),
     allocateNodeCIDRs |-> OrZero(in.allocateNodeCIDRs, FALSE),
     vni |-> OrZero(in.vni, 0), metalBondServer |-> OrZero(in.metalBondServer, "")]

DecodeMetallbConfig(in) ==
    [ipAddressPool |-> in.ipAddressPool, enableSpeaker |-> OrZero(in.enableSpeaker, FALSE),
     enableL2Advertisement |-> OrZero(in.enableL2Advertisement, FALSE)]

DecodeCalicoIPPool(in) ==
    [allowedUses |-> in.allowedUses, assignmentMode |-> OrZero(in.assignmentMode, ""),
     cidr |-> OrZero(in.cidr, NoCIDR), disabled |-> OrZero(in.disabled, FALSE)]

DecodeBGPFilterRule(in) ==
    [cidr |-> OrZero(in.cidr, NoCIDR), matchOperator |-> OrZero(in.matchOperator, ""),
     action |-> OrZero(in.action, ""), source |-> OrZero(in.source, "")]

\* Mutant: the directions of the second family are exchanged.
DecodeBGPFilterSwapped(in) ==
    [name |-> OrZero(in.name, ""),
     exportV4 |-> Each(DecodeBGPFilterRule, in.exportV4),
     importV4 |-> Each(DecodeBGPFilterRule, in.importV4),
     exportV6 |-> Each(DecodeBGPFilterRule, in.importV6),
     importV6 |-> Each(DecodeBGPFilterRule, in.exportV6)]

DecodeBGPFilter(in) ==
    [name |-> OrZero(in.name, ""),
     exportV4 |-> Each(DecodeBGPFilterRule, in.exportV4),
     importV4 |-> Each(DecodeBGPFilterRule, in.importV4),
     exportV6 |-> Each(DecodeBGPFilterRule, in.exportV6),
     importV6 |-> Each(DecodeBGPFilterRule, in.importV6)]

DecodeBgpPeer(in) ==
    [peerIP |-> OrZero(in.peerIP, ""), asNumber |-> DecodeASNumber(in.asNumber),
     nodeSelector |-> OrZero(in.nodeSelector, ""), filters |-> in.filters]

DecodeCalicoBgpConfig(in) ==
    [asNumber |-> DecodeASNumber(in.asNumber),
     nodeToNodeMeshEnabled |-> OrZero(in.nodeToNodeMeshEnabled, FALSE),
     serviceLoadBalancerIPs |-> in.serviceLoadBalancerIPs,
     serviceExternalIPs |-> in.serviceExternalIPs,
     serviceClusterIPs |-> in.serviceClusterIPs,
     bgpPeer |-> Each(DecodeBgpPeer, in.bgpPeer),
     bgpFilter |-> Each(DecodeBGPFilter, in.bgpFilter)]

DecodeCalicoConfig(in) ==
    [calicoBgpConfig |-> Pointer(DecodeCalicoBgpConfig, in.calicoBgpConfig),
     calicoIPPools |-> Each(DecodeCalicoIPPool, in.calicoIPPools)]

DecodeLoadBalancerConfig(in) ==
    [metallbConfig |-> Pointer(DecodeMetallbConfig, in.metallbConfig),
     calicoConfig |-> Pointer(DecodeCalicoConfig, in.calicoConfig),
     metalLoadBalancerConfig |-> Pointer(DecodeMetalLoadBalancerConfig, in.metalLoadBalancerConfig)]

\* The AS numbers of a document.
WrittenASNumbers(raw) ==
    IF raw.loadBalancerConfig = Nil THEN {}
    ELSE IF raw.loadBalancerConfig.calicoConfig = Nil THEN {}
    ELSE LET bgp == raw.loadBalancerConfig.calicoConfig.calicoBgpConfig
         IN  IF bgp = Nil THEN {}
             ELSE {bgp.asNumber} \cup (IF bgp.bgpPeer = Nil THEN {}
                       ELSE {bgp.bgpPeer[i].asNumber : i \in 1..Len(bgp.bgpPeer)})

\* The strict decoder refuses unknown fields, every decoder what is no AS
\* number.
DecodeControlPlaneConfig(raw, strict) ==
    IF (strict /\ raw.unknown) \/ \E json \in WrittenASNumbers(raw) : DecodeASNumber(json) = Invalid
    THEN Refused
    ELSE [cloudControllerManager |->
              Pointer(DecodeCloudControllerManagerConfig, raw.cloudControllerManager),
          loadBalancerConfig |-> Pointer(DecodeLoadBalancerConfig, raw.loadBalancerConfig),
          nodeNamePolicy |-> OrZero(raw.nodeNamePolicy, "")]
=============================================================================
