---------------------- MODULE ControlPlaneConfigProofs ----------------------
(***************************************************************************)
(* What the decoding of a ControlPlaneConfig yields, for any document.     *)
(***************************************************************************)
EXTENDS ControlPlaneConfig, ASNumberProofs

-----------------------------------------------------------------------------
(* AS numbers *)

\* What is decoded of a number is a number, or it is refused.
LEMMA NumberType ==
    ASSUME NEW json \in Given(JSONValues)
    PROVE  DecodeASNumber(json) \in ASNumbers \cup {Invalid}
<1>1. 0 \in ASNumbers
  <2>1. Half * Half \in Nat /\ Half * Half >= 1
    <3>1. Half \in Nat /\ Half >= 1
      BY HalfAssumption DEF HalfAssumption
    <3>2. \A n, m, k \in Nat : n <= m => n * k <= m * k
      OBVIOUS
    <3> QED  BY <3>1, <3>2
  <2> QED  BY <2>1 DEF ASNumbers
<1>2. ASSUME json # Nil, json.kind = "integer"  PROVE DecodeASNumber(json) \in ASNumbers \cup {Invalid}
  <2>1. UnmarshalJSON(json, 0) = ParseUint(json.number, Half * Half)
    BY <1>2 DEF UnmarshalJSON
  <2> QED  BY <1>2, <2>1 DEF DecodeASNumber, ParseUint, ASNumbers
<1>3. ASSUME json # Nil, json.kind = "string"  PROVE DecodeASNumber(json) \in ASNumbers \cup {Invalid}
  <2>1. UnmarshalJSON(json, 0) = ASNumberFromString(json.text)
    BY <1>3 DEF UnmarshalJSON
  <2>2. json.text \in Texts
    BY <1>3 DEF Given, JSONValues
  <2> QED  BY <1>3, <2>1, <2>2, StringsInRange DEF DecodeASNumber
<1>4. ASSUME json # Nil, json.kind = "null"  PROVE DecodeASNumber(json) = 0
  BY <1>4 DEF DecodeASNumber, UnmarshalJSON
<1>5. ASSUME json # Nil, json.kind \notin {"integer", "string", "null"}  PROVE DecodeASNumber(json) = Invalid
  BY <1>5 DEF DecodeASNumber, UnmarshalJSON
<1>6. json = Nil => DecodeASNumber(json) = 0
  BY DEF DecodeASNumber
<1> QED  BY <1>1, <1>2, <1>3, <1>4, <1>5, <1>6

-----------------------------------------------------------------------------
(* BGP *)

\* A rule is decoded to a rule.
LEMMA RuleType ==
    ASSUME NEW in \in RawBGPFilterRules
    PROVE  DecodeBGPFilterRule(in) \in BGPFilterRules
<1>1. NoCIDR \in CIDRs
  BY DEF NoCIDR, CIDRs
<1> QED  BY <1>1, ConfigAssumption
         DEF ConfigAssumption, DecodeBGPFilterRule, RawBGPFilterRules, BGPFilterRules, OrZero, Given

\* Rules are decoded to as many rules.
LEMMA RulesType ==
    ASSUME NEW s \in Given(Seq(RawBGPFilterRules))
    PROVE  Each(DecodeBGPFilterRule, s) \in Given(Seq(BGPFilterRules))
<1>1. ASSUME NEW in \in RawBGPFilterRules  PROVE DecodeBGPFilterRule(in) \in BGPFilterRules
  BY RuleType
<1>2. CASE s = Nil
  BY <1>2 DEF Each, Given
<1>3. CASE s # Nil
  <2>1. s \in Seq(RawBGPFilterRules)
    BY <1>3 DEF Given
  <2>2. Each(DecodeBGPFilterRule, s) = [i \in 1..Len(s) |-> DecodeBGPFilterRule(s[i])]
    BY <1>3 DEF Each
  <2>3. \A i \in 1..Len(s) : DecodeBGPFilterRule(s[i]) \in BGPFilterRules
    BY <1>1, <2>1
  <2> QED  BY <2>1, <2>2, <2>3 DEF Given
<1> QED  BY <1>2, <1>3

\* A filter is decoded to a filter.
LEMMA FilterType ==
    ASSUME NEW in \in RawBGPFilters
    PROVE  DecodeBGPFilter(in) \in BGPFilters
<1>1. OrZero(in.name, "") \in Strings
  BY ConfigAssumption DEF ConfigAssumption, RawBGPFilters, OrZero, Given
<1>2. /\ in.exportV4 \in Given(Seq(RawBGPFilterRules)) /\ in.importV4 \in Given(Seq(RawBGPFilterRules))
      /\ in.exportV6 \in Given(Seq(RawBGPFilterRules)) /\ in.importV6 \in Given(Seq(RawBGPFilterRules))
  BY DEF RawBGPFilters
<1>3. /\ Each(DecodeBGPFilterRule, in.exportV4) \in Given(Seq(BGPFilterRules))
      /\ Each(DecodeBGPFilterRule, in.importV4) \in Given(Seq(BGPFilterRules))
      /\ Each(DecodeBGPFilterRule, in.exportV6) \in Given(Seq(BGPFilterRules))
      /\ Each(DecodeBGPFilterRule, in.importV6) \in Given(Seq(BGPFilterRules))
  BY <1>2, RulesType
<1> QED  BY <1>1, <1>3 DEF DecodeBGPFilter, BGPFilters

\* Filters are decoded to as many filters.
LEMMA FiltersType ==
    ASSUME NEW s \in Given(Seq(RawBGPFilters))
    PROVE  Each(DecodeBGPFilter, s) \in Given(Seq(BGPFilters))
<1>1. ASSUME NEW in \in RawBGPFilters  PROVE DecodeBGPFilter(in) \in BGPFilters
  BY FilterType
<1>2. CASE s = Nil
  BY <1>2 DEF Each, Given
<1>3. CASE s # Nil
  <2>1. s \in Seq(RawBGPFilters)
    BY <1>3 DEF Given
  <2>2. Each(DecodeBGPFilter, s) = [i \in 1..Len(s) |-> DecodeBGPFilter(s[i])]
    BY <1>3 DEF Each
  <2>3. \A i \in 1..Len(s) : DecodeBGPFilter(s[i]) \in BGPFilters
    BY <1>1, <2>1
  <2> QED  BY <2>1, <2>2, <2>3 DEF Given
<1> QED  BY <1>2, <1>3

\* A peer with a number is decoded to a peer.
LEMMA PeerType ==
    ASSUME NEW in \in RawBgpPeers, DecodeASNumber(in.asNumber) # Invalid
    PROVE  DecodeBgpPeer(in) \in BgpPeers
<1>1. DecodeASNumber(in.asNumber) \in ASNumbers
  BY NumberType DEF RawBgpPeers
<1> QED  BY <1>1, ConfigAssumption
         DEF ConfigAssumption, DecodeBgpPeer, RawBgpPeers, BgpPeers, OrZero, Given

\* Peers with numbers are decoded to as many peers.
LEMMA PeersType ==
    ASSUME NEW s \in Given(Seq(RawBgpPeers)),
           s # Nil => \A i \in 1..Len(s) : DecodeASNumber(s[i].asNumber) # Invalid
    PROVE  Each(DecodeBgpPeer, s) \in Given(Seq(BgpPeers))
<1>1. ASSUME NEW in \in RawBgpPeers, DecodeASNumber(in.asNumber) # Invalid
      PROVE  DecodeBgpPeer(in) \in BgpPeers
  BY <1>1, PeerType
<1>2. CASE s = Nil
  BY <1>2 DEF Each, Given
<1>3. CASE s # Nil
  <2>1. s \in Seq(RawBgpPeers)
    BY <1>3 DEF Given
  <2>2. Each(DecodeBgpPeer, s) = [i \in 1..Len(s) |-> DecodeBgpPeer(s[i])]
    BY <1>3 DEF Each
  <2>3. \A i \in 1..Len(s) : DecodeBgpPeer(s[i]) \in BgpPeers
    BY <1>1, <1>3, <2>1
  <2> QED  BY <2>1, <2>2, <2>3 DEF Given
<1> QED  BY <1>2, <1>3

\* A BGP configuration with numbers is decoded to one.
LEMMA BgpType ==
    ASSUME NEW in \in RawCalicoBgpConfigs, DecodeASNumber(in.asNumber) # Invalid,
           in.bgpPeer # Nil =>
              \A i \in 1..Len(in.bgpPeer) : DecodeASNumber(in.bgpPeer[i].asNumber) # Invalid
    PROVE  DecodeCalicoBgpConfig(in) \in CalicoBgpConfigs
<1>1. DecodeASNumber(in.asNumber) \in ASNumbers
  BY NumberType DEF RawCalicoBgpConfigs
<1>2. in.bgpPeer \in Given(Seq(RawBgpPeers)) /\ in.bgpFilter \in Given(Seq(RawBGPFilters))
  BY DEF RawCalicoBgpConfigs
<1>3. Each(DecodeBgpPeer, in.bgpPeer) \in Given(Seq(BgpPeers))
  BY <1>2, PeersType
<1>4. Each(DecodeBGPFilter, in.bgpFilter) \in Given(Seq(BGPFilters))
  BY <1>2, FiltersType
<1>5. OrZero(in.nodeToNodeMeshEnabled, FALSE) \in BOOLEAN
  BY DEF RawCalicoBgpConfigs, OrZero, Given
<1>6. /\ in.serviceLoadBalancerIPs \in Given(Seq(CIDRs)) /\ in.serviceExternalIPs \in Given(Seq(CIDRs))
      /\ in.serviceClusterIPs \in Given(Seq(CIDRs))
  BY DEF RawCalicoBgpConfigs
<1> QED  BY <1>1, <1>3, <1>4, <1>5, <1>6 DEF DecodeCalicoBgpConfig, CalicoBgpConfigs

-----------------------------------------------------------------------------
(* The other parts *)

\* IP pools are decoded to as many pools.
LEMMA PoolsType ==
    ASSUME NEW s \in Given(Seq(RawCalicoIPPools))
    PROVE  Each(DecodeCalicoIPPool, s) \in Given(Seq(CalicoIPPools))
<1>1. ASSUME NEW in \in RawCalicoIPPools  PROVE DecodeCalicoIPPool(in) \in CalicoIPPools
  <2>1. OrZero(in.cidr, NoCIDR) \in CIDRs
    <3>1. NoCIDR \in CIDRs
      BY DEF NoCIDR, CIDRs
    <3> QED  BY <3>1 DEF RawCalicoIPPools, OrZero, Given
  <2>2. OrZero(in.disabled, FALSE) \in BOOLEAN
    BY DEF RawCalicoIPPools, OrZero, Given
  <2>3. OrZero(in.assignmentMode, "") \in Strings /\ in.allowedUses \in Given(Seq(Strings))
    BY ConfigAssumption DEF ConfigAssumption, RawCalicoIPPools, OrZero, Given
  <2> QED  BY <2>1, <2>2, <2>3 DEF DecodeCalicoIPPool, CalicoIPPools
<1>2. CASE s = Nil
  BY <1>2 DEF Each, Given
<1>3. CASE s # Nil
  <2>1. s \in Seq(RawCalicoIPPools)
    BY <1>3 DEF Given
  <2>2. Each(DecodeCalicoIPPool, s) = [i \in 1..Len(s) |-> DecodeCalicoIPPool(s[i])]
    BY <1>3 DEF Each
  <2>3. \A i \in 1..Len(s) : DecodeCalicoIPPool(s[i]) \in CalicoIPPools
    BY <1>1, <2>1
  <2> QED  BY <2>1, <2>2, <2>3 DEF Given
<1> QED  BY <1>2, <1>3

\* The two balancers without numbers are decoded to their kind.
LEMMA BalancersType ==
    /\ \A in \in RawMetallbConfigs : DecodeMetallbConfig(in) \in MetallbConfigs
    /\ \A in \in RawMetalLoadBalancerConfigs :
          DecodeMetalLoadBalancerConfig(in) \in MetalLoadBalancerConfigs
<1>1. ASSUME NEW in \in RawMetallbConfigs  PROVE DecodeMetallbConfig(in) \in MetallbConfigs
  <2>1. /\ OrZero(in.enableSpeaker, FALSE) \in BOOLEAN /\ OrZero(in.enableL2Advertisement, FALSE) \in BOOLEAN
        /\ in.ipAddressPool \in Given(Seq(CIDRs))
    BY DEF RawMetallbConfigs, OrZero, Given
  <2> QED  BY <2>1 DEF DecodeMetallbConfig, MetallbConfigs
<1>2. ASSUME NEW in \in RawMetalLoadBalancerConfigs
      PROVE  DecodeMetalLoadBalancerConfig(in) \in MetalLoadBalancerConfigs
  <2>1. OrZero(in.allocateNodeCIDRs, FALSE) \in BOOLEAN
    BY DEF RawMetalLoadBalancerConfigs, OrZero, Given
  <2>2. /\ OrZero(in.nodeCIDRMask, 0) \in Sizes /\ OrZero(in.vni, 0) \in Sizes
        /\ OrZero(in.metalBondServer, "") \in Strings
    BY ConfigAssumption DEF ConfigAssumption, RawMetalLoadBalancerConfigs, OrZero, Given
  <2> QED  BY <2>1, <2>2 DEF DecodeMetalLoadBalancerConfig, MetalLoadBalancerConfigs
<1> QED  BY <1>1, <1>2

\* So is the configuration of the cloud controller manager.
LEMMA CCMType ==
    ASSUME NEW in \in RawCloudControllerManagerConfigs
    PROVE  DecodeCloudControllerManagerConfig(in) \in CloudControllerManagerConfigs
<1>1. ASSUME NEW k \in RawIPAMKinds  PROVE DecodeIPAMKind(k) \in IPAMKinds
  BY ConfigAssumption DEF ConfigAssumption, DecodeIPAMKind, RawIPAMKinds, IPAMKinds, OrZero, Given
<1>2. ASSUME NEW n \in RawCloudControllerNetworkings
      PROVE  DecodeCloudControllerNetworking(n) \in CloudControllerNetworkings
  <2>1. OrZero(n.configureNodeAddresses, FALSE) \in BOOLEAN
    BY DEF RawCloudControllerNetworkings, OrZero, Given
  <2>2. Pointer(DecodeIPAMKind, n.ipamKind) \in Given(IPAMKinds)
    BY <1>1 DEF RawCloudControllerNetworkings, Pointer, Given
  <2> QED  BY <2>1, <2>2 DEF DecodeCloudControllerNetworking, CloudControllerNetworkings
<1>3. Pointer(DecodeCloudControllerNetworking, in.networking) \in Given(CloudControllerNetworkings)
  BY <1>2 DEF RawCloudControllerManagerConfigs, Pointer, Given
<1>4. OrZero(in.podPrefixSize, 0) \in Sizes /\ in.featureGates \in Given(FeatureGates)
  BY ConfigAssumption DEF ConfigAssumption, RawCloudControllerManagerConfigs, OrZero, Given
<1> QED  BY <1>3, <1>4 DEF DecodeCloudControllerManagerConfig, CloudControllerManagerConfigs

\* A document whose numbers are none too large: its load balancers.
NumbersValid(raw) == \A json \in WrittenASNumbers(raw) : DecodeASNumber(json) # Invalid

\* The BGP configuration of a document has numbers in range, and so has what is
\* decoded of the parts it is in.
LEMMA WrittenBgpType ==
    ASSUME NEW raw \in RawControlPlaneConfigs, NumbersValid(raw),
           raw.loadBalancerConfig # Nil, raw.loadBalancerConfig.calicoConfig # Nil,
           raw.loadBalancerConfig.calicoConfig.calicoBgpConfig # Nil
    PROVE  LET bgp == raw.loadBalancerConfig.calicoConfig.calicoBgpConfig
           IN  /\ bgp \in RawCalicoBgpConfigs
               /\ DecodeASNumber(bgp.asNumber) # Invalid
               /\ bgp.bgpPeer # Nil =>
                     \A i \in 1..Len(bgp.bgpPeer) : DecodeASNumber(bgp.bgpPeer[i].asNumber) # Invalid
               /\ DecodeCalicoBgpConfig(bgp) \in CalicoBgpConfigs
<1> DEFINE calico == raw.loadBalancerConfig.calicoConfig
           bgp == calico.calicoBgpConfig
<1>1. raw.loadBalancerConfig \in RawLoadBalancerConfigs
  BY DEF RawControlPlaneConfigs, Given
<1>2. calico \in RawCalicoConfigs
  BY <1>1 DEF RawLoadBalancerConfigs, Given
<1>3. bgp \in RawCalicoBgpConfigs
  BY <1>2 DEF RawCalicoConfigs, Given
<1>4. WrittenASNumbers(raw) = {bgp.asNumber} \cup (IF bgp.bgpPeer = Nil THEN {}
                                  ELSE {bgp.bgpPeer[i].asNumber : i \in 1..Len(bgp.bgpPeer)})
  BY DEF WrittenASNumbers
<1>5. bgp # Nil
  OBVIOUS
<1> HIDE DEF bgp
<1>6. /\ DecodeASNumber(bgp.asNumber) # Invalid
      /\ bgp.bgpPeer # Nil =>
            \A i \in 1..Len(bgp.bgpPeer) : DecodeASNumber(bgp.bgpPeer[i].asNumber) # Invalid
  BY <1>4 DEF NumbersValid
<1>7. DecodeCalicoBgpConfig(bgp) \in CalicoBgpConfigs
  BY <1>3, <1>6, BgpType
<1> QED  BY <1>3, <1>6, <1>7 DEF bgp

LEMMA CalicoType ==
    ASSUME NEW raw \in RawControlPlaneConfigs, NumbersValid(raw),
           raw.loadBalancerConfig # Nil, raw.loadBalancerConfig.calicoConfig # Nil
    PROVE  DecodeCalicoConfig(raw.loadBalancerConfig.calicoConfig) \in CalicoConfigs
<1> DEFINE calico == raw.loadBalancerConfig.calicoConfig
<1>1. raw.loadBalancerConfig \in RawLoadBalancerConfigs
  BY DEF RawControlPlaneConfigs, Given
<1>2. /\ calico.calicoBgpConfig \in Given(RawCalicoBgpConfigs)
      /\ calico.calicoIPPools \in Given(Seq(RawCalicoIPPools))
  BY <1>1 DEF RawLoadBalancerConfigs, RawCalicoConfigs, Given
<1>3. Each(DecodeCalicoIPPool, calico.calicoIPPools) \in Given(Seq(CalicoIPPools))
  BY <1>2, PoolsType
<1>4. Pointer(DecodeCalicoBgpConfig, calico.calicoBgpConfig) \in Given(CalicoBgpConfigs)
  BY WrittenBgpType DEF Pointer, Given
<1> QED  BY <1>3, <1>4 DEF DecodeCalicoConfig, CalicoConfigs

LEMMA LoadBalancersType ==
    ASSUME NEW raw \in RawControlPlaneConfigs, NumbersValid(raw), raw.loadBalancerConfig # Nil
    PROVE  DecodeLoadBalancerConfig(raw.loadBalancerConfig) \in LoadBalancerConfigs
<1> DEFINE in == raw.loadBalancerConfig
<1>1. in \in RawLoadBalancerConfigs
  BY DEF RawControlPlaneConfigs, Given
<1>2. Pointer(DecodeMetallbConfig, in.metallbConfig) \in Given(MetallbConfigs)
  BY <1>1, BalancersType DEF RawLoadBalancerConfigs, Pointer, Given
<1>3. Pointer(DecodeMetalLoadBalancerConfig, in.metalLoadBalancerConfig) \in Given(MetalLoadBalancerConfigs)
  BY <1>1, BalancersType DEF RawLoadBalancerConfigs, Pointer, Given
<1>4. Pointer(DecodeCalicoConfig, in.calicoConfig) \in Given(CalicoConfigs)
  BY CalicoType DEF Pointer, Given
<1> QED  BY <1>2, <1>3, <1>4 DEF DecodeLoadBalancerConfig, LoadBalancerConfigs

\* What the decoder does not refuse is a configuration of the controllers' types:
\* whatever is left out, null or written in another notation.
THEOREM DecodedType ==
    ASSUME NEW raw \in RawControlPlaneConfigs, NEW strict \in BOOLEAN,
           DecodeControlPlaneConfig(raw, strict) # Refused
    PROVE  DecodeControlPlaneConfig(raw, strict) \in ControlPlaneConfigs
<1>1. NumbersValid(raw)
  BY DEF DecodeControlPlaneConfig, NumbersValid
<1>2. Pointer(DecodeCloudControllerManagerConfig, raw.cloudControllerManager)
          \in Given(CloudControllerManagerConfigs)
  BY CCMType DEF RawControlPlaneConfigs, Pointer, Given
<1>3. OrZero(raw.nodeNamePolicy, "") \in Strings \cup NodeNamePolicies
  BY ConfigAssumption DEF ConfigAssumption, RawControlPlaneConfigs, OrZero, Given
<1>4. DecodeControlPlaneConfig(raw, strict) =
          [cloudControllerManager |->
              Pointer(DecodeCloudControllerManagerConfig, raw.cloudControllerManager),
           loadBalancerConfig |-> Pointer(DecodeLoadBalancerConfig, raw.loadBalancerConfig),
           nodeNamePolicy |-> OrZero(raw.nodeNamePolicy, "")]
  BY DEF DecodeControlPlaneConfig
<1>5. Pointer(DecodeLoadBalancerConfig, raw.loadBalancerConfig) \in Given(LoadBalancerConfigs)
  BY <1>1, LoadBalancersType DEF Pointer, Given
<1> DEFINE ccm == Pointer(DecodeCloudControllerManagerConfig, raw.cloudControllerManager)
<1> DEFINE lb == Pointer(DecodeLoadBalancerConfig, raw.loadBalancerConfig)
<1> DEFINE policy == OrZero(raw.nodeNamePolicy, "")
<1> HIDE DEF ccm, lb, policy
<1>6. /\ ccm \in Given(CloudControllerManagerConfigs)
      /\ lb \in Given(LoadBalancerConfigs)
      /\ policy \in Strings \cup NodeNamePolicies
  BY <1>2, <1>3, <1>5 DEF ccm, lb, policy
<1>7. [cloudControllerManager |-> ccm, loadBalancerConfig |-> lb, nodeNamePolicy |-> policy]
          \in ControlPlaneConfigs
  BY <1>6 DEF ControlPlaneConfigs
<1> QED  BY <1>4, <1>7 DEF ccm, lb, policy

\* The BGP configuration that a document has is found, decoded, in what the
\* decoder makes of the document.
THEOREM BgpDecoded ==
    ASSUME NEW raw \in RawControlPlaneConfigs, NEW strict \in BOOLEAN,
           DecodeControlPlaneConfig(raw, strict) # Refused,
           raw.loadBalancerConfig # Nil, raw.loadBalancerConfig.calicoConfig # Nil,
           raw.loadBalancerConfig.calicoConfig.calicoBgpConfig # Nil
    PROVE  LET lb  == DecodeControlPlaneConfig(raw, strict).loadBalancerConfig
               bgp == raw.loadBalancerConfig.calicoConfig.calicoBgpConfig
           IN  /\ lb # Nil /\ lb.calicoConfig # Nil
               /\ lb.calicoConfig.calicoBgpConfig = DecodeCalicoBgpConfig(bgp)
               /\ DecodeCalicoBgpConfig(bgp) # Nil
<1> DEFINE in     == raw.loadBalancerConfig
           calico == in.calicoConfig
           bgp    == calico.calicoBgpConfig
<1>1. NumbersValid(raw)
  BY DEF DecodeControlPlaneConfig, NumbersValid
<1>2. /\ DecodeLoadBalancerConfig(in) # Nil
      /\ DecodeCalicoConfig(calico) # Nil
      /\ DecodeCalicoBgpConfig(bgp) # Nil
  BY <1>1, LoadBalancersType, CalicoType, WrittenBgpType, NilAssumption DEF NilAssumption
<1>3. DecodeControlPlaneConfig(raw, strict).loadBalancerConfig = DecodeLoadBalancerConfig(in)
  BY DEF DecodeControlPlaneConfig, Pointer
<1>4. DecodeLoadBalancerConfig(in).calicoConfig = DecodeCalicoConfig(calico)
  BY DEF DecodeLoadBalancerConfig, Pointer
<1>5. DecodeCalicoConfig(calico).calicoBgpConfig = DecodeCalicoBgpConfig(bgp)
  BY DEF DecodeCalicoConfig, Pointer
<1> QED  BY <1>2, <1>3, <1>4, <1>5
=============================================================================
