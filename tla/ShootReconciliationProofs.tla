--------------------- MODULE ShootReconciliationProofs ---------------------
(***************************************************************************)
(* Invariants of module ShootReconciliation, for any shoots, secrets,      *)
(* objects and number of disturbances.                                     *)
(***************************************************************************)
EXTENDS ShootReconciliation, ControlPlaneWebhookProofs, ControlPlaneConfigProofs,
        WellFoundedInduction

-----------------------------------------------------------------------------
(* The stored objects *)

\* Objects are the component's own and as the last write has mutated them.
ObjectInv ==
    object # Nil =>
        /\ watched \in Components
        /\ object = Ensure(watched, Base[watched], ClusterOf(objectOf))
        /\ object # Refused

\* A write of gardenlet's object or of the stored one leaves such an object.
LEMMA WriteObjects ==
    ASSUME ObjectInv, watched \in Components, NEW from,
           from = Base[watched] \/ (from = object /\ object # Nil),
           Write(from)
    PROVE  ObjectInv'
<1> DEFINE base == Base[watched]
           now == ClusterOf(cluster)
<1>1. /\ watched' = watched /\ objectOf' = cluster
      /\ object' = Ensure(watched, from, now) /\ object' # Refused
  BY DEF Write
<1>2. CASE from = base
  BY <1>1, <1>2 DEF ObjectInv
<1>3. CASE from = object /\ object # Nil
  <2> DEFINE before == ClusterOf(objectOf)
  <2>1. object = Ensure(watched, base, before) /\ object # Refused
    BY <1>3 DEF ObjectInv
  <2>2. before.localAPI = now.localAPI
    BY DEF ClusterOf
  <2> HIDE DEF base, before, now
  <2>3. Ensure(watched, Ensure(watched, base, before), now) = Ensure(watched, base, now)
    BY <2>1, <2>2, EnsureAgain
  <2>4. object' = Ensure(watched, base, now)
    BY <1>1, <1>3, <2>1, <2>3
  <2> QED  BY <1>1, <2>4 DEF ObjectInv, base, now
<1> QED  BY <1>2, <1>3

\* No other step touches the objects.
LEMMA NextObjects ==
    ASSUME ObjectInv, [Next]_vars
    PROVE  ObjectInv'
<1>1. CASE WriteObject
  BY <1>1, WriteObjects DEF WriteObject
<1>2. CASE RewriteObject
  BY <1>2, WriteObjects DEF RewriteObject
<1>3. CASE watched' = watched /\ UNCHANGED objectVars
  BY <1>3 DEF objectVars, ObjectInv
<1>4. [Next]_vars => WriteObject \/ RewriteObject \/ (watched' = watched /\ UNCHANGED objectVars)
  BY DEF Next, vars, Edit, EditSecret, SyncCluster, DeployResource, DeployReferences,
         StartReconcile, ApplyConfigChart, SyncConfigMap, ComputeChecksums, ApplyControlPlaneChart,
         ApplyShootChart, Abort, ReportNetworks, StartWorker, GenerateClass
<1> QED  BY <1>1, <1>2, <1>3, <1>4

\* However often a component's object is written and mutated, and whatever the
\* Cluster was then, nothing of an earlier mutation is left in it.
THEOREM NoResidueLeft == Spec => []NoResidue
<1>1. Init => ObjectInv
  BY DEF Init, ObjectInv
<1>2. ObjectInv /\ [Next]_vars => ObjectInv'
  BY NextObjects
<1>3. ObjectInv => NoResidue
  BY DEF ObjectInv, NoResidue
<1> QED  BY <1>1, <1>2, <1>3, PTL DEF Spec

-----------------------------------------------------------------------------
(* The charts *)

\* The metal load balancer a reconciliation has been asked for.
Balanced(read) ==
    LoadBalancerManagerChartValues(ToConfig(read.config)).enabled

\* Both charts are made from the config that was read when the reconciliation
\* started; one that was given up is forgotten.
ChartsInv ==
    /\ step \in {"controlplane", "shoot"} => run.sums # Nil
    /\ applied # Nil => applied.sums # Nil
    /\ step = "shoot" => seedChart.manager.enabled = Balanced(run)
    /\ step = "idle" /\ applied # Nil /\ applied = run =>
          seedChart.manager.enabled = shootChart.speaker.enabled

\* The manager and the speaker are enabled by one and the same field.
LEMMA OneLoadBalancer ==
    ASSUME NEW cpConfig
    PROVE  SpeakerChartValues(cpConfig).enabled = LoadBalancerManagerChartValues(cpConfig).enabled
  BY DEF LoadBalancerManagerChartValues, SpeakerChartValues, Disabled

\* A reconciliation that is given up matches none that was finished.
LEMMA GivenUp ==
    ASSUME ChartsInv, step' = "idle", run' = NoRun,
           UNCHANGED <<applied, seedChart, shootChart>>
    PROVE  ChartsInv'
<1>1. applied # Nil => applied # NoRun
  BY DEF ChartsInv, NoRun
<1> QED  BY <1>1 DEF ChartsInv

\* The steps of the reconciliation, and the steps that leave it alone.
LEMMA NextCharts ==
    ASSUME ChartsInv, [Next]_vars
    PROVE  ChartsInv'
<1>1. CASE StartReconcile
  BY <1>1 DEF StartReconcile, chartVars, ChartsInv
<1>2. CASE StartWorker
  BY <1>2 DEF StartWorker, chartVars, ChartsInv
<1>3. CASE ApplyConfigChart
  <2>1. UNCHANGED <<applied, seedChart, shootChart>>
    BY <1>3 DEF ApplyConfigChart
  <2>2. \/ step' = "idle" /\ run' = NoRun
        \/ step' = "checksums"
    BY <1>3 DEF ApplyConfigChart, Then
  <2>3. CASE step' = "checksums"
    BY <2>1, <2>3 DEF ChartsInv
  <2> QED  BY <2>1, <2>2, <2>3, GivenUp
<1>4. CASE ComputeChecksums
  <2>1. UNCHANGED <<applied, seedChart, shootChart>>
    BY <1>4 DEF ComputeChecksums, chartVars
  <2>2. \/ step' = "idle" /\ run' = NoRun
        \/ /\ step' = "controlplane" /\ Checksum(configSeen) # Refused
           /\ run'.sums = Checksum(configSeen)
    BY <1>4 DEF ComputeChecksums, Then
  <2>3. CASE step' = "controlplane" /\ Checksum(configSeen) # Refused
             /\ run'.sums = Checksum(configSeen)
    BY <2>1, <2>3 DEF ChartsInv, Checksum
  <2> QED  BY <2>1, <2>2, <2>3, GivenUp
<1>5. CASE ApplyControlPlaneChart
  <2> DEFINE config == ToConfig(run.config)
             values == OrRefused({config}, ControlPlaneChartValues(config, ClusterOf(run.cluster),
                                                DOMAIN SecretConfigs, run.sums, FALSE))
  <2>1. UNCHANGED <<applied, shootChart>> /\ run.sums # Nil
    BY <1>5 DEF ApplyControlPlaneChart, ChartsInv
  <2>2. \/ step' = "idle" /\ run' = NoRun /\ seedChart' = seedChart
        \/ step' = "shoot" /\ run' = run /\ values # Refused /\ seedChart' = values
    BY <1>5 DEF ApplyControlPlaneChart, Then
  <2>3. CASE step' = "shoot" /\ run' = run /\ values # Refused /\ seedChart' = values
    <3>1. values.manager = LoadBalancerManagerChartValues(config)
      BY <2>3 DEF OrRefused, ControlPlaneChartValues
    <3> QED  BY <2>1, <2>3, <3>1 DEF ChartsInv, Balanced
  <2> QED  BY <2>1, <2>2, <2>3, GivenUp
<1>6. CASE ApplyShootChart
  <2> DEFINE config == ToConfig(run.config)
             values == OrRefused({config}, ShootChartValues(ClusterOf(run.cluster), config))
  <2>1. seedChart' = seedChart /\ step' = "idle" /\ step = "shoot"
    BY <1>6 DEF ApplyShootChart, Then
  <2>2. \/ run' = NoRun /\ shootChart' = shootChart /\ applied' = applied
        \/ run' = run /\ values # Refused /\ shootChart' = values /\ applied' = run
    BY <1>6 DEF ApplyShootChart, Then
  <2>3. CASE run' = run /\ values # Refused /\ shootChart' = values /\ applied' = run
    <3>1. values.speaker = SpeakerChartValues(config)
      BY <2>3 DEF OrRefused, ShootChartValues
    <3>2. seedChart.manager.enabled = Balanced(run) /\ run.sums # Nil
      BY <2>1 DEF ChartsInv
    <3> QED  BY <2>1, <2>3, <3>1, <3>2, OneLoadBalancer DEF ChartsInv, Balanced
  <2> QED  BY <2>1, <2>2, <2>3, GivenUp
<1>7. CASE Abort \/ GenerateClass
  BY <1>7, GivenUp DEF Abort, GenerateClass, chartVars
<1>8. CASE UNCHANGED <<step, run, applied, seedChart, shootChart>>
  BY <1>8 DEF ChartsInv, Balanced
<1>9. \/ StartReconcile \/ StartWorker \/ ApplyConfigChart \/ ComputeChecksums
      \/ ApplyControlPlaneChart \/ ApplyShootChart \/ Abort \/ GenerateClass
      \/ UNCHANGED <<step, run, applied, seedChart, shootChart>>
  BY DEF Next, vars, chartVars, Edit, EditSecret, SyncCluster, DeployResource, DeployReferences,
         SyncConfigMap, ReportNetworks, WriteObject, RewriteObject, Write
<1> QED  BY <1>1, <1>2, <1>3, <1>4, <1>5, <1>6, <1>7, <1>8, <1>9

\* After a reconciliation that was finished, seed and shoot agree on the metal
\* load balancer, whatever was edited or given up before.
THEOREM ChartsAlwaysAgree == Spec => []ChartsAgree
<1>1. Init => ChartsInv
  BY DEF Init, ChartsInv
<1>2. ChartsInv /\ [Next]_vars => ChartsInv'
  BY NextCharts
<1>3. ChartsInv => ChartsAgree
  BY DEF ChartsInv, ChartsAgree
<1> QED  BY <1>1, <1>2, <1>3, PTL DEF Spec

-----------------------------------------------------------------------------
(* Routes and AS numbers *)

\* A number that is decoded at all is the one that is written.
LEMMA NumberMeant ==
    ASSUME NEW json \in Given(JSONValues), DecodeASNumber(json) # Invalid
    PROVE  ToUint32(DecodeASNumber(json)) = Meaning(json)
<1>1. ASSUME json # Nil, json.kind = "string"
      PROVE  ASNumberFromString(json.text) = Meaning(json)
  <2>1. DecodeASNumber(json) = ASNumberFromString(json.text)
    BY <1>1 DEF DecodeASNumber, UnmarshalJSON
  <2>2. json.text \in Texts
    BY <1>1 DEF Given, JSONValues
  <2>3. CASE Len(json.text) = 1
    BY <1>1, <2>1, <2>3 DEF ASNumberFromString, ParseUint, Meaning
  <2>4. CASE Len(json.text) # 1
    <3>1. /\ json.text[1] \in 0..(Half - 1) /\ json.text[2] \in 0..(Half - 1)
          /\ ASNumberFromString(json.text) =
                (json.text[1] * Half + json.text[2]) % (Half * Half)
      BY <2>1, <2>4 DEF ASNumberFromString, ParseUint, Invalid
    <3>2. Meaning(json) = json.text[1] * Half + json.text[2]
      BY <1>1, <2>4 DEF Meaning
    <3> QED  BY <3>1, <3>2, HalvesFit
  <2> QED  BY <2>3, <2>4
<1>2. ASSUME json # Nil, json.kind = "string"  PROVE DecodeASNumber(json) = ASNumberFromString(json.text)
  BY <1>2 DEF DecodeASNumber, UnmarshalJSON
<1>3. ASSUME json # Nil, json.kind = "integer"  PROVE DecodeASNumber(json) = json.number
  BY <1>3 DEF DecodeASNumber, UnmarshalJSON, ParseUint
<1>4. ASSUME json # Nil, json.kind = "null"  PROVE DecodeASNumber(json) = 0
  BY <1>4 DEF DecodeASNumber, UnmarshalJSON
<1>5. json # Nil => json.kind \in {"integer", "string", "null"}
  BY DEF DecodeASNumber, UnmarshalJSON
<1>6. json = Nil => DecodeASNumber(json) = 0
  BY DEF DecodeASNumber
<1> QED  BY <1>1, <1>2, <1>3, <1>4, <1>5, <1>6 DEF ToUint32, Meaning

\* The rules of a direction that the chart accepts are the written ones.
LEMMA RulesDelivered ==
    ASSUME NEW rules \in Given(Seq(RawBGPFilterRules)),
           ProcessFilters(Each(DecodeBGPFilterRule, rules)) # Refused
    PROVE  LET values == ProcessFilters(Each(DecodeBGPFilterRule, rules))
           IN  /\ Len(values) = Len(Elements(rules))
               /\ \A j \in 1..Len(Elements(rules)) : SameRule(values[j], Elements(rules)[j])
<1> DEFINE decoded == Each(DecodeBGPFilterRule, rules)
           values  == ProcessFilters(decoded)
<1>1. /\ Nil \notin Seq(BGPFilterRules) /\ Nil \notin Seq(CIDRs)
      /\ <<>> # Nil
  <2>1. Nil \notin Seq(BGPFilterRules) /\ Nil \notin Seq(CIDRs)
    BY NilAssumption DEF NilAssumption
  <2>2. <<>> \in Seq(BGPFilterRules)
    OBVIOUS
  <2> QED  BY <2>1, <2>2
<1>2. /\ AddressPools(Each(LAMBDA rule : rule.cidr, decoded))
      /\ values = Each(RuleValues, Elements(decoded))
  BY DEF ProcessFilters
<1>3. CASE rules = Nil
  <2>1. decoded = Nil
    BY <1>3 DEF Each
  <2>2. values = [i \in 1..Len(<<>>) |-> RuleValues(<<>>[i])]
    BY <1>1, <1>2, <2>1 DEF Elements, Each
  <2>3. Len(values) = 0
    BY <2>2
  <2> QED  BY <1>3, <2>3 DEF Elements
<1>4. CASE rules # Nil
  <2>1. rules \in Seq(RawBGPFilterRules)
    BY <1>4 DEF Given
  <2>2. decoded = [i \in 1..Len(rules) |-> DecodeBGPFilterRule(rules[i])]
    BY <1>4 DEF Each
  <2>3. decoded \in Seq(BGPFilterRules) /\ Len(decoded) = Len(rules) /\ decoded # Nil
    <3>1. \A i \in 1..Len(rules) : DecodeBGPFilterRule(rules[i]) \in BGPFilterRules
      BY <2>1, RuleType
    <3>2. decoded \in Seq(BGPFilterRules) /\ Len(decoded) = Len(rules)
      BY <2>1, <2>2, <3>1
    <3> QED  BY <1>1, <3>2
  <2> HIDE DEF decoded
  <2> DEFINE cidrs == [i \in 1..Len(decoded) |-> decoded[i].cidr]
  <2>4. Each(LAMBDA rule : rule.cidr, decoded) = cidrs
    BY <2>3 DEF Each
  <2>5. cidrs \in Seq(CIDRs) /\ Len(cidrs) = Len(rules) /\ cidrs # Nil
    <3>1. \A i \in 1..Len(decoded) : decoded[i].cidr \in CIDRs
      <4>1. \A i \in 1..Len(decoded) : decoded[i] \in BGPFilterRules
        BY <2>3
      <4>2. \A rule \in BGPFilterRules : rule.cidr \in CIDRs
        BY DEF BGPFilterRules
      <4> QED  BY <4>1, <4>2
    <3>2. cidrs \in Seq(CIDRs) /\ Len(cidrs) = Len(decoded)
      BY <2>3, <3>1
    <3> QED  BY <1>1, <2>3, <3>2
  <2>6. \A i \in 1..Len(rules) : ParseAddressPool(decoded[i].cidr) # Refused
    <3>1. AddressPools(cidrs)
      BY <1>2, <2>4
    <3>2. \A i \in 1..Len(cidrs) : ParseAddressPool(cidrs[i]) # Refused
      BY <2>5, <3>1 DEF AddressPools
    <3> QED  BY <2>3, <2>5, <3>2
  <2>7. values = [i \in 1..Len(rules) |-> RuleValues(decoded[i])]
    BY <1>2, <2>3 DEF Elements, Each
  <2>8. Len(values) = Len(rules)
    BY <2>1, <2>7
  <2>9. ASSUME NEW j \in 1..Len(rules)  PROVE SameRule(values[j], rules[j])
    <3> DEFINE rule == rules[j]
    <3>1. values[j] = RuleValues(DecodeBGPFilterRule(rule))
      BY <2>2, <2>7, <2>9
    <3>2. ParseAddressPool(OrZero(rule.cidr, NoCIDR)) # Refused
      BY <2>2, <2>6, <2>9 DEF DecodeBGPFilterRule
    <3>3. rule.cidr # Nil
      BY <3>2 DEF OrZero, NoCIDR, ParseAddressPool
    <3> HIDE DEF rule
    <3>4. SameRule(RuleValues(DecodeBGPFilterRule(rule)), rule)
      BY <3>3 DEF SameRule, RuleValues, DecodeBGPFilterRule, OrZero
    <3> QED  BY <3>1, <3>4 DEF rule
  <2> QED  BY <1>4, <2>8, <2>9 DEF Elements, decoded
<1> QED  BY <1>3, <1>4

\* What the chart in the shoot has of the BGP configuration of a document: it is
\* made from the decoded one, and without an error.
LEMMA BgpValues ==
    ASSUME NEW raw \in Given(RawControlPlaneConfigs), NEW of,
           ToConfig(raw) # Refused, ShootChartValues(of, ToConfig(raw)) # Refused,
           WrittenBgp(raw) # Nil, Calico(of)
    PROVE  LET bgp     == WrittenBgp(raw)
               decoded == DecodeCalicoBgpConfig(bgp)
               values  == ShootChartValues(of, ToConfig(raw)).calicoBgp
           IN  /\ bgp \in RawCalicoBgpConfigs /\ decoded \in CalicoBgpConfigs
               /\ DecodeASNumber(bgp.asNumber) # Invalid
               /\ bgp.bgpPeer # Nil =>
                     \A i \in 1..Len(bgp.bgpPeer) : DecodeASNumber(bgp.bgpPeer[i].asNumber) # Invalid
               /\ values.asNumber = ToUint32(decoded.asNumber)
               /\ values.bgpPeer = Each(PeerValues, Elements(decoded.bgpPeer))
               /\ values.bgpFilter = Each(FilterValues, Elements(decoded.bgpFilter))
               /\ \A i \in DOMAIN Elements(decoded.bgpFilter) : ValidFilter(decoded.bgpFilter[i])
<1> DEFINE bgp     == WrittenBgp(raw)
           decoded == DecodeCalicoBgpConfig(bgp)
           config  == ToConfig(raw)
<1>1. /\ raw \in RawControlPlaneConfigs /\ raw.loadBalancerConfig # Nil
      /\ raw.loadBalancerConfig.calicoConfig # Nil
      /\ bgp = raw.loadBalancerConfig.calicoConfig.calicoBgpConfig /\ bgp # Nil
  BY DEF WrittenBgp, Given
<1>2. raw # Nil /\ config = DecodeControlPlaneConfig(raw, TRUE)
  BY DEF WrittenBgp, ToConfig
<1>3. NumbersValid(raw)
  BY <1>2 DEF DecodeControlPlaneConfig, NumbersValid
<1>4. /\ bgp \in RawCalicoBgpConfigs /\ decoded \in CalicoBgpConfigs
      /\ DecodeASNumber(bgp.asNumber) # Invalid
      /\ bgp.bgpPeer # Nil =>
            \A i \in 1..Len(bgp.bgpPeer) : DecodeASNumber(bgp.bgpPeer[i].asNumber) # Invalid
  <2> HIDE DEF decoded, config
  <2> QED  BY <1>1, <1>3, WrittenBgpType DEF decoded
<1>5. /\ config.loadBalancerConfig # Nil /\ config.loadBalancerConfig.calicoConfig # Nil
      /\ config.loadBalancerConfig.calicoConfig.calicoBgpConfig = decoded /\ decoded # Nil
  BY <1>1, <1>2, BgpDecoded
<1> HIDE DEF bgp, decoded, config
<1>6. LoadBalancerOf(config, "calicoConfig") = config.loadBalancerConfig.calicoConfig
  BY <1>5 DEF LoadBalancerOf
<1>7. /\ CalicoBgpChartValues(config, of) # Refused
      /\ ShootChartValues(of, config).calicoBgp = CalicoBgpChartValues(config, of)
  BY DEF ShootChartValues, OrRefused, config
<1>8. /\ CalicoBgpChartValues(config, of) =
              [enabled |-> TRUE,
               asNumber |-> ToUint32(decoded.asNumber),
               nodeToNodeMeshEnabled |-> decoded.nodeToNodeMeshEnabled,
               services |-> [ips \in ServiceIPs |-> Elements(decoded[ips])],
               bgpPeer |-> Each(PeerValues, Elements(decoded.bgpPeer)),
               bgpFilter |-> Each(FilterValues, Elements(decoded.bgpFilter))]
      /\ \A i \in DOMAIN Elements(decoded.bgpFilter) : ValidFilter(decoded.bgpFilter[i])
  BY <1>5, <1>6, <1>7 DEF CalicoBgpChartValues
<1> QED  BY <1>4, <1>7, <1>8 DEF bgp, decoded, config

Directions == {"exportV4", "importV4", "exportV6", "importV6"}

\* The rules of a filter that the chart accepts are the written ones, each in
\* its direction.
LEMMA FilterDelivered ==
    ASSUME NEW filter \in RawBGPFilters, ValidFilter(DecodeBGPFilter(filter)), NEW d \in Directions
    PROVE  LET values == FilterValues(DecodeBGPFilter(filter))[d]
               rules  == Elements(filter[d])
           IN  /\ Len(values) = Len(rules)
               /\ \A j \in 1..Len(rules) : SameRule(values[j], rules[j])
<1>1. filter[d] \in Given(Seq(RawBGPFilterRules))
  BY DEF RawBGPFilters, Directions
<1>2. DecodeBGPFilter(filter)[d] = Each(DecodeBGPFilterRule, filter[d])
  <2>1. /\ DecodeBGPFilter(filter).exportV4 = Each(DecodeBGPFilterRule, filter.exportV4)
        /\ DecodeBGPFilter(filter).importV4 = Each(DecodeBGPFilterRule, filter.importV4)
        /\ DecodeBGPFilter(filter).exportV6 = Each(DecodeBGPFilterRule, filter.exportV6)
        /\ DecodeBGPFilter(filter).importV6 = Each(DecodeBGPFilterRule, filter.importV6)
    BY DEF DecodeBGPFilter
  <2>2. CASE d = "exportV4"
    BY <2>1, <2>2
  <2>3. CASE d = "importV4"
    BY <2>1, <2>3
  <2>4. CASE d = "exportV6"
    BY <2>1, <2>4
  <2>5. CASE d = "importV6"
    BY <2>1, <2>5
  <2> QED  BY <2>2, <2>3, <2>4, <2>5 DEF Directions
<1>3. FilterValues(DecodeBGPFilter(filter))[d] = ProcessFilters(DecodeBGPFilter(filter)[d])
  BY DEF FilterValues, Directions
<1>4. ProcessFilters(DecodeBGPFilter(filter)[d]) # Refused
  BY DEF ValidFilter, Directions
<1> QED  BY <1>1, <1>2, <1>3, <1>4, RulesDelivered

\* All filters arrive, and all peers.
LEMMA FiltersDelivered ==
    ASSUME NEW written \in Given(Seq(RawBGPFilters)),
           \A i \in DOMAIN Elements(Each(DecodeBGPFilter, written)) :
              ValidFilter(Each(DecodeBGPFilter, written)[i])
    PROVE  LET delivered == Each(FilterValues, Elements(Each(DecodeBGPFilter, written)))
           IN  /\ Len(delivered) = Len(Elements(written))
               /\ \A i \in 1..Len(Elements(written)), d \in Directions :
                     LET rules == Elements(Elements(written)[i][d])
                     IN  /\ Len(delivered[i][d]) = Len(rules)
                         /\ \A j \in 1..Len(rules) : SameRule(delivered[i][d][j], rules[j])
<1> DEFINE decoded   == Each(DecodeBGPFilter, written)
           delivered == Each(FilterValues, Elements(decoded))
<1>1. Nil \notin Seq(BGPFilters) /\ <<>> # Nil
  <2>1. Nil \notin Seq(BGPFilters)
    BY NilAssumption DEF NilAssumption
  <2>2. <<>> \in Seq(BGPFilters)
    OBVIOUS
  <2> QED  BY <2>1, <2>2
<1>2. CASE written = Nil
  <2>1. delivered = [i \in 1..Len(<<>>) |-> FilterValues(<<>>[i])]
    BY <1>1, <1>2 DEF Each, Elements
  <2>2. Len(delivered) = 0
    BY <2>1
  <2> QED  BY <1>2, <2>2 DEF Elements
<1>3. CASE written # Nil
  <2>1. written \in Seq(RawBGPFilters)
    BY <1>3 DEF Given
  <2>2. decoded = [i \in 1..Len(written) |-> DecodeBGPFilter(written[i])]
    BY <1>3 DEF Each
  <2>3. decoded # Nil
    <3>1. \A i \in 1..Len(written) : DecodeBGPFilter(written[i]) \in BGPFilters
      BY <2>1, FilterType
    <3>2. decoded \in Seq(BGPFilters)
      BY <2>1, <2>2, <3>1
    <3> QED  BY <1>1, <3>2
  <2>4. DOMAIN decoded = 1..Len(written) /\ Len(decoded) = Len(written)
    BY <2>1, <2>2
  <2>5. delivered = [i \in 1..Len(written) |-> FilterValues(decoded[i])]
    BY <2>3, <2>4 DEF Elements, Each
  <2>6. Len(delivered) = Len(written)
    BY <2>1, <2>5
  <2>7. ASSUME NEW i \in 1..Len(written), NEW d \in Directions
        PROVE  LET rules == Elements(written[i][d])
               IN  /\ Len(delivered[i][d]) = Len(rules)
                   /\ \A j \in 1..Len(rules) : SameRule(delivered[i][d][j], rules[j])
    <3>1. written[i] \in RawBGPFilters
      BY <2>1
    <3>2. decoded[i] = DecodeBGPFilter(written[i]) /\ delivered[i] = FilterValues(decoded[i])
      BY <2>2, <2>5
    <3>3. ValidFilter(DecodeBGPFilter(written[i]))
      BY <2>3, <2>4, <3>2 DEF Elements
    <3> HIDE DEF decoded, delivered
    <3> QED  BY <3>1, <3>2, <3>3, FilterDelivered
  <2> QED  BY <1>3, <2>6, <2>7 DEF Elements
<1> QED  BY <1>2, <1>3

LEMMA PeersDelivered ==
    ASSUME NEW written \in Given(Seq(RawBgpPeers)),
           written # Nil => \A i \in 1..Len(written) : DecodeASNumber(written[i].asNumber) # Invalid
    PROVE  \A i \in 1..Len(Elements(written)) :
              Each(PeerValues, Elements(Each(DecodeBgpPeer, written)))[i].asNumber
                  = Meaning(Elements(written)[i].asNumber)
<1> DEFINE decoded   == Each(DecodeBgpPeer, written)
           delivered == Each(PeerValues, Elements(decoded))
<1>1. CASE written = Nil
  BY <1>1 DEF Elements
<1>2. CASE written # Nil
  <2>1. written \in Seq(RawBgpPeers)
    BY <1>2 DEF Given
  <2>2. decoded = [i \in 1..Len(written) |-> DecodeBgpPeer(written[i])]
    BY <1>2 DEF Each
  <2>3. decoded # Nil
    <3>1. Nil \notin Seq(BgpPeers)
      BY NilAssumption DEF NilAssumption
    <3>2. \A i \in 1..Len(written) : DecodeASNumber(written[i].asNumber) # Invalid
      BY <1>2
    <3>3. ASSUME NEW i \in 1..Len(written)  PROVE DecodeBgpPeer(written[i]) \in BgpPeers
      BY <2>1, <3>2, PeerType
    <3>4. decoded \in Seq(BgpPeers)
      BY <2>1, <2>2, <3>3
    <3> QED  BY <3>1, <3>4
  <2>4. Len(decoded) = Len(written)
    BY <2>1, <2>2
  <2>5. delivered = [i \in 1..Len(written) |-> PeerValues(decoded[i])]
    BY <2>3, <2>4 DEF Elements, Each
  <2>6. ASSUME NEW i \in 1..Len(written)
        PROVE  delivered[i].asNumber = Meaning(written[i].asNumber)
    <3>1. written[i] \in RawBgpPeers
      BY <2>1
    <3>2. written[i].asNumber \in Given(JSONValues)
      BY <3>1 DEF RawBgpPeers
    <3>3. delivered[i].asNumber = ToUint32(DecodeASNumber(written[i].asNumber))
      <4>1. delivered[i] = PeerValues(DecodeBgpPeer(written[i]))
        BY <2>2, <2>5
      <4>2. \A peer : PeerValues(peer).asNumber = ToUint32(peer.asNumber)
        BY DEF PeerValues
      <4>3. DecodeBgpPeer(written[i]).asNumber = DecodeASNumber(written[i].asNumber)
        BY DEF DecodeBgpPeer
      <4> HIDE DEF delivered
      <4> QED  BY <4>1, <4>2, <4>3
    <3>4. DecodeASNumber(written[i].asNumber) # Invalid
      BY <1>2
    <3> QED  BY <3>2, <3>3, <3>4, NumberMeant
  <2> QED  BY <1>2, <2>6 DEF Elements
<1> QED  BY <1>1, <1>2

\* The chart in the shoot was made from what `applied` has read, without an
\* error, and only from control plane configs.
ConfigOf(config) == config \in Given(RawControlPlaneConfigs)

AppliedInv ==
    /\ shoot \in Shoots
    /\ watched = "controlplane" => ConfigOf(resource)
    /\ step \in {"config", "checksums", "controlplane", "shoot"} =>
          watched = "controlplane" /\ ConfigOf(run.config)
    /\ applied # Nil =>
          /\ ConfigOf(applied.config) /\ ToConfig(applied.config) # Refused
          /\ shootChart = ShootChartValues(ClusterOf(applied.cluster), ToConfig(applied.config))
          /\ shootChart # Refused

LEMMA NextApplied ==
    ASSUME AppliedInv, [Next]_vars
    PROVE  AppliedInv'
<1>1. \A s \in Shoots : watched = "controlplane" => ConfigOf(ResourceOf(s))
  BY ReconciliationAssumption DEF ReconciliationAssumption, ResourceOf, ConfigOf
<1>2. CASE UNCHANGED <<watched, resource, step, run, applied, shootChart>> /\ shoot' \in Shoots
  BY <1>2 DEF AppliedInv, ConfigOf
<1>3. CASE DeployResource
  BY <1>1, <1>3 DEF DeployResource, AppliedInv, ConfigOf, gardenVars, chartVars
<1>4. CASE StartReconcile
  BY <1>4 DEF StartReconcile, AppliedInv, ConfigOf, gardenVars, chartVars
<1>5. CASE ApplyConfigChart
  BY <1>5 DEF ApplyConfigChart, Then, AppliedInv, ConfigOf, gardenVars
<1>6. CASE ComputeChecksums
  BY <1>6 DEF ComputeChecksums, Then, AppliedInv, ConfigOf, gardenVars, chartVars
<1>7. CASE ApplyControlPlaneChart
  BY <1>7 DEF ApplyControlPlaneChart, Then, AppliedInv, ConfigOf, gardenVars
<1>8. CASE ApplyShootChart
  <2> DEFINE config == ToConfig(run.config)
             chart  == ShootChartValues(ClusterOf(run.cluster), config)
             values == OrRefused({config}, chart)
  <2>1. UNCHANGED <<shoot, watched, resource>> /\ step' = "idle" /\ ConfigOf(run.config)
    BY <1>8 DEF ApplyShootChart, Then, gardenVars, AppliedInv
  <2>2. \/ shootChart' = shootChart /\ applied' = applied
        \/ values # Refused /\ shootChart' = values /\ applied' = run
    BY <1>8 DEF ApplyShootChart
  <2>3. values # Refused => config # Refused /\ values = chart
    BY DEF OrRefused
  <2> HIDE DEF chart, config, values
  <2> QED  BY <2>1, <2>2, <2>3 DEF AppliedInv, ConfigOf, ClusterOf, chart, config
<1>9. CASE Abort \/ StartWorker \/ GenerateClass
  BY <1>9 DEF Abort, StartWorker, GenerateClass, AppliedInv, ConfigOf, gardenVars, chartVars
<1>10. \/ DeployResource \/ StartReconcile \/ ApplyConfigChart \/ ComputeChecksums
       \/ ApplyControlPlaneChart \/ ApplyShootChart \/ Abort \/ StartWorker \/ GenerateClass
       \/ UNCHANGED <<watched, resource, step, run, applied, shootChart>> /\ shoot' \in Shoots
  BY DEF Next, vars, chartVars, gardenVars, AppliedInv, Edit, EditSecret, SyncCluster,
         DeployReferences, SyncConfigMap, ReportNetworks, WriteObject, RewriteObject, Write
<1> QED  BY <1>2, <1>3, <1>4, <1>5, <1>6, <1>7, <1>8, <1>9, <1>10

LEMMA AppliedAlways == Spec => []AppliedInv
<1>1. Init => AppliedInv
  BY ReconciliationAssumption
     DEF ReconciliationAssumption, Init, AppliedInv, ResourceOf, ConfigOf
<1> QED  BY <1>1, NextApplied, PTL DEF Spec

\* The chart has the BGP configuration of the document it was made from.
LEMMA AppliedValues ==
    ASSUME AppliedInv, BgpApplied(AppliedBgp)
    PROVE  LET bgp     == AppliedBgp
               decoded == DecodeCalicoBgpConfig(bgp)
               values  == shootChart.calicoBgp
           IN  /\ bgp \in RawCalicoBgpConfigs
               /\ DecodeASNumber(bgp.asNumber) # Invalid
               /\ bgp.bgpPeer # Nil =>
                     \A i \in 1..Len(bgp.bgpPeer) : DecodeASNumber(bgp.bgpPeer[i].asNumber) # Invalid
               /\ values.asNumber = ToUint32(decoded.asNumber)
               /\ values.bgpPeer = Each(PeerValues, Elements(decoded.bgpPeer))
               /\ values.bgpFilter = Each(FilterValues, Elements(decoded.bgpFilter))
               /\ \A i \in DOMAIN Elements(decoded.bgpFilter) : ValidFilter(decoded.bgpFilter[i])
<1> DEFINE of == ClusterOf(applied.cluster)
<1>1. applied # Nil /\ AppliedBgp = WrittenBgp(applied.config) /\ WrittenBgp(applied.config) # Nil
  BY DEF BgpApplied, AppliedBgp
<1>2. Calico(of)
  BY DEF BgpApplied, Calico, ClusterOf
<1>3. /\ applied.config \in Given(RawControlPlaneConfigs) /\ ToConfig(applied.config) # Refused
      /\ shootChart = ShootChartValues(of, ToConfig(applied.config)) /\ shootChart # Refused
  BY <1>1 DEF AppliedInv, ConfigOf
<1> HIDE DEF of
<1> QED  BY <1>1, <1>2, <1>3, BgpValues

\* No document, however it is written and with whatever else it was edited or
\* applied, makes a number of the chart another than the user wrote.
THEOREM NumbersAlwaysDelivered == Spec => []NumbersDelivered
<1>1. ASSUME AppliedInv, BgpApplied(AppliedBgp)
      PROVE  /\ shootChart.calicoBgp.asNumber = Meaning(AppliedBgp.asNumber)
             /\ \A i \in 1..Len(Elements(AppliedBgp.bgpPeer)) :
                   shootChart.calicoBgp.bgpPeer[i].asNumber = Meaning(Elements(AppliedBgp.bgpPeer)[i].asNumber)
  <2> DEFINE bgp == AppliedBgp
  <2>1. bgp.asNumber \in Given(JSONValues) /\ bgp.bgpPeer \in Given(Seq(RawBgpPeers))
    BY <1>1, AppliedValues DEF RawCalicoBgpConfigs
  <2>2. /\ DecodeCalicoBgpConfig(bgp).asNumber = DecodeASNumber(bgp.asNumber)
        /\ DecodeCalicoBgpConfig(bgp).bgpPeer = Each(DecodeBgpPeer, bgp.bgpPeer)
    BY DEF DecodeCalicoBgpConfig
  <2>3. shootChart.calicoBgp.asNumber = Meaning(bgp.asNumber)
    BY <1>1, <2>1, <2>2, AppliedValues, NumberMeant
  <2>4. shootChart.calicoBgp.bgpPeer = Each(PeerValues, Elements(Each(DecodeBgpPeer, bgp.bgpPeer)))
    BY <1>1, <2>2, AppliedValues
  <2>5. bgp.bgpPeer # Nil =>
            \A i \in 1..Len(bgp.bgpPeer) : DecodeASNumber(bgp.bgpPeer[i].asNumber) # Invalid
    BY <1>1, AppliedValues
  <2> HIDE DEF bgp
  <2> QED  BY <2>1, <2>3, <2>4, <2>5, PeersDelivered DEF bgp
<1>2. AppliedInv => NumbersDelivered
  BY <1>1 DEF NumbersDelivered, Elements
<1> QED  BY <1>2, AppliedAlways, PTL

\* Nor does any make the shoot take or give away routes by other rules.
THEOREM RoutesAlwaysDelivered == Spec => []RoutesDelivered
<1>1. ASSUME AppliedInv, BgpApplied(AppliedBgp)
      PROVE  LET written   == Elements(AppliedBgp.bgpFilter)
                 delivered == shootChart.calicoBgp.bgpFilter
             IN  /\ Len(delivered) = Len(written)
                 /\ \A i \in 1..Len(written), d \in Directions :
                       LET rules == Elements(written[i][d])
                       IN  /\ Len(delivered[i][d]) = Len(rules)
                           /\ \A j \in 1..Len(rules) : SameRule(delivered[i][d][j], rules[j])
  <2> DEFINE bgp == AppliedBgp
             decoded == Each(DecodeBGPFilter, bgp.bgpFilter)
  <2>1. bgp.bgpFilter \in Given(Seq(RawBGPFilters))
    BY <1>1, AppliedValues DEF RawCalicoBgpConfigs
  <2>2. DecodeCalicoBgpConfig(bgp).bgpFilter = decoded
    BY DEF DecodeCalicoBgpConfig
  <2>3. /\ shootChart.calicoBgp.bgpFilter = Each(FilterValues, Elements(decoded))
        /\ \A i \in DOMAIN Elements(decoded) : ValidFilter(decoded[i])
    <3> HIDE DEF decoded
    <3> QED  BY <1>1, <2>2, AppliedValues
  <2> HIDE DEF bgp
  <2> QED  BY <2>1, <2>3, FiltersDelivered DEF bgp
<1>2. AppliedInv => RoutesDelivered
  BY <1>1 DEF RoutesDelivered, Directions
<1> QED  BY <1>2, AppliedAlways, PTL

-----------------------------------------------------------------------------
(* The ignition of the classes *)

\* The first of some positions of a sequence.
LEMMA FirstPosition ==
    ASSUME NEW T, T \subseteq Nat, T # {}
    PROVE  Min(T) \in T
<1> DEFINE Below == {pair \in Nat \X Nat : pair[1] < pair[2]}
<1>1. IsWellFoundedOn(Below, Nat)
  BY NatLessThanWellFounded DEF OpToRel
<1>2. PICK n \in T : \A m \in T : <<m, n>> \notin Below
  <2> HIDE DEF Below
  <2> QED  BY <1>1, WFMin
<1>3. ASSUME NEW m \in T  PROVE n <= m
  BY <1>2, <<m, n>> \in Nat \X Nat
<1> QED  BY <1>2, <1>3 DEF Min

\* What is found among references is an object.
LEMMA ReferencedObject ==
    ASSUME NEW resources \in Seq(ResourceReferences), NEW refname,
           LookupReferencedSecret(resources, refname) # Refused
    PROVE  LookupReferencedSecret(resources, refname) \in Objects
<1> DEFINE I == {i \in 1..Len(resources) : resources[i].name = refname}
           at == SelectInSeq(resources, LAMBDA ref : ref.name = refname)
<1>1. at = IF I # {} THEN Min(I) ELSE 0
  BY DEF SelectInSeq
<1>2. LookupReferencedSecret(resources, refname) = resources[at].object /\ at # 0
  BY DEF LookupReferencedSecret
<1>3. I \subseteq 1..Len(resources) /\ I \subseteq Nat
  OBVIOUS
<1> HIDE DEF I, at
<1>4. at \in 1..Len(resources)
  BY <1>1, <1>2, <1>3, FirstPosition
<1>5. resources[at] \in ResourceReferences
  BY <1>4
<1> QED  BY <1>2, <1>5 DEF ResourceReferences

\* Merged documents have the files of both.
LEMMA MergedFiles ==
    ASSUME NEW own \in Documents, NEW secret \in Documents
    PROVE  Elements(MergeDocuments(own, secret).files) = Elements(own.files) \o Elements(secret.files)
<1>1. /\ own.files \in Given(Seq(Strings)) /\ secret.files \in Given(Seq(Strings))
      /\ Nil \notin Seq(Strings)
  <2>1. own.files \in Given(Seq(Strings)) /\ secret.files \in Given(Seq(Strings))
    BY DEF Documents
  <2>2. Nil \notin Seq(Strings)
    BY NilAssumption DEF NilAssumption
  <2> QED  BY <2>1, <2>2
<1>2. MergeDocuments(own, secret).files =
          IF own.files = Nil THEN secret.files ELSE own.files \o Elements(secret.files)
  BY DEF MergeDocuments, Elements
<1>3. Elements(secret.files) \in Seq(Strings)
  BY <1>1 DEF Elements, Given
<1>4. CASE own.files = Nil
  BY <1>2, <1>3, <1>4 DEF Elements
<1>5. CASE own.files # Nil
  <2>1. own.files \in Seq(Strings)
    BY <1>1, <1>5 DEF Given
  <2>2. own.files \o Elements(secret.files) \in Seq(Strings)
    BY <1>3, <2>1
  <2> QED  BY <1>1, <1>2, <1>5, <2>2 DEF Elements
<1> QED  BY <1>4, <1>5

\* What the worker controller works with.
WorkerInv ==
    /\ shoot \in Shoots /\ cluster \in Shoots
    /\ garden \in [Objects -> Contents]
    /\ copies \in [Objects -> Given(Contents)]
    /\ watched = "worker" => resource \in Given(WorkerConfigs)
    /\ step = "class" => run.config \in Given(WorkerConfigs) /\ run.cluster \in Shoots

LEMMA NextWorker ==
    ASSUME WorkerInv, [Next]_vars
    PROVE  WorkerInv'
<1>1. \A s \in Shoots : watched = "worker" => ResourceOf(s) \in Given(WorkerConfigs)
  BY ReconciliationAssumption DEF ReconciliationAssumption, ResourceOf
<1>2. CASE DeployResource
  BY <1>1, <1>2 DEF DeployResource, WorkerInv, gardenVars
<1>3. CASE DeployReferences
  <2>1. Referenced(shoot) \in [Objects -> Given(Contents)]
    BY DEF Referenced, WorkerInv, Given
  <2> QED  BY <1>3, <2>1 DEF DeployReferences, WorkerInv, gardenVars
<1>4. CASE StartWorker
  BY <1>4 DEF StartWorker, WorkerInv, gardenVars
<1>5. CASE \E o \in Objects : \E content \in Contents \ {garden[o]} : EditSecret(o, content)
  BY <1>5 DEF EditSecret, WorkerInv
<1>6. CASE \E new \in Shoots \ {shoot} : Edit(new)
  BY <1>6 DEF Edit, WorkerInv
<1>7. CASE SyncCluster
  BY <1>7 DEF SyncCluster, WorkerInv, gardenVars
<1>8. CASE UNCHANGED <<gardenVars, watched, cluster, resource, copies>> /\ step' # "class"
  BY <1>8 DEF WorkerInv, gardenVars
<1>9. CASE UNCHANGED <<gardenVars, watched, cluster, resource, copies, step, run>>
  BY <1>9 DEF WorkerInv, gardenVars
<1>10. \/ DeployResource \/ DeployReferences \/ StartWorker \/ SyncCluster
       \/ \E o \in Objects : \E content \in Contents \ {garden[o]} : EditSecret(o, content)
       \/ \E new \in Shoots \ {shoot} : Edit(new)
       \/ UNCHANGED <<gardenVars, watched, cluster, resource, copies>> /\ step' # "class"
       \/ UNCHANGED <<gardenVars, watched, cluster, resource, copies, step, run>>
  BY DEF Next, vars, StartReconcile, ApplyConfigChart, ComputeChecksums, ApplyControlPlaneChart,
         ApplyShootChart, Then, Abort, SyncConfigMap, ReportNetworks, GenerateClass, WriteObject,
         RewriteObject, Write
<1> QED  BY <1>2, <1>3, <1>4, <1>5, <1>6, <1>7, <1>8, <1>9, <1>10

\* A class that is given another ignition has its pool's own files, and with a
\* reference those of a secret's document behind them, for any documents and
\* secrets and whatever was copied, edited or removed in between.
THEOREM IgnitionAlwaysWhole == Spec => IgnitionWhole
<1> DEFINE Whole ==
        ignition' \notin {ignition, Nil} =>
            LET config == run.config.extraIgnition
                own    == Elements(OrZero(config.raw, EmptyDocument).files)
            IN  config.secretRef \in {Nil, ""} \/
                \E content \in Contents :
                    /\ content.ignition \in Documents
                    /\ Elements(ignition'.document.files) = own \o Elements(content.ignition.files)
<1>1. Init => WorkerInv
  BY ReconciliationAssumption
     DEF ReconciliationAssumption, Init, WorkerInv, ResourceOf, Given
<1>2. ASSUME WorkerInv, GenerateClass, ignition' \notin {ignition, Nil},
             run.config.extraIgnition.secretRef \notin {Nil, ""}
      PROVE  \E content \in Contents :
                /\ content.ignition \in Documents
                /\ Elements(ignition'.document.files) =
                       Elements(OrZero(run.config.extraIgnition.raw, EmptyDocument).files)
                           \o Elements(content.ignition.files)
  <2> DEFINE config    == run.config.extraIgnition
             resources == run.cluster.resources
             raw       == OrZero(config.raw, EmptyDocument)
             object1   == LookupReferencedSecret(resources, config.secretRef)
             merged    == MergeIgnitionConfig(config, resources, copies)
  <2>1. /\ run.config \in Given(WorkerConfigs) /\ resources \in Seq(ResourceReferences)
        /\ copies \in [Objects -> Given(Contents)] /\ Contents \subseteq Secrets
    BY <1>2, ReconciliationAssumption DEF ReconciliationAssumption, GenerateClass, WorkerInv
  <2>2. /\ ignition' = ClassIgnition(run.config, resources, copies)
        /\ ClassIgnition(run.config, resources, copies) \notin {Refused, Nil}
    BY <1>2 DEF GenerateClass
  <2>3. run.config # Nil /\ config # Nil /\ DecodeWorkerConfig(run.config) = run.config
    BY <2>2 DEF ClassIgnition, DecodeWorkerConfig
  <2>4. merged # Refused /\ ignition'.document = merged
    BY <2>2, <2>3 DEF ClassIgnition
  <2>5. config \in IgnitionConfigs
    BY <2>1, <2>3 DEF Given, WorkerConfigs
  <2>6. raw # Malformed /\ object1 # Refused /\ copies[object1] # Nil
        /\ copies[object1].ignition \notin {Nil, Malformed}
        /\ merged = MergeDocuments(raw, copies[object1].ignition)
    BY <1>2, <2>4 DEF MergeIgnitionConfig
  <2>7. raw \in Documents
    <3>1. EmptyDocument \in Documents
      BY DEF EmptyDocument, Documents, Given
    <3> QED  BY <2>5, <2>6, <3>1 DEF IgnitionConfigs, OrZero, Given
  <2>8. object1 \in Objects
    BY <2>1, <2>6, ReferencedObject
  <2>9. copies[object1] \in Contents
    BY <2>1, <2>6, <2>8 DEF Given
  <2>10. copies[object1].ignition \in Documents
    BY <2>1, <2>6, <2>9 DEF Secrets, Given
  <2> HIDE DEF config, resources, raw, object1, merged
  <2>11. Elements(merged.files) = Elements(raw.files) \o Elements(copies[object1].ignition.files)
    BY <2>6, <2>7, <2>10, MergedFiles
  <2> QED  BY <2>4, <2>9, <2>10, <2>11 DEF raw, config
<1>3. WorkerInv /\ [Next]_vars => Whole
  <2>1. [Next]_vars => GenerateClass \/ ignition' = ignition
    BY DEF Next, vars, Edit, EditSecret, SyncCluster, DeployResource, DeployReferences, StartReconcile,
           ApplyConfigChart, SyncConfigMap, ComputeChecksums, ApplyControlPlaneChart, ApplyShootChart,
           Abort, ReportNetworks, StartWorker, WriteObject, RewriteObject, Write
  <2> QED  BY <1>2, <2>1
<1>4. WorkerInv /\ [Next]_vars => [Whole]_vars /\ WorkerInv'
  BY <1>3, NextWorker
<1>5. [][Whole]_vars <=> IgnitionWhole
  BY PTL DEF IgnitionWhole
<1> HIDE DEF Whole
<1> QED  BY <1>1, <1>4, <1>5, PTL DEF Spec

-----------------------------------------------------------------------------
(* Types *)

\* The admission answers.
LEMMA AnswerType ==
    ASSUME NEW validator, NEW old, NEW new, NEW profiled
    PROVE  ValidateShoot(validator, old, new, profiled) \in {Allowed, Refused, Panic}
  BY DEF ValidateShoot, ValidateCreate, ValidateUpdate, Verdict

\* What is in the resource of the watched part.
LEMMA ResourceType ==
    ASSUME watched \in Watched, NEW s \in Shoots
    PROVE  ResourceOf(s) \in Given(ConfigsOf(watched))
<1>1. watched \in {"controlplane", "infrastructure", "worker"} \cup Components
  BY ReconciliationAssumption DEF ReconciliationAssumption, Parts
<1>2. /\ s.controlPlane \in Given(RawControlPlaneConfigs)
      /\ s.infrastructure \in Given(RawInfrastructureConfigs)
      /\ s.workers[1].config \in Given(WorkerConfigs)
  BY ReconciliationAssumption DEF ReconciliationAssumption
<1>3. CASE watched \in Components
  BY <1>3 DEF Components, ResourceOf, ConfigsOf, Given
<1>4. CASE watched = "controlplane"
  <2>1. ResourceOf(s) = s.controlPlane /\ ConfigsOf(watched) = RawControlPlaneConfigs
    BY <1>4 DEF ResourceOf, ConfigsOf
  <2> QED  BY <1>2, <2>1
<1>5. CASE watched = "infrastructure"
  <2>1. ResourceOf(s) = s.infrastructure /\ ConfigsOf(watched) = RawInfrastructureConfigs
    BY <1>5 DEF ResourceOf, ConfigsOf
  <2> QED  BY <1>2, <2>1
<1>6. CASE watched = "worker"
  <2>1. ResourceOf(s) = s.workers[1].config /\ ConfigsOf(watched) = WorkerConfigs
    BY <1>6 DEF ResourceOf, ConfigsOf
  <2> QED  BY <1>2, <2>1
<1> QED  BY <1>1, <1>3, <1>4, <1>5, <1>6

\* The cloud config has the networking of a decoded config.
LEMMA ConfigChartType ==
    ASSUME NEW raw \in Given(RawControlPlaneConfigs), ToConfig(raw) # Refused, NEW s
    PROVE  ConfigChartValues(ClusterOf(s), ToConfig(raw)) \in CloudConfigs
<1> DEFINE config == ToConfig(raw)
<1>1. config.cloudControllerManager \in Given(CloudControllerManagerConfigs)
  <2>1. CASE raw = Nil
    BY <2>1 DEF ToConfig, EmptyConfig, Given
  <2>2. CASE raw # Nil
    <3>1. config \in ControlPlaneConfigs
      BY <2>2, DecodedType DEF ToConfig, Given
    <3> QED  BY <3>1 DEF ControlPlaneConfigs
  <2> QED  BY <2>1, <2>2
<1> HIDE DEF config
<1>2. config.cloudControllerManager # Nil =>
          config.cloudControllerManager.networking \in Given(CloudControllerNetworkings)
  BY <1>1 DEF Given, CloudControllerManagerConfigs
<1> QED  BY <1>2 DEF ConfigChartValues, ClusterOf, CloudConfigs, Given, config

\* The nodes' networks of a document are a list of texts.
LEMMA NodesType ==
    ASSUME NEW raw \in RawInfrastructureConfigs
    PROVE  NewNodes(DecodeInfrastructureConfig(raw, FALSE)) \in Given(Seq(Strings))
<1> DEFINE decoded == Each(DecodeNetworks, raw.networks)
           config == DecodeInfrastructureConfig(raw, FALSE)
<1>1. config.networks = decoded
  BY DEF DecodeInfrastructureConfig
<1>2. CASE decoded \in {Nil, <<>>}
  BY <1>1, <1>2 DEF NewNodes, Given
<1>3. CASE decoded \notin {Nil, <<>>}
  <2>1. raw.networks \in Seq(RawNetworks) /\ raw.networks # Nil
    BY <1>3 DEF RawInfrastructureConfigs, Given, Each
  <2>2. decoded = [i \in 1..Len(raw.networks) |-> DecodeNetworks(raw.networks[i])]
    BY <2>1 DEF Each
  <2>3. ASSUME NEW i \in 1..Len(raw.networks)
        PROVE  DecodeNetworks(raw.networks[i]).cidr \in Strings
    <3>1. raw.networks[i] \in RawNetworks
      BY <2>1
    <3> QED  BY <3>1, ConfigAssumption DEF ConfigAssumption, RawNetworks, DecodeNetworks, OrZero, Given
  <2>4. Len(decoded) = Len(raw.networks) /\ Len(raw.networks) \in Nat
    BY <2>1, <2>2
  <2>5. NewNodes(config) = [i \in 1..Len(decoded) |-> decoded[i].cidr]
    <3> HIDE DEF decoded, config
    <3>1. config.networks \notin {Nil, <<>>}
      BY <1>1, <1>3
    <3>2. NewNodes(config) = [i \in 1..Len(config.networks) |-> config.networks[i].cidr]
      BY <3>1 DEF NewNodes, Each
    <3> QED  BY <1>1, <3>2
  <2>6. [i \in 1..Len(decoded) |-> decoded[i].cidr] \in Seq(Strings)
    <3>1. \A i \in 1..Len(decoded) : decoded[i].cidr \in Strings
      BY <2>2, <2>3, <2>4
    <3> HIDE DEF decoded
    <3> QED  BY <2>4, <3>1
  <2> QED  BY <2>5, <2>6 DEF Given
<1> QED  BY <1>2, <1>3

\* What a reconciliation of the infrastructure writes is a status.
LEMMA StatusType ==
    ASSUME NEW raw \in Given(RawInfrastructureConfigs), NEW networking, NEW before \in Given(NetworkingStatuses),
           {networking.pods, networking.services} \subseteq Given(Strings)
    PROVE  ReconcileInfrastructure(raw, networking, before) \in NetworkingStatuses \cup {Panic, Refused, before}
<1> DEFINE config == DecodeInfrastructureConfig(raw, FALSE)
           nodes == NewNodes(config)
           old == OrZero(before, NoNetworking)
           One(cidr, list) == IF cidr = Nil THEN list ELSE <<cidr>>
           outcome == [nodes |-> OrZero(nodes, old.nodes),
                       pods |-> One(networking.pods, old.pods),
                       services |-> One(networking.services, old.services)]
<1>1. CASE raw = Nil
  BY <1>1 DEF ReconcileInfrastructure
<1>2. CASE raw # Nil
  <2>1. nodes \in Given(Seq(Strings))
    BY <1>2, NodesType DEF Given
  <2>2. /\ old.nodes \in Given(Seq(Strings)) /\ old.pods \in Given(Seq(Strings))
        /\ old.services \in Given(Seq(Strings))
    BY DEF OrZero, NoNetworking, NetworkingStatuses, Given
  <2>3. ReconcileInfrastructure(raw, networking, before) \in {Refused, before, outcome}
    BY <1>2 DEF ReconcileInfrastructure
  <2> HIDE DEF nodes, old
  <2>4. \A cidr \in Given(Strings), list \in Given(Seq(Strings)) : One(cidr, list) \in Given(Seq(Strings))
    <3>1. \A cidr \in Strings : <<cidr>> \in Seq(Strings)
      OBVIOUS
    <3> QED  BY <3>1 DEF Given
  <2>5. OrZero(nodes, old.nodes) \in Given(Seq(Strings))
    BY <2>1, <2>2 DEF OrZero
  <2> HIDE DEF One
  <2>6. outcome \in NetworkingStatuses
    BY <2>2, <2>4, <2>5 DEF NetworkingStatuses
  <2> QED  BY <2>3, <2>6
<1> QED  BY <1>1, <1>2

\* Two documents are merged to a document.
LEMMA MergedType ==
    ASSUME NEW own \in Documents, NEW secret \in Documents
    PROVE  MergeDocuments(own, secret) \in Documents
<1>1. /\ own.files \in Given(Seq(Strings)) /\ secret.files \in Given(Seq(Strings))
      /\ own.setting \in Given(Strings) /\ secret.setting \in Given(Strings)
  BY DEF Documents
<1> DEFINE more == IF secret.files = Nil THEN <<>> ELSE secret.files
<1>2. more \in Seq(Strings)
  BY <1>1 DEF Given
<1> HIDE DEF more
<1>3. own.files # Nil => own.files \o more \in Seq(Strings)
  BY <1>1, <1>2 DEF Given
<1>4. (IF own.files = Nil THEN secret.files ELSE own.files \o more) \in Given(Seq(Strings))
  BY <1>1, <1>3 DEF Given
<1>5. (IF own.setting \in {Nil, ""} /\ secret.setting # Nil THEN secret.setting ELSE own.setting) \in Given(Strings)
  BY <1>1
<1> QED  BY <1>4, <1>5 DEF MergeDocuments, Documents, more

\* A class is given a document, nothing, or an error.
LEMMA IgnitionType ==
    ASSUME NEW raw \in Given(WorkerConfigs), NEW resources \in Seq(ResourceReferences),
           NEW secrets \in [Objects -> Given(Contents)]
    PROVE  ClassIgnition(raw, resources, secrets)
               \in Given([document : Documents, override : BOOLEAN]) \cup {Refused}
<1> DEFINE config == raw.extraIgnition
           own    == OrZero(config.raw, EmptyDocument)
           found  == LookupReferencedSecret(resources, config.secretRef)
           merged == MergeIgnitionConfig(config, resources, secrets)
<1> SUFFICES ASSUME ClassIgnition(raw, resources, secrets) \notin {Nil, Refused}
             PROVE  ClassIgnition(raw, resources, secrets) \in [document : Documents, override : BOOLEAN]
  BY DEF Given
<1>1. raw # Nil /\ config # Nil /\ DecodeWorkerConfig(raw) = raw
  BY DEF ClassIgnition, DecodeWorkerConfig
<1>2. /\ merged # Refused
      /\ ClassIgnition(raw, resources, secrets) =
             [document |-> merged, override |-> OrZero(config.override, FALSE)]
  BY <1>1 DEF ClassIgnition
<1>3. config \in IgnitionConfigs
  BY <1>1 DEF Given, WorkerConfigs
<1>4. own # Malformed /\ own \in Documents
  <2>1. own # Malformed
    BY <1>2 DEF MergeIgnitionConfig
  <2>2. EmptyDocument \in Documents
    BY DEF EmptyDocument, Documents, Given
  <2> QED  BY <1>3, <2>1, <2>2 DEF IgnitionConfigs, OrZero, Given
<1>5. merged \in Documents
  <2>1. CASE config.secretRef \in {Nil, ""}
    <3>1. merged = own
      BY <1>4, <2>1 DEF MergeIgnitionConfig
    <3> QED  BY <1>4, <3>1
  <2>2. CASE config.secretRef \notin {Nil, ""}
    <3>1. /\ found # Refused /\ secrets[found] # Nil /\ secrets[found].ignition \notin {Nil, Malformed}
          /\ merged = MergeDocuments(own, secrets[found].ignition)
      BY <1>2, <2>2 DEF MergeIgnitionConfig
    <3>2. secrets[found] \in Contents /\ Contents \subseteq Secrets
      BY <3>1, ReferencedObject, ReconciliationAssumption DEF ReconciliationAssumption, Given
    <3>3. secrets[found].ignition \in Documents
      BY <3>1, <3>2 DEF Secrets, Given
    <3> HIDE DEF own, found, merged
    <3> QED  BY <1>4, <3>1, <3>3, MergedType
  <2> QED  BY <2>1, <2>2
<1>6. OrZero(config.override, FALSE) \in BOOLEAN
  BY <1>3 DEF IgnitionConfigs, OrZero, Given
<1> DEFINE override == OrZero(config.override, FALSE)
<1> HIDE DEF merged, override
<1>7. ClassIgnition(raw, resources, secrets) = [document |-> merged, override |-> override]
  BY <1>2 DEF override
<1>8. override \in BOOLEAN
  BY <1>6 DEF override
<1> QED  BY <1>5, <1>7, <1>8

\* A command line stays one.
LEMMA FlagType ==
    ASSUME NEW args \in SUBSET Flags, NEW name \in Strings, NEW value \in Strings
    PROVE  /\ EnsureFlag(args, name, value) \in SUBSET Flags
           /\ EnsureNoFlagValue(args, name) \in SUBSET Flags
           /\ EnsureNoFlag(args, name) \in SUBSET Flags
  BY DEF EnsureFlag, EnsureNoFlagValue, EnsureNoFlag, Flag, Flags, Given

\* An object stays one of its component.
LEMMA ObjectType ==
    ASSUME NEW part \in Components, NEW from \in ObjectsOf(part), NEW of, Ensure(part, from, of) # Refused
    PROVE  Ensure(part, from, of) \in ObjectsOf(part)
<1>1. WrittenTexts \subseteq Strings
  BY ReconciliationAssumption DEF ReconciliationAssumption
<1>2. /\ {"provider-sidecar", "v", "3", "metal-kubeconfig", "/etc/metal/kubeconfig"} \subseteq Strings
      /\ {"node-name-policy", "limits", "cloud-provider", "external"} \subseteq Strings
      /\ {"allocate-node-cidrs", "true", "false"} \subseteq Strings /\ NodeNamePolicies \subseteq Strings
  BY <1>1 DEF WrittenTexts
<1>3. CASE part = "mcm"
  <2> DEFINE raw == of.shoot.controlPlane
             config == IF raw = Nil THEN EmptyConfig ELSE DecodeControlPlaneConfig(raw, TRUE)
             args == EnsureMCMCommandLineArgs(ProviderSidecarContainer.args, config.nodeNamePolicy)
             sidecar == [name |-> "provider-sidecar", args |-> args,
                         mounts |-> ProviderSidecarContainer.mounts \cup {"cloudprovider"}]
  <2>1. from \in [labels : SUBSET {"allow-egress"},
                  containers : SUBSET [name : Strings, args : SUBSET Flags, mounts : SUBSET {"cloudprovider"}],
                  volumes : SUBSET {"cloudprovider"}]
    BY <1>3 DEF ObjectsOf
  <2>2. ProviderSidecarContainer.args \in SUBSET Flags
    BY <1>2 DEF ProviderSidecarContainer, Flag, Flags, Given
  <2>3. args \in SUBSET Flags
    BY <1>2, <2>2, FlagType DEF EnsureMCMCommandLineArgs
  <2>4. Ensure(part, from, of) =
            [labels |-> EnsureEgress(from.labels, of),
             containers |-> EnsureContainer(from.containers, sidecar),
             volumes |-> from.volumes \cup {"cloudprovider"}]
    BY <1>3 DEF Ensure, EnsureMachineControllerManagerDeployment, ProviderSidecarContainer
  <2> HIDE DEF args
  <2>5. sidecar \in [name : Strings, args : SUBSET Flags, mounts : SUBSET {"cloudprovider"}]
    BY <1>2, <2>3 DEF ProviderSidecarContainer
  <2> HIDE DEF sidecar
  <2>6. EnsureContainer(from.containers, sidecar)
            \in SUBSET [name : Strings, args : SUBSET Flags, mounts : SUBSET {"cloudprovider"}]
    BY <2>1, <2>5 DEF EnsureContainer
  <2>7. EnsureEgress(from.labels, of) \in SUBSET {"allow-egress"}
    BY <2>1 DEF EnsureEgress
  <2>8. from.volumes \cup {"cloudprovider"} \in SUBSET {"cloudprovider"}
    BY <2>1
  <2> QED  BY <1>3, <2>4, <2>6, <2>7, <2>8 DEF ObjectsOf
<1>4. CASE part = "vpa"
  <2>1. from \in [policies : SUBSET Policies]
    BY <1>4 DEF ObjectsOf
  <2>2. [container |-> "provider-sidecar", mode |-> "limits"] \in Policies
    BY <1>2 DEF Policies
  <2>3. Ensure(part, from, of) \in [policies : SUBSET Policies]
    BY <1>4, <2>1, <2>2 DEF Ensure, EnsureMachineControllerManagerVPA, ProviderSidecarContainer
  <2> QED  BY <1>4, <2>3 DEF ObjectsOf
<1>5. CASE part = "apiserver"
  <2>1. from \in [found : BOOLEAN, command : SUBSET Flags]
    BY <1>5 DEF ObjectsOf
  <2>2. EnsureNoFlagValue(EnsureNoFlagValue(from.command, "cloud-provider"), "cloud-config") \in SUBSET Flags
    BY <2>1 DEF EnsureNoFlagValue
  <2>3. Ensure(part, from, of) \in [found : BOOLEAN, command : SUBSET Flags]
    BY <1>5, <2>1, <2>2 DEF Ensure, EnsureKubeAPIServerDeployment, OfContainer
  <2> QED  BY <1>5, <2>3 DEF ObjectsOf
<1>6. CASE part = "kcm"
  <2> DEFINE external == EnsureFlag(from.command, "cloud-provider", "external")
             bare == EnsureNoFlag(EnsureNoFlagValue(external, "cloud-config"), "allocate-node-cidrs")
             value == IF of.shoot.networking.ipv6 THEN "false" ELSE "true"
  <2>1. from \in [found : BOOLEAN, command : SUBSET Flags]
    BY <1>6 DEF ObjectsOf
  <2>2. external \in SUBSET Flags
    BY <1>2, <2>1, FlagType
  <2>3. bare \in SUBSET Flags
    BY <2>2 DEF EnsureNoFlag, EnsureNoFlagValue
  <2> HIDE DEF bare
  <2>4. EnsureFlag(bare, "allocate-node-cidrs", value) \in SUBSET Flags
    BY <1>2, <2>3, FlagType
  <2>5. Ensure(part, from, of) \in [found : BOOLEAN, command : SUBSET Flags]
    BY <1>6, <2>1, <2>4 DEF Ensure, EnsureKubeControllerManagerDeployment, OfContainer, bare
  <2> QED  BY <1>6, <2>5 DEF ObjectsOf
<1>7. CASE part = "kubelet"
  <2>1. from \in [found : BOOLEAN, command : SUBSET Flags, pre : SUBSET {"set-hostname"}]
    BY <1>7 DEF ObjectsOf
  <2>2. EnsureKubeletCommandLineArgs(from.command) \in SUBSET Flags
    BY <1>2, <2>1, FlagType DEF EnsureKubeletCommandLineArgs
  <2>3. Ensure(part, from, of) \in [found : BOOLEAN, command : SUBSET Flags, pre : SUBSET {"set-hostname"}]
    BY <1>7, <2>1, <2>2 DEF Ensure, EnsureKubeletServiceUnitOptions
  <2> QED  BY <1>7, <2>3 DEF ObjectsOf
<1> QED  BY <1>3, <1>4, <1>5, <1>6, <1>7 DEF Components

\* The types are kept by each step: what a control plane reconciliation decodes
\* and what a class is made from is known from the invariants of the charts and
\* of the worker.
LEMMA NextTypes ==
    ASSUME TypeOK, AppliedInv, WorkerInv, [Next]_vars
    PROVE  TypeOK'
<1>1. \A s \in Shoots : ResourceOf(s) \in Given(ConfigsOf(watched))
  BY ResourceType DEF TypeOK
<1>2. CASE \E new \in Shoots \ {shoot} : Edit(new)
  <2>1. PICK new \in Shoots \ {shoot} : Edit(new)
    BY <1>2
  <2> DEFINE answer == IF WebhookRegistered THEN ValidateShoot(NewShootValidator, shoot, new, TRUE) ELSE Allowed
  <2>2. answer \in {Allowed, Refused, Panic}
    BY AnswerType
  <2>3. /\ disturbances < MaxDisturbances /\ disturbances' = disturbances + 1
        /\ request' = [old |-> shoot, new |-> new, answer |-> answer]
        /\ shoot' = IF answer = Allowed THEN new ELSE shoot
        /\ UNCHANGED <<garden, watched, cluster, resource, step, run, chartVars, status, copies,
                       ignition, objectVars>>
    BY <2>1 DEF Edit, Disturb
  <2> HIDE DEF answer
  <2>4. request' \in Given([old : Shoots, new : Shoots, answer : {Allowed, Refused, Panic}])
    BY <2>2, <2>3 DEF TypeOK, Given
  <2>5. disturbances' \in 0..MaxDisturbances
    BY <2>3, ReconciliationAssumption DEF ReconciliationAssumption, TypeOK
  <2> QED  BY <2>3, <2>4, <2>5 DEF TypeOK, chartVars, objectVars
<1>3. CASE \E o \in Objects : \E content \in Contents \ {garden[o]} : EditSecret(o, content)
  <2>1. /\ garden' \in [Objects -> Contents]
        /\ disturbances < MaxDisturbances /\ disturbances' = disturbances + 1
        /\ UNCHANGED <<shoot, request, watched, cluster, resource, step, run, chartVars, status, copies,
                       ignition, objectVars>>
    BY <1>3 DEF EditSecret, Disturb, TypeOK
  <2>2. disturbances' \in 0..MaxDisturbances
    BY <2>1, ReconciliationAssumption DEF ReconciliationAssumption, TypeOK
  <2> QED  BY <2>1, <2>2 DEF TypeOK, chartVars, objectVars
<1>4. CASE SyncCluster
  BY <1>4 DEF SyncCluster, TypeOK, gardenVars, chartVars, objectVars
<1>5. CASE DeployResource
  BY <1>1, <1>5 DEF DeployResource, TypeOK, gardenVars, chartVars, objectVars
<1>6. CASE DeployReferences
  <2>1. Referenced(shoot) \in [Objects -> Given(Contents)]
    BY DEF Referenced, TypeOK, Given
  <2> QED  BY <1>6, <2>1 DEF DeployReferences, TypeOK, gardenVars, chartVars, objectVars
<1>7. CASE StartReconcile \/ StartWorker
  BY <1>7 DEF StartReconcile, StartWorker, TypeOK, ReconcileSteps, Given, gardenVars, chartVars, objectVars
<1>8. CASE ApplyConfigChart
  <2> DEFINE config == ToConfig(run.config)
             chart  == ConfigChartValues(ClusterOf(run.cluster), config)
             values == OrRefused({config}, chart)
  <2>1. run.config \in Given(RawControlPlaneConfigs)
    BY <1>8 DEF ApplyConfigChart, AppliedInv, ConfigOf
  <2>2. values # Refused => config # Refused /\ values = chart
    BY DEF OrRefused
  <2>3. values # Refused => values \in CloudConfigs
    BY <2>1, <2>2, ConfigChartType
  <2>4. /\ configMap' = IF values = Refused THEN configMap ELSE values
        /\ step' \in {"idle", "checksums"} /\ run' \in {NoRun, run}
        /\ UNCHANGED <<gardenVars, disturbances, watched, cluster, resource, configSeen, status, copies,
                       ignition, objectVars>>
    BY <1>8 DEF ApplyConfigChart, Then
  <2> HIDE DEF values
  <2> QED  BY <2>3, <2>4 DEF TypeOK, NoRun, ReconcileSteps, Given, gardenVars, objectVars
<1>9. CASE ComputeChecksums \/ ApplyControlPlaneChart \/ ApplyShootChart \/ Abort
  <2>1. /\ step' \in {"idle", "controlplane", "shoot"} /\ run'.config \in {Nil, run.config}
        /\ run'.cluster \in {Nil, run.cluster}
        /\ UNCHANGED <<gardenVars, watched, cluster, resource, configMap, configSeen, status, copies,
                       ignition, objectVars>>
    <3>1. CASE ComputeChecksums
      BY <3>1 DEF ComputeChecksums, Then, NoRun, chartVars
    <3>2. CASE ApplyControlPlaneChart
      BY <3>2 DEF ApplyControlPlaneChart, Then, NoRun
    <3>3. CASE ApplyShootChart
      BY <3>3 DEF ApplyShootChart, Then, NoRun
    <3>4. CASE Abort
      BY <3>4 DEF Abort, NoRun, chartVars
    <3> QED  BY <1>9, <3>1, <3>2, <3>3, <3>4
  <2>2. disturbances' \in 0..MaxDisturbances
    <3>1. disturbances' = disturbances \/ Disturb
      BY <1>9 DEF ComputeChecksums, ApplyControlPlaneChart, ApplyShootChart, Abort
    <3> QED  BY <3>1, ReconciliationAssumption DEF ReconciliationAssumption, Disturb, TypeOK
  <2> QED  BY <2>1, <2>2 DEF TypeOK, ReconcileSteps, Given, gardenVars, objectVars
<1>10. CASE SyncConfigMap
  BY <1>10 DEF SyncConfigMap, TypeOK, gardenVars, objectVars
<1>11. CASE ReportNetworks
  <2> DEFINE outcome == ReconcileInfrastructure(resource, cluster.networking, status)
  <2>1. /\ watched = "infrastructure" /\ outcome \notin {Refused, Panic, status} /\ status' = outcome
        /\ UNCHANGED <<gardenVars, disturbances, watched, cluster, resource, step, run, chartVars, copies,
                       ignition, objectVars>>
    BY <1>11 DEF ReportNetworks
  <2>2. resource \in Given(RawInfrastructureConfigs)
    BY <2>1 DEF TypeOK, ConfigsOf
  <2>3. {cluster.networking.pods, cluster.networking.services} \subseteq Given(Strings)
    BY ReconciliationAssumption DEF ReconciliationAssumption, TypeOK
  <2>4. status \in Given(NetworkingStatuses)
    BY DEF TypeOK
  <2>5. outcome \in NetworkingStatuses \cup {Panic, Refused, status}
    BY <2>2, <2>3, <2>4, StatusType
  <2> HIDE DEF outcome
  <2> QED  BY <2>1, <2>5 DEF TypeOK, Given, gardenVars, chartVars, objectVars
<1>12. CASE GenerateClass
  <2> DEFINE merged == ClassIgnition(run.config, run.cluster.resources, copies)
  <2>1. /\ step = "class" /\ step' = "idle" /\ run' = NoRun
        /\ ignition' = IF merged = Refused THEN ignition ELSE merged
        /\ UNCHANGED <<gardenVars, disturbances, watched, cluster, resource, chartVars, status, copies, objectVars>>
    BY <1>12 DEF GenerateClass
  <2>2. /\ run.config \in Given(WorkerConfigs) /\ run.cluster.resources \in Seq(ResourceReferences)
        /\ copies \in [Objects -> Given(Contents)]
    BY <2>1, ReconciliationAssumption DEF ReconciliationAssumption, WorkerInv
  <2>3. merged \in Given([document : Documents, override : BOOLEAN]) \cup {Refused}
    BY <2>2, IgnitionType
  <2> HIDE DEF merged
  <2> QED  BY <2>1, <2>3 DEF TypeOK, NoRun, Given, gardenVars, chartVars, objectVars
<1>13. CASE WriteObject \/ RewriteObject
  <2>1. PICK from \in ObjectsOf(watched) : watched \in Components /\ Write(from)
    <3>1. CASE WriteObject
      BY <3>1, ReconciliationAssumption DEF ReconciliationAssumption, WriteObject
    <3>2. CASE RewriteObject
      BY <3>2 DEF RewriteObject, TypeOK
    <3> QED  BY <1>13, <3>1, <3>2
  <2>2. /\ object' = Ensure(watched, from, ClusterOf(cluster)) /\ object' # Refused /\ objectOf' = cluster
        /\ UNCHANGED <<gardenVars, disturbances, watched, cluster, resource, step, run, chartVars, status,
                       copies, ignition>>
    BY <2>1 DEF Write
  <2>3. object' \in ObjectsOf(watched)
    <3> DEFINE part == watched
               of == ClusterOf(cluster)
    <3> HIDE DEF part, of
    <3>1. part \in Components /\ from \in ObjectsOf(part) /\ Ensure(part, from, of) # Refused
      BY <2>1, <2>2 DEF part, of
    <3>2. Ensure(part, from, of) \in ObjectsOf(part)
      BY <3>1, ObjectType
    <3> QED  BY <2>2, <3>2 DEF part, of
  <2> QED  BY <2>1, <2>2, <2>3 DEF TypeOK, Given, gardenVars, chartVars
<1>14. CASE UNCHANGED vars
  BY <1>14 DEF vars, TypeOK, gardenVars, chartVars, objectVars
<1> QED
  BY <1>2, <1>3, <1>4, <1>5, <1>6, <1>7, <1>8, <1>9, <1>10, <1>11, <1>12, <1>13, <1>14 DEF Next

\* Every variable has its type: whatever is edited, copied or aborted, configs
\* stay those of the watched part, and what the controllers write, the networks,
\* the ignition and the objects, has the form its readers expect
\* (actuator_reconcile.go:19-63, machines.go:300-352, ensurer.go:51-206).
THEOREM TypesCorrect == Spec => []TypeOK
<1>1. Init => TypeOK
  <2> SUFFICES ASSUME Init PROVE TypeOK
    OBVIOUS
  <2>1. resource \in Given(ConfigsOf(watched))
    BY ResourceType DEF Init
  <2>2. copies \in [Objects -> Given(Contents)] /\ 0 \in 0..MaxDisturbances
    BY ReconciliationAssumption DEF ReconciliationAssumption, Init, Given
  <2> QED  BY <2>1, <2>2 DEF Init, TypeOK, NoRun, Given
<1>2. Init => WorkerInv
  BY ReconciliationAssumption
     DEF ReconciliationAssumption, Init, WorkerInv, ResourceOf, Given
<1> QED  BY <1>1, <1>2, NextTypes, NextWorker, AppliedAlways, PTL DEF Spec
=============================================================================
