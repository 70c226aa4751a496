----------------------- MODULE MCShootReconciliation -----------------------
(***************************************************************************)
(* Instances of module ShootReconciliation for TLC: AS numbers of two bits *)
(* a half, one worker pool, one secret, and shoots that differ in what    *)
(* each of the extension's parts looks at.                                 *)
(***************************************************************************)
EXTENDS ShootReconciliation

CONSTANTS NilValue, MalformedValue     \* model values

MCStrings == {"", "a", "b", "In", "Accept", "Reject", "RemotePeers", "Automatic", "Manual",
              "LoadBalancer", "Tunnel", "Workload", "10.0.0.0/8", "10.1.0.0/16", "100.64.0.0/12",
              "pool", "true", "false", "external", "/etc/metal/kubeconfig", "3", "v",
              "metal-kubeconfig", "node-name-policy", "allocate-node-cidrs", "cloud-provider",
              "cloud-config", "provider-sidecar", "mcm", "limits"} \cup NodeNamePolicies
MCFeatureGates == {"gates"}
MCSizes == {-1, 0, 24, 64, 100}
MCObjects == {"extra"}

-----------------------------------------------------------------------------
(* Control plane configs.                                                  *)

Cidr(n, mask) == [range |-> FALSE, address |-> n, mask |-> mask]
Span(from, to) == [range |-> TRUE, start |-> from, end |-> to]

Rule(n, action, source) ==
    [cidr |-> Cidr(n, 24), matchOperator |-> "In", action |-> action, source |-> source]
Filter == [name |-> "a", exportV4 |-> <<Rule(1, "Accept", NilValue), Rule(2, "Reject", "RemotePeers")>>,
           importV4 |-> <<Rule(3, "Reject", "")>>, exportV6 |-> NilValue,
           importV6 |-> <<Rule(4, "Accept", NilValue)>>]
Peer(json) == [peerIP |-> "a", asNumber |-> json, nodeSelector |-> NilValue, filters |-> <<"a">>]
Bgp(json, peers, filters) ==
    [asNumber |-> json, nodeToNodeMeshEnabled |-> NilValue,
     serviceLoadBalancerIPs |-> <<Span(5, 9)>>, serviceExternalIPs |-> NilValue,
     serviceClusterIPs |-> <<Cidr(1, 16)>>, bgpPeer |-> peers, bgpFilter |-> filters]
Pool(cidr) == [allowedUses |-> NilValue, assignmentMode |-> "Manual", cidr |-> cidr, disabled |-> NilValue]
Metal == [nodeCIDRMask |-> 24, allocateNodeCIDRs |-> TRUE, vni |-> 100, metalBondServer |-> "a"]
Metallb == [ipAddressPool |-> <<Span(1, 2)>>, enableSpeaker |-> TRUE, enableL2Advertisement |-> NilValue]
CCM(size) == [featureGates |-> "gates",
              networking |-> [configureNodeAddresses |-> TRUE,
                              ipamKind |-> [apiGroup |-> "a", kind |-> "pool"]],
              podPrefixSize |-> size]

Balancer(metallb, bgp, pools, metal) ==
    [metallbConfig |-> metallb,
     calicoConfig |-> IF bgp = NilValue /\ pools = NilValue THEN NilValue
                      ELSE [calicoBgpConfig |-> bgp, calicoIPPools |-> pools],
     metalLoadBalancerConfig |-> metal]
Config(ccm, balancer, policy) ==
    [cloudControllerManager |-> ccm, loadBalancerConfig |-> balancer, nodeNamePolicy |-> policy,
     unknown |-> FALSE]

Routed == Config(CCM(64), Balancer(NilValue,
                    Bgp(JSONString(<<2, 3>>), <<Peer(JSONInteger(7)), Peer(JSONString(<<15>>))>>, <<Filter>>),
                    <<Pool(Cidr(2, 24))>>, Metal), "BMCName")
Balanced == Config(NilValue, Balancer(Metallb, NilValue, NilValue, NilValue), "ServerName")
Plain == Config(CCM(NilValue), NilValue, NilValue)
TooWide == Config(NilValue, Balancer(NilValue, Bgp(JSONString(<<3, 5>>), NilValue, NilValue), NilValue,
                                     NilValue), NilValue)
Spanned == Config(NilValue, Balancer(NilValue, Bgp(JSONInteger(1), NilValue, <<Filter>>),
                                     <<Pool(Span(4, 3))>>, Metal), "ServerClaimName")

-----------------------------------------------------------------------------
(* Worker pools, networks and the shoots.                                  *)

Document(files, setting) == [files |-> files, setting |-> setting]
Ignition(raw, ref) ==
    [extraIgnition |-> [raw |-> raw, secretRef |-> ref, override |-> NilValue], unknown |-> FALSE,
     malformed |-> FALSE]
Worker(config) ==
    [name |-> "pool", volume |-> [type |-> "a", size |-> "a"], zones |-> <<"a">>, inPlace |-> FALSE,
     config |-> config]
Own == Document(<<"a">>, "a")

MCContents == {[ignition |-> Document(<<"b">>, "b")], [ignition |-> NilValue]}

Reference(kind) == <<[name |-> "a", kind |-> kind, object |-> "extra"]>>
Network(name, cidr) == [name |-> name, cidr |-> cidr, id |-> NilValue]
Nodes(networks) == [networks |-> networks, unknown |-> FALSE]
Networking(type, overlay, ipv6, pods) ==
    [type |-> type, nodes |-> "10.0.0.0/8", pods |-> pods, services |-> "100.64.0.0/12",
     overlay |-> overlay, ipv6 |-> ipv6]

MCShoots ==
    {[networking |-> Networking("calico", FALSE, FALSE, "10.1.0.0/16"), controlPlane |-> Routed,
      infrastructure |-> Nodes(<<Network("a", "10.0.0.0/8"), Network("b", "10.1.0.0/16")>>),
      workers |-> <<Worker(Ignition(Own, "a"))>>, resources |-> Reference("Secret")],
     [networking |-> Networking("calico", TRUE, FALSE, NilValue), controlPlane |-> Balanced,
      infrastructure |-> Nodes(NilValue),
      workers |-> <<Worker(Ignition(NilValue, "a"))>>, resources |-> Reference("ConfigMap")],
     [networking |-> Networking("calico", NilValue, TRUE, "10.1.0.0/16"), controlPlane |-> Plain,
      infrastructure |-> Nodes(<<Network("a", "10.1.0.0/16")>>),
      workers |-> <<Worker(Ignition(Document(NilValue, ""), "a"))>>, resources |-> Reference("Secret")],
     [networking |-> Networking("calico", FALSE, FALSE, "10.1.0.0/16"), controlPlane |-> TooWide,
      infrastructure |-> Nodes(<<Network(NilValue, "10.0.0.0/8")>>),
      workers |-> <<Worker(Ignition(Own, NilValue))>>, resources |-> <<>>],
     [networking |-> Networking("calico", MalformedValue, FALSE, "10.1.0.0/16"), controlPlane |-> Spanned,
      infrastructure |-> NilValue,
      workers |-> <<Worker(Ignition(MalformedValue, NilValue))>>, resources |-> <<>>],
     [networking |-> Networking("cilium", FALSE, TRUE, "10.1.0.0/16"), controlPlane |-> Routed,
      infrastructure |-> Nodes(<<>>),
      workers |-> <<Worker([Ignition(Own, NilValue) EXCEPT !.unknown = TRUE])>>, resources |-> <<>>],
     [networking |-> Networking("cilium", FALSE, FALSE, NilValue), controlPlane |-> NilValue,
      infrastructure |-> Nodes(<<Network("b", "10.0.0.0/8")>>),
      workers |-> <<Worker(NilValue)>>, resources |-> <<>>]}

\* What gardenlet has of the components; a bare flag of the kcm is the way some
\* versions of Gardener write it.
Args == {Flag("v", "3")}
MCBase ==
    [part \in Components |->
        CASE part = "mcm" -> [labels |-> {}, volumes |-> {},
                              containers |-> {[name |-> "mcm", args |-> Args, mounts |-> {}]}]
          [] part = "vpa"       -> [policies |-> {}]
          [] part = "apiserver" -> [found |-> TRUE, command |-> Args \cup {Flag("cloud-provider", "a")}]
          [] part = "kcm"       -> [found |-> TRUE, command |-> Args \cup {Flag("allocate-node-cidrs", NilValue)}]
          [] part = "kubelet"   -> [found |-> TRUE, command |-> Args, pre |-> {}]]
=============================================================================
