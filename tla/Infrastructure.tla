--------------------------- MODULE Infrastructure ---------------------------
(***************************************************************************)
(* The infrastructure of a shoot (src/pkg/controller/infrastructure): its  *)
(* reconciliation reports the networks of the shoot, and creates nothing.  *)
(***************************************************************************)
EXTENDS ControlPlaneConfig

CONSTANT Panic      \* the controller panics (its manager recovers)

\* What a user writes, and what the admission decodes it to.
RawNetworks == [name : Given(Strings), cidr : Given(Strings), id : Given(Strings)]
RawInfrastructureConfigs == [networks : Given(Seq(RawNetworks)), unknown : BOOLEAN]
Networks == [name : Strings, cidr : Strings, id : Strings]
InfrastructureConfigs == [networks : Given(Seq(Networks))]

\* The networking status of an infrastructure: the CIDRs of each kind.
NetworkingStatuses ==
    LET cidrs == Given(Seq(Strings)) IN [nodes : cidrs, pods : cidrs, services : cidrs]
NoNetworking == [nodes |-> Nil, pods |-> Nil, services |-> Nil]

DecodeNetworks(in) ==
    [name |-> OrZero(in.name, ""), cidr |-> OrZero(in.cidr, ""), id |-> OrZero(in.id, "")]

\* The controller decodes leniently, the admission strictly.
DecodeInfrastructureConfig(raw, strict) ==
    IF strict /\ raw.unknown THEN Refused ELSE [networks |-> Each(DecodeNetworks, raw.networks)]

\* The nodes' networks; a list without elements is as good as none.
NewNodes(config) ==
    IF config.networks \in {Nil, <<>>} THEN Nil
    ELSE Each(LAMBDA network : network.cidr, config.networks)

\* Mutant: only a status that is new is written.
ReconcileFirstInfrastructure(raw, networking, status) ==
    IF raw = Nil THEN Panic
    ELSE IF status # Nil THEN status
    ELSE [nodes |-> NewNodes(DecodeInfrastructureConfig(raw, FALSE)),
          pods |-> IF networking.pods = Nil THEN Nil ELSE <<networking.pods>>,
          services |-> IF networking.services = Nil THEN Nil ELSE <<networking.services>>]

\* Mutant: the CIDRs of pods and services are not made lists.
ReconcileInfrastructureAsGiven(raw, networking, status) ==
    IF raw = Nil THEN Panic
    ELSE LET nodes  == NewNodes(DecodeInfrastructureConfig(raw, FALSE))
             before == OrZero(status, NoNetworking)
         IN  IF nodes = Nil /\ networking.pods = Nil /\ networking.services = Nil THEN status
             ELSE [nodes |-> OrZero(nodes, before.nodes),
                   pods |-> OrZero(networking.pods, before.pods),
                   services |-> OrZero(networking.services, before.services)]

\* The status after a reconciliation: what is given is written over, what is
\* not given any more remains.  Without a provider config it dereferences nil.
ReconcileInfrastructure(raw, networking, status) ==
    IF raw = Nil THEN Panic
    ELSE LET config == DecodeInfrastructureConfig(raw, FALSE)
             nodes  == NewNodes(config)
             before == OrZero(status, NoNetworking)
             One(cidr, old) == IF cidr = Nil THEN old ELSE <<cidr>>
         IN  IF config.networks # Nil /\ \E i \in 1..Len(config.networks) : config.networks[i].name = ""
             THEN Refused
             ELSE IF nodes = Nil /\ networking.pods = Nil /\ networking.services = Nil THEN status
             ELSE [nodes |-> OrZero(nodes, before.nodes),
                   pods |-> One(networking.pods, before.pods),
                   services |-> One(networking.services, before.services)]

\* Restoring, deleting and migrating leave the infrastructure as it is.
RestoreInfrastructure(status) == status
DeleteInfrastructure(status) == status
MigrateInfrastructure(status) == status

\* The config validator of the controller has no objections.
ValidateConfig(raw) == {}
=============================================================================
