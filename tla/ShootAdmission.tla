--------------------------- MODULE ShootAdmission ---------------------------
(***************************************************************************)
(* The admission of shoots (src/pkg/admission/validator/shoot.go) with the *)
(* field validations it calls (src/pkg/apis/metal/validation).             *)
(*                                                                         *)
(* A shoot is the record of its networking, the provider configs as the    *)
(* user wrote them, its workers and the resources it references.           *)
(***************************************************************************)
EXTENDS Infrastructure, ExtraIgnition

CONSTANT Allowed

\* The three things a validator works with: two decoders, Nil or whether they
\* are strict, and whether it has a client.
Validators == [decoder : Given(BOOLEAN), lenientDecoder : Given(BOOLEAN), client : BOOLEAN]

\* The validator as the webhook makes it ...
NewShootValidator == [decoder |-> TRUE, lenientDecoder |-> Nil, client |-> FALSE]
\* ... and one with everything its methods use: the rules for shoots.
CompleteValidator == [decoder |-> TRUE, lenientDecoder |-> FALSE, client |-> TRUE]

-----------------------------------------------------------------------------
(* Field validations: the set of the fields that are not as they should be.*)

ValidateNetworking(networking) == IF networking.nodes = Nil THEN {"networking.nodes"} ELSE {}

ValidateInfrastructureConfig(config) == {}
ValidateInfrastructureConfigUpdate(old, new) == {}

ValidateVolume(volume) ==
    (IF volume.type = Nil THEN {"volume.type"} ELSE {})
    \cup (IF volume.size = "" THEN {"volume.size"} ELSE {})

\* The secret is looked for among the names of the resources only.
ValidateWorkerConfig(raw, resources) ==
    (IF raw.malformed THEN {"providerConfig"} ELSE {})
    \cup IF raw.extraIgnition = Nil THEN {}
         ELSE IF \/ raw.extraIgnition.secretRef \in {Nil, ""}
                 \/ \E i \in 1..Len(resources) : resources[i].name = raw.extraIgnition.secretRef
              THEN {} ELSE {"extraIgnition.secretRef"}

\* A worker without zones is looked at no further.
ValidateWorker(worker, resources) ==
    (IF worker.volume = Nil THEN {"volume"} ELSE ValidateVolume(worker.volume))
    \cup (IF worker.zones = <<>> THEN {"zones"}
          ELSE IF worker.config = Nil THEN {} ELSE ValidateWorkerConfig(worker.config, resources))

ValidateWorkers(workers, resources) ==
    UNION {ValidateWorker(workers[i], resources) : i \in 1..Len(workers)}

\* An old worker of that name keeps its zones, and its config if its machines
\* are updated in place.
ValidateWorkersUpdate(old, new) ==
    UNION {LET at == SelectInSeq(old, LAMBDA worker : worker.name = new[i].name)
           IN  IF at = 0 THEN {}
               ELSE (IF IsPrefix(old[at].zones, new[i].zones) THEN {} ELSE {"zones"})
                    \cup (IF new[i].inPlace /\ new[i].config # old[at].config
                          THEN {"providerConfig"} ELSE {}) : i \in 1..Len(new)}

\* Gardener knows the feature gates of a version.
KnownFeatureGates(gates) == gates = Nil \/ gates \in FeatureGates

ValidateControlPlaneConfig(config) ==
    LET ccm == config.cloudControllerManager
    IN  IF ccm = Nil THEN {}
        ELSE (IF KnownFeatureGates(ccm.featureGates) THEN {} ELSE {"featureGates"})
             \cup (IF ccm.podPrefixSize < 0 THEN {"podPrefixSize"} ELSE {})

ValidateControlPlaneConfigUpdate(old, new) == {}

-----------------------------------------------------------------------------
(* The dispatch.  profiled: the CloudProfile is there, with a config.      *)

\* The configs of a shoot, Refused or Panic.
NewValidationContext(validator, decoder, shoot, profiled) ==
    IF shoot.infrastructure = Nil THEN Refused
    ELSE IF decoder = Nil THEN Panic
    ELSE LET infrastructure == DecodeInfrastructureConfig(shoot.infrastructure, decoder)
         IN  IF infrastructure = Refused \/ shoot.controlPlane = Nil THEN Refused
             ELSE LET controlPlane == DecodeControlPlaneConfig(shoot.controlPlane, decoder)
                  IN  IF controlPlane = Refused THEN Refused
                      ELSE IF ~validator.client THEN Panic
                      ELSE IF ~profiled THEN Refused
                      ELSE [infrastructure |-> infrastructure, controlPlane |-> controlPlane]

ValidateContext(context, shoot) ==
    ValidateNetworking(shoot.networking)
    \cup ValidateInfrastructureConfig(context.infrastructure)
    \cup ValidateWorkers(shoot.workers, shoot.resources)
    \cup ValidateControlPlaneConfig(context.controlPlane)

Verdict(errors) == IF errors = {} THEN Allowed ELSE Refused

ValidateCreate(validator, shoot, profiled) ==
    LET context == NewValidationContext(validator, validator.decoder, shoot, profiled)
    IN  IF context \in {Refused, Panic} THEN context ELSE Verdict(ValidateContext(context, shoot))

ValidateUpdate(validator, old, new, profiled) ==
    LET oldContext == NewValidationContext(validator, validator.lenientDecoder, old, profiled)
        context    == NewValidationContext(validator, validator.decoder, new, profiled)
    IN  IF oldContext \in {Refused, Panic} THEN oldContext
        ELSE IF context \in {Refused, Panic} THEN context
        ELSE Verdict(ValidateInfrastructureConfigUpdate(oldContext.infrastructure, context.infrastructure)
                     \cup ValidateControlPlaneConfigUpdate(oldContext.controlPlane, context.controlPlane)
                     \cup ValidateWorkersUpdate(old.workers, new.workers)
                     \cup ValidateContext(context, new))

\* old is Nil for a shoot that is created.
ValidateShoot(validator, old, new, profiled) ==
    IF old = Nil THEN ValidateCreate(validator, new, profiled)
    ELSE ValidateUpdate(validator, old, new, profiled)
=============================================================================
