--------------------------- MODULE ExtraIgnition ---------------------------
(***************************************************************************)
(* Additional ignition of a worker pool: a document of the pool's own      *)
(* WorkerConfig and one of a secret that the shoot references, merged into *)
(* the machine classes (src/pkg/controller/worker/machines.go).            *)
(*                                                                         *)
(* A document has a list (of files, of units) and a single setting, each   *)
(* Nil if it does not occur; Malformed stands for text that is no document.*)
(***************************************************************************)
EXTENDS ControlPlaneConfig, SequencesExt

CONSTANTS
    Malformed,
    Objects             \* the names of objects in the garden

Documents == [files : Given(Seq(Strings)), setting : Given(Strings)]
EmptyDocument == [files |-> Nil, setting |-> Nil]

IgnitionConfigs ==
    [raw : Given(Documents \cup {Malformed}), secretRef : Given(Strings), override : Given(BOOLEAN)]
WorkerConfigs ==
    [extraIgnition : Given(IgnitionConfigs), unknown : BOOLEAN, malformed : BOOLEAN]

\* The resources a shoot references, and the copies that gardenlet makes of
\* those that are secrets: Nil, or what is under the key "ignition".
ResourceReferences == [name : Strings, kind : {"Secret", "ConfigMap"}, object : Objects]
Secrets == [ignition : Given(Documents \cup {Malformed})]

\* The strict decoder of the controller; the admission only parses the JSON.
DecodeWorkerConfig(raw) ==
    IF raw = Nil THEN [extraIgnition |-> Nil, unknown |-> FALSE, malformed |-> FALSE]
    ELSE IF raw.unknown \/ raw.malformed THEN Refused
    ELSE raw

\* The object of the first reference of that name, if it is a secret.
LookupReferencedSecret(resources, refname) ==
    LET i == SelectInSeq(resources, LAMBDA ref : ref.name = refname)
    IN  IF i = 0 THEN Refused
        ELSE IF resources[i].kind # "Secret" THEN Refused ELSE resources[i].object

\* mergo.Merge with append: lists are appended, and a setting stays unless it
\* is missing or empty.
MergeDocuments(into, from) ==
    [files |-> IF into.files = Nil THEN from.files
               ELSE into.files \o (IF from.files = Nil THEN <<>> ELSE from.files),
     setting |-> IF into.setting \in {Nil, ""} /\ from.setting # Nil THEN from.setting
                 ELSE into.setting]

\* Mutant: the document of the secret comes first.
MergeIgnitionSecretFirst(ignition, resources, secrets) ==
    LET raw    == OrZero(ignition.raw, EmptyDocument)
        object == LookupReferencedSecret(resources, ignition.secretRef)
    IN  IF raw = Malformed THEN Refused
        ELSE IF ignition.secretRef \in {Nil, ""} THEN raw
        ELSE IF object = Refused THEN Refused
        ELSE IF secrets[object] = Nil THEN Refused
        ELSE IF secrets[object].ignition \in {Nil, Malformed} THEN Refused
        ELSE MergeDocuments(secrets[object].ignition, raw)

\* Mutant: without the secret, or its document, the pool's own will do.
MergeIgnitionWithoutSecret(ignition, resources, secrets) ==
    LET raw    == OrZero(ignition.raw, EmptyDocument)
        object == LookupReferencedSecret(resources, ignition.secretRef)
    IN  IF raw = Malformed THEN Refused
        ELSE IF ignition.secretRef \in {Nil, ""} THEN raw
        ELSE IF object = Refused THEN Refused
        ELSE IF secrets[object] = Nil THEN raw
        ELSE IF secrets[object].ignition \in {Nil, Malformed} THEN raw
        ELSE MergeDocuments(raw, secrets[object].ignition)

MergeIgnitionConfig(ignition, resources, secrets) ==
    LET raw    == OrZero(ignition.raw, EmptyDocument)
        object == LookupReferencedSecret(resources, ignition.secretRef)
    IN  IF raw = Malformed THEN Refused
        ELSE IF ignition.secretRef \in {Nil, ""} THEN raw
        ELSE IF object = Refused THEN Refused
        ELSE IF secrets[object] = Nil THEN Refused
        ELSE IF secrets[object].ignition \in {Nil, Malformed} THEN Refused
        ELSE MergeDocuments(raw, secrets[object].ignition)

\* What the machine class gets: Nil for a document without anything.
ClassIgnition(raw, resources, secrets) ==
    LET config == DecodeWorkerConfig(raw)
    IN  IF config = Refused THEN Refused
        ELSE IF config.extraIgnition = Nil THEN Nil
        ELSE LET merged == MergeIgnitionConfig(config.extraIgnition, resources, secrets)
             IN  IF merged = Refused THEN Refused
                 ELSE IF merged = EmptyDocument THEN Nil
                 ELSE [document |-> merged,
                       override |-> OrZero(config.extraIgnition.override, FALSE)]
=============================================================================
