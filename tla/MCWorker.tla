----------------------------- MODULE MCWorker -----------------------------
(***************************************************************************)
(* Instances of module Worker for TLC: the values of its constants.        *)
(***************************************************************************)
EXTENDS Worker, SequencesExt

CONSTANT NilValue   \* a model value

MCVersions == {"v1", "v2"}
MCImages == {"v1-amd64", "v1-arm64", "v2-amd64", "v2-arm64"}
MCCapabilityValues == {"amd64", "arm64"}

Arch(a) == [n \in {"architecture"} |-> {a}]
BothArchitectures == [n \in {"architecture"} |-> {"amd64", "arm64"}]
NoDefinitions == [n \in {} |-> {}]

\* With one compatible flavor per architecture there is nothing to prefer.
MCPreference(caps) == 1

Pool(name, zones, version, type, arch, inPlace, config) ==
    [name |-> name, zones |-> zones, version |-> version, machineType |-> type,
     architecture |-> arch, inPlace |-> inPlace, config |-> config]

\* A rolling amd64 pool and an in-place arm64 pool.
A(zones, version, config) == Pool("a", zones, version, "small", "amd64", FALSE, config)
B(version) == Pool("b", 1, version, "arm", "arm64", TRUE, "plain")

MCSpecs == {<<A(1, "v1", "plain"), B("v1")>>,
            <<A(2, "v1", "extra"), B("v1")>>,
            <<B("v2"), A(1, "v2", "plain")>>,
            <<A(1, "v1", "plain")>>}

Flavor(img, a) == [image |-> img, capabilities |-> Arch(a)]
NewFormat(flavors) == [image |-> NilValue, architecture |-> NilValue, flavors |-> flavors]
OldFormat(img, a) == [image |-> img, architecture |-> a, flavors |-> {}]

V2 == {NewFormat({Flavor("v2-amd64", "amd64"), Flavor("v2-arm64", "arm64")})}

\* The provider config extra has a server label of its own and references a secret.
NoLabels == [k \in {} |-> {}]
Rack(value) == "rack" :> value
MCExtraServerLabels == ("plain" :> NoLabels) @@ ("extra" :> Rack("own"))
MCSecretRef == ("plain" :> NilValue) @@ ("extra" :> "ignition")
NoSecretRef == [config \in {"plain", "extra"} |-> NilValue]

CloudProfile(defs, v1, v2, small, arm) ==
    [definitions |-> defs,
     types |-> ("small" :> NoCapabilities) @@ ("arm" :> Arch("arm64")),
     serverLabels |-> ("small" :> small) @@ ("arm" :> arm),
     versions |-> ("v1" :> v1) @@ ("v2" :> v2)]

\* Old format, mixed format, and v1 removed; server labels that change or are missing.
MCProfiles == {
    CloudProfile(NoDefinitions,
        {OldFormat("v1-amd64", NilValue), OldFormat("v1-arm64", "arm64")}, {}, Rack("r1"), Rack("r1")),
    CloudProfile(BothArchitectures,
        {OldFormat("v1-amd64", NilValue), NewFormat({Flavor("v1-arm64", "arm64")})}, V2,
        Rack("r2") @@ ("gpu" :> "own"), Rack("r1")),
    CloudProfile(BothArchitectures, {}, V2, NoLabels, Rack("r1"))}

MCInitialStatuses == {NilValue}

MCSupports == [image \in MCImages |->
                 Arch(IF image \in {"v1-amd64", "v2-amd64"} THEN "amd64" ELSE "arm64")]

-----------------------------------------------------------------------------
(* Upgrade from a release that wrote the provider status in the old format *)
(* (an architecture and no capabilities), after v1 left the CloudProfile.  *)

LegacyStatus == << [version |-> "v1", image |-> "v1-arm64", architecture |-> "arm64",
                    capabilities |-> NoCapabilities],
                   [version |-> "v2", image |-> "v2-amd64", architecture |-> "amd64",
                    capabilities |-> NoCapabilities] >>

LegacyInitialStatuses == {LegacyStatus}
LegacySpecs == {<<B("v1"), A(1, "v2", "plain")>>}
LegacyProfiles == {CloudProfile(NoDefinitions,
    {}, {OldFormat("v2-amd64", "amd64")}, Rack("r1"), Rack("r1"))}

-----------------------------------------------------------------------------
(* Flavors that overlap: one image for every machine, and one for machines *)
(* with a certain network card, which those machines prefer.               *)

NicImages == {"generic", "tuned"}
NicCapabilityValues == {"amd64", "arm64", "std", "fast"}

Caps(a, nic) == [n \in {"architecture", "nic"} |-> IF n = "nic" THEN nic ELSE {a}]
NicDefinitions == [n \in {"architecture", "nic"} |->
                     IF n = "nic" THEN {"std", "fast"} ELSE {"amd64"}]

\* The definition of nic lists fast first, so what only supports fast wins.
NicPreference(caps) ==
    IF "nic" \in DOMAIN caps /\ caps["nic"] = {"fast"} THEN 1 ELSE 2

Generic == [image |-> "generic", capabilities |-> NoCapabilities]
GenericArch == [image |-> "generic", capabilities |-> Arch("amd64")]
Tuned == [image |-> "tuned", capabilities |-> Caps("amd64", {"fast"})]

NicProfile(flavors) ==
    [definitions |-> NicDefinitions,
     types |-> ("std" :> ("nic" :> {"std"})) @@ ("fast" :> ("nic" :> {"fast"})),
     serverLabels |-> ("std" :> Rack("r1")) @@ ("fast" :> Rack("r1")),
     versions |-> ("v1" :> flavors)]

NicProfiles == {NicProfile({NewFormat({GenericArch, Tuned})}),
                NicProfile({NewFormat({Generic}), NewFormat({Tuned})}),
                NicProfile({NewFormat({Tuned})}),
                NicProfile({})}

Std == Pool("s", 1, "v1", "std", "amd64", FALSE, "plain")
Fast == Pool("f", 1, "v1", "fast", NilValue, FALSE, "plain")
NicSpecs == {<<Std, Fast>>, <<Fast, Std>>, <<Fast>>}

\* What an image supports, whatever the lists say of it.
NicSupports == [image \in NicImages |->
                  IF image = "tuned" THEN Caps("amd64", {"fast"}) ELSE NoCapabilities]
=============================================================================
