-------------------------- MODULE MCCloudProfile --------------------------
(***************************************************************************)
(* Instances of module CloudProfileAdmission for TLC: two versions of an   *)
(* image that the parent has, one of an image that it does not have.       *)
(***************************************************************************)
EXTENDS CloudProfileAdmission

CONSTANT NilValue   \* a model value

MCVersions == {"gl1", "gl2", "ub1"}
MCImageName(v) == IF v = "ub1" THEN "ub" ELSE "gl"
MCImages == {"x", "y"}
MCPreference(caps) == Cardinality(DOMAIN caps)

NoMachineCapabilities == [n \in {} |-> {}]
MCMachineCapabilities ==
    [n \in {"architecture", "nic"} |-> IF n = "nic" THEN {"10g", "25g"} ELSE {"amd64", "arm64"}]
MCCapabilityValues == {"amd64", "arm64", "10g", "25g"}
LegacyCapabilityValues == {"amd64", "arm64"}

On(a) == [n \in {"architecture"} |-> {a}]
Fast(a) == [n \in {"architecture", "nic"} |-> IF n = "nic" THEN {"25g"} ELSE {a}]

Legacy(v, img, a) == [version |-> v, image |-> img, architecture |-> a, flavors |-> {}]
Flavored(v, capabilities) ==
    [version |-> v, image |-> NilValue, architecture |-> NilValue,
     flavors |-> {[image |-> "y", capabilities |-> caps] : caps \in capabilities}]

\* Lists of entries about a version: a missing architecture, both, an empty
\* image, the new format.
LegacyLists(v) == {<<>>, <<Legacy(v, "x", NilValue)>>, <<Legacy(v, "x", "arm64")>>,
                   <<Legacy(v, "x", "amd64"), Legacy(v, "y", "arm64")>>,
                   <<Legacy(v, NilValue, "amd64"), Legacy(v, NilValue, "arm64")>>}
FlavorLists(v) == {<<Flavored(v, {On("amd64"), Fast("arm64")})>>,
                   <<Flavored(v, {Fast("amd64")}), Flavored(v, {On("arm64")})>>,
                   <<Flavored(v, {Fast("amd64")}), Legacy(v, "x", "arm64")>>}

\* What is not given is absent.
Mapping(lists) == [n \in {"gl", "ub"} |-> IF n \in DOMAIN lists THEN lists[n] ELSE NilValue]
Listing(images) == [v \in MCVersions |-> IF v \in DOMAIN images THEN images[v] ELSE NilValue]
Profile(images, lists) == [images |-> Listing(images), config |-> Mapping(lists)]
Unmapped(images) == [images |-> Listing(images), config |-> NilValue]

CoreImage(architectures) == [flavors |-> {}, architectures |-> architectures]
CoreFlavors(flavors) == [flavors |-> flavors, architectures |-> {"amd64"}]

-----------------------------------------------------------------------------
(* CloudProfiles: each list of entries, an empty and a missing config, and *)
(* some that may follow each other.                                        *)

LegacyParents ==
    {Profile("gl1" :> CoreImage(archs), "gl" :> gl1) :
        archs \in {{"amd64"}, {"amd64", "arm64"}}, gl1 \in LegacyLists("gl1")}
    \cup {Profile(("gl1" :> CoreImage({"amd64"})) @@ ("gl2" :> CoreImage({"arm64"})),
                  "gl" :> <<Legacy("gl1", "x", NilValue), Legacy("gl2", "y", "arm64")>>),
          Profile("gl1" :> CoreImage({"amd64"}), <<>>),
          Unmapped("gl1" :> CoreImage({"amd64"}))}

FlavorParents ==
    {Profile("gl1" :> CoreFlavors({}), "gl" :> gl1) :
        gl1 \in {l \in LegacyLists("gl1") : Len(l) = 2} \cup FlavorLists("gl1")}
    \cup {Profile(("gl1" :> CoreFlavors({})) @@ ("gl2" :> CoreFlavors({})),
                  "gl" :> <<Flavored("gl1", {On("amd64")}), Flavored("gl2", {Fast("arm64")})>>),
          Unmapped("gl1" :> CoreFlavors({}))}

-----------------------------------------------------------------------------
(* NamespacedCloudProfiles: nothing of their own, a version of an image of *)
(* the parent, an image of their own, and some that the validator refuses. *)

LegacyChildren ==
    {Unmapped("gl1" :> CoreImage({"amd64"})),
     Profile("gl2" :> CoreImage({"amd64"}), "gl" :> <<Legacy("gl2", "y", NilValue)>>),
     Profile("gl2" :> CoreImage({"amd64", "arm64"}), "gl" :> <<Legacy("gl2", "y", NilValue)>>),
     Profile(("gl1" :> CoreImage({"amd64"})) @@ ("ub1" :> CoreImage({"amd64", "arm64"})),
             "ub" :> <<Legacy("ub1", "x", "amd64"), Legacy("ub1", "y", "arm64")>>),
     Profile("gl1" :> CoreImage({"amd64"}), "gl" :> <<Legacy("gl2", "x", NilValue)>>)}

FlavorChildren ==
    {Unmapped("gl1" :> CoreFlavors({})),
     Profile("gl2" :> CoreFlavors({}), "gl" :> <<Legacy("gl2", "y", NilValue)>>),
     Profile("gl2" :> CoreFlavors({}), "gl" :> <<Flavored("gl2", {Fast("amd64"), On("arm64")})>>),
     Profile(("gl1" :> CoreFlavors({})) @@ ("ub1" :> CoreFlavors({On("amd64")})),
             "ub" :> <<Legacy("ub1", "x", "amd64"), Legacy("ub1", "y", "arm64")>>),
     Profile("ub1" :> CoreFlavors({}), "ub" :> <<Flavored("ub1", {On("amd64")}), Legacy("ub1", "y", "arm64")>>)}

=============================================================================
