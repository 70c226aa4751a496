------------------------ MODULE MachineImagesProofs ------------------------
(***************************************************************************)
(* Facts about the image lookups and the list of used images, for any      *)
(* versions, capabilities and CloudProfiles.                               *)
(***************************************************************************)
EXTENDS MachineImages, TLAPS, SequenceTheorems, WellFoundedInduction

\* A capability definition: all values of each defined name.
CapabilityDefinitions ==
    UNION {[names -> (SUBSET CapabilityValues) \ {{}}] : names \in SUBSET CapabilityNames}

-----------------------------------------------------------------------------
(* Types *)

\* A non-empty set of natural numbers has a least element.
LEMMA LeastNatural ==
    ASSUME NEW T, T \subseteq Nat, T # {}
    PROVE  \E n \in T : \A m \in T : n <= m
<1> DEFINE R == {ss \in Nat \X Nat : ss[1] < ss[2]}
<1>1. IsWellFoundedOn(R, Nat)
  BY NatLessThanWellFounded DEF OpToRel
<1>2. \E n \in T : \A m \in T : <<m, n>> \notin R
  <2> HIDE DEF R
  <2> QED  BY <1>1, WFMin
<1>3. PICK n \in T : \A m \in T : <<m, n>> \notin R
  BY <1>2
<1>4. ASSUME NEW m \in T  PROVE n <= m
  BY <1>3, <<m, n>> \in Nat \X Nat
<1> QED  BY <1>4

\* Membership in Capabilities, pointwise.
LEMMA CapabilitiesMember ==
    ASSUME NEW f
    PROVE  f \in Capabilities <=>
             /\ DOMAIN f \subseteq CapabilityNames
             /\ f = [n \in DOMAIN f |-> f[n]]
             /\ \A n \in DOMAIN f : f[n] \in (SUBSET CapabilityValues) \ {{}}
  BY DEF Capabilities

\* An architecture as the only capability is a non-empty set of capabilities.
LEMMA ArchitectureOnlyType ==
    ASSUME NEW a \in CapabilityValues
    PROVE  /\ ArchitectureOnly(a) \in Capabilities
           /\ DOMAIN ArchitectureOnly(a) # {}
  BY ArchitectureAssumption, CapabilitiesMember DEF ArchitectureOnly

\* A defaulted architecture is one.
LEMMA OrAMD64Type ==
    ASSUME NEW a \in {AMD64, ARM64, Nil}
    PROVE  OrAMD64(a) \in {AMD64, ARM64}
  BY DEF OrAMD64

\* NormalizeCapabilityDefinitions never returns an empty list.
LEMMA DefinitionsType ==
    ASSUME NEW defs \in CapabilityDefinitions
    PROVE  /\ NormalizeCapabilityDefinitions(defs) \in CapabilityDefinitions
           /\ DOMAIN NormalizeCapabilityDefinitions(defs) # {}
<1>1. [n \in {Architecture} |-> {AMD64, ARM64}]
        \in [{Architecture} -> (SUBSET CapabilityValues) \ {{}}]
  BY ArchitectureAssumption DEF ArchitectureAssumption
<1>2. [n \in {Architecture} |-> {AMD64, ARM64}] \in CapabilityDefinitions
  BY <1>1, ArchitectureAssumption DEF CapabilityDefinitions, ArchitectureAssumption
<1> QED  BY <1>2 DEF NormalizeCapabilityDefinitions

\* NormalizeMachineTypeCapabilities always returns an architecture.
LEMMA MachineTypeCapabilitiesType ==
    ASSUME NEW caps \in Capabilities, NEW arch \in {AMD64, ARM64, Nil}, NEW defs
    PROVE  /\ NormalizeMachineTypeCapabilities(caps, arch, defs) \in Capabilities
           /\ Architecture \in DOMAIN NormalizeMachineTypeCapabilities(caps, arch, defs)
<1> DEFINE only == {a \in CapabilityValues : Architecture \in DOMAIN defs /\ defs[Architecture] = {a}}
           chosen == IF only # {} THEN only ELSE {OrAMD64(arch)}
           new == [n \in DOMAIN caps \cup {Architecture} |->
                     IF n = Architecture THEN chosen ELSE caps[n]]
<1>1. chosen \in (SUBSET CapabilityValues) \ {{}}
  BY OrAMD64Type, ArchitectureAssumption
<1>2. new \in Capabilities
  <2> HIDE DEF chosen
  <2>1. /\ DOMAIN caps \subseteq CapabilityNames
        /\ \A n \in DOMAIN caps : caps[n] \in (SUBSET CapabilityValues) \ {{}}
    BY CapabilitiesMember
  <2>2. \A n \in DOMAIN new : new[n] \in (SUBSET CapabilityValues) \ {{}}
    BY <1>1, <2>1
  <2>3. DOMAIN new \subseteq CapabilityNames
    BY <2>1, ArchitectureAssumption
  <2> QED  BY <2>2, <2>3, CapabilitiesMember
<1> QED  BY <1>2 DEF NormalizeMachineTypeCapabilities

\* Among any flavors there is a preferred one.
LEMMA PreferredExists ==
    ASSUME NEW F, F \subseteq Flavors, F # {}
    PROVE  \E g \in F : \A h \in F : Preference(g.capabilities) <= Preference(h.capabilities)
<1> DEFINE ranks == {Preference(g.capabilities) : g \in F}
<1>1. ranks \subseteq Nat /\ ranks # {}
  BY PreferenceAssumption DEF Flavors, PreferenceAssumption
<1>2. PICK r \in ranks : \A q \in ranks : r <= q
  BY <1>1, LeastNatural
<1> QED  BY <1>2

\* The flavors of well-formed entries are well-formed.
LEMMA ConvertedType ==
    ASSUME NEW entries \in SUBSET VersionEntries
    PROVE  ConvertLegacyVersionsToCapabilityFlavors(entries) \subseteq Flavors
<1>1. ASSUME NEW e \in entries  PROVE EntryFlavors(e) \subseteq Flavors
  <2>1. e.image \in Images \cup {Nil} /\ e.architecture \in {AMD64, ARM64, Nil} /\ e.flavors \subseteq Flavors
    BY DEF VersionEntries
  <2>2. ArchitectureOnly(OrAMD64(e.architecture)) \in Capabilities
    BY <2>1, OrAMD64Type, ArchitectureOnlyType, ArchitectureAssumption DEF ArchitectureAssumption
  <2> QED  BY <2>1, <2>2 DEF EntryFlavors, Flavors
<1> QED  BY <1>1 DEF ConvertLegacyVersionsToCapabilityFlavors

\* FindImageInCloudProfile returns a compatible flavor of the version, or an error.
LEMMA ProfileLookupFits ==
    ASSUME NEW entries \in SUBSET VersionEntries, NEW caps, NEW defs,
           FindImageInCloudProfile(entries, caps, defs) # Nil
    PROVE  /\ FindImageInCloudProfile(entries, caps, defs) \in ConvertLegacyVersionsToCapabilityFlavors(entries)
           /\ Compatible(FindImageInCloudProfile(entries, caps, defs).capabilities, caps, defs)
<1> DEFINE flavors == ConvertLegacyVersionsToCapabilityFlavors(entries)
           fitting == {g \in flavors : Compatible(g.capabilities, caps, defs)}
<1>1. flavors \subseteq Flavors
  BY ConvertedType
<1>2. fitting # {} /\ FindImageInCloudProfile(entries, caps, defs) = BestFlavor(flavors, caps, defs)
  BY DEF FindImageInCloudProfile
<1>3. PICK g \in fitting : \A h \in fitting : Preference(g.capabilities) <= Preference(h.capabilities)
  BY <1>1, <1>2, PreferredExists
<1> QED  BY <1>2, <1>3 DEF BestFlavor

\* FindImageInCloudProfile returns a flavor or an error.
LEMMA ProfileLookupType ==
    ASSUME NEW entries \in SUBSET VersionEntries, NEW caps, NEW defs
    PROVE  FindImageInCloudProfile(entries, caps, defs) \in Flavors \cup {Nil}
  BY ProfileLookupFits, ConvertedType

\* FindImageInWorkerStatus returns a fitting entry if there is one.
LEMMA StatusLookup ==
    ASSUME NEW images \in Seq(StatusImages), NEW version, NEW caps, NEW defs
    PROVE  LET found == FindImageInWorkerStatus(images, version, caps, defs)
           IN  IF \E i \in DOMAIN images : StatusMatches(images[i], version, caps, defs)
               THEN /\ found \in StatusImages
                    /\ found # Nil
                    /\ \E i \in DOMAIN images : found = images[i] /\ StatusMatches(found, version, caps, defs)
               ELSE found = Nil
<1> DEFINE fitting == {i \in DOMAIN images : StatusMatches(images[i], version, caps, defs)}
           first == CHOOSE i \in fitting : \A j \in fitting : i <= j
<1>1. CASE fitting = {}
  BY <1>1 DEF FindImageInWorkerStatus
<1>2. CASE fitting # {}
  <2>1. fitting \subseteq Nat
    BY DEF Seq
  <2>2. first \in fitting
    BY <1>2, <2>1, LeastNatural
  <2>3. FindImageInWorkerStatus(images, version, caps, defs) = images[first]
    BY <1>2 DEF FindImageInWorkerStatus
  <2>4. images[first] \in StatusImages
    BY <2>2
  <2> HIDE DEF first
  <2> QED  BY <2>2, <2>3, <2>4, NilRecordAssumption DEF NilRecordAssumption
<1> QED  BY <1>1, <1>2

\* selectMachineImageForWorkerPool returns an image of the wanted version or an error.
LEMMA SelectType ==
    ASSUME NEW entries \in SUBSET VersionEntries, NEW status, status = Nil \/ status \in Seq(StatusImages),
           NEW version \in Versions, NEW arch \in {AMD64, ARM64}, NEW caps, NEW defs
    PROVE  SelectMachineImageForWorkerPool(entries, status, version, arch, caps, defs) \in StatusImages \cup {Nil}
<1> DEFINE flavor == FindImageInCloudProfile(entries, caps, defs)
<1>1. flavor \in Flavors \cup {Nil}
  BY ProfileLookupType
<1>2. CASE flavor # Nil
  BY <1>1, <1>2 DEF SelectMachineImageForWorkerPool, Flavors, StatusImages
<1>3. CASE flavor = Nil
  BY <1>3, StatusLookup DEF SelectMachineImageForWorkerPool
<1> QED  BY <1>2, <1>3

\* Appending keeps the list a list of images.
LEMMA AppendType ==
    ASSUME NEW images \in Seq(StatusImages), NEW img \in StatusImages, NEW defs
    PROVE  AppendMachineImage(images, img, defs) \in Seq(StatusImages)
<1>1. [img EXCEPT !.architecture = Nil] \in StatusImages
  BY DEF StatusImages
<1> QED  BY <1>1 DEF AppendMachineImage

\* ensureUniformMachineImages gives every image capabilities.
LEMMA UniformType ==
    ASSUME NEW img \in StatusImages
    PROVE  /\ UniformImage(img) \in StatusImages
           /\ DOMAIN UniformImage(img).capabilities # {}
<1>1. img.architecture \in {AMD64, ARM64, Nil} /\ img.capabilities \in Capabilities
  BY DEF StatusImages
<1>2. /\ ArchitectureOnly(OrAMD64(img.architecture)) \in Capabilities
      /\ DOMAIN ArchitectureOnly(OrAMD64(img.architecture)) # {}
  BY <1>1, OrAMD64Type, ArchitectureOnlyType, ArchitectureAssumption DEF ArchitectureAssumption
<1> QED  BY <1>1, <1>2 DEF UniformImage, StatusImages

\* The uniform list is a list of images.
LEMMA EnsureUniformType ==
    ASSUME NEW images \in Seq(StatusImages), NEW defs
    PROVE  EnsureUniformMachineImages(images, defs) \in Seq(StatusImages)
<1>1. CASE images = << >>
  BY <1>1 DEF EnsureUniformMachineImages
<1>2. CASE images # << >>
  <2>1. SubSeq(images, 1, Len(images) - 1) \in Seq(StatusImages)
    BY <1>2
  <2>2. images[Len(images)] \in StatusImages
    BY <1>2, ElementOfSeq, LenProperties
  <2> QED  BY <1>2, <2>1, <2>2, UniformType, AppendType DEF EnsureUniformMachineImages
<1> QED  BY <1>1, <1>2

-----------------------------------------------------------------------------
(* Retention: what could be found in the list is found again.              *)

Retains(images, version, caps, defs) ==
    \E i \in DOMAIN images : StatusMatches(images[i], version, caps, defs)

\* It takes capabilities, or machines with the default architecture, for an
\* image to be found again by the same request when its architecture is lost.
Keeps(img, caps, defs) == DOMAIN img.capabilities # {} \/ RunsAMD64(caps, defs)

\* The lists that are built have no architectures.
Stripped(images) == \A i \in DOMAIN images : images[i].architecture = Nil

\* Without its architecture an image is found by its capabilities.
LEMMA StrippedMatches ==
    ASSUME NEW img, img.architecture = Nil, NEW version, NEW caps, NEW defs
    PROVE  StatusMatches(img, version, caps, defs)
               <=> img.version = version /\ Compatible(img.capabilities, caps, defs)
  BY DEF StatusMatches, StatusCapabilities

\* Capabilities with an architecture and no others fit what no capabilities fit,
\* and the reverse, as far as other names are concerned.
LEMMA ArchitectureOnlyFits ==
    ASSUME NEW a, NEW caps, NEW defs, NEW n \in DOMAIN defs, n # Architecture
    PROVE  WithDefaults(ArchitectureOnly(a), defs)[n] = WithDefaults(NoCapabilities, defs)[n]
  BY DEF WithDefaults, ArchitectureOnly, NoCapabilities

LEMMA NoCapabilitiesUnique ==
    ASSUME NEW f \in Capabilities, DOMAIN f = {}
    PROVE  f = NoCapabilities
<1>1. f = [n \in DOMAIN f |-> f[n]]
  BY CapabilitiesMember
<1> QED  BY <1>1 DEF NoCapabilities

\* An image that is found in the status and can be kept fits by its capabilities.
LEMMA StatusKeeps ==
    ASSUME NEW img \in StatusImages, NEW version, NEW caps, NEW defs,
           StatusMatches(img, version, caps, defs), Keeps(img, caps, defs)
    PROVE  img.version = version /\ Compatible(img.capabilities, caps, defs)
<1>1. CASE StatusCapabilities(img) = img.capabilities
  BY <1>1 DEF StatusMatches
<1>2. CASE StatusCapabilities(img) # img.capabilities
  <2>1. /\ DOMAIN img.capabilities = {}
        /\ StatusCapabilities(img) = ArchitectureOnly(img.architecture)
    BY <1>2 DEF StatusCapabilities
  <2>2. img.capabilities = NoCapabilities
    BY <2>1, NoCapabilitiesUnique DEF StatusImages
  <2>3. RunsAMD64(caps, defs)
    BY <2>1 DEF Keeps
  <2>4. ASSUME NEW n \in DOMAIN defs
        PROVE  WithDefaults(img.capabilities, defs)[n] \cap WithDefaults(caps, defs)[n] # {}
    <3>1. CASE n = Architecture
      <4>1. WithDefaults(NoCapabilities, defs)[n] = defs[n]
        BY DEF WithDefaults, NoCapabilities
      <4> QED  BY <2>2, <2>3, <3>1, <4>1 DEF RunsAMD64
    <3>2. CASE n # Architecture
      <4>1. WithDefaults(StatusCapabilities(img), defs)[n] = WithDefaults(NoCapabilities, defs)[n]
        BY <2>1, <3>2, ArchitectureOnlyFits
      <4>2. WithDefaults(StatusCapabilities(img), defs)[n] \cap WithDefaults(caps, defs)[n] # {}
        BY DEF StatusMatches, Compatible
      <4> QED  BY <2>2, <4>1, <4>2
    <3> QED  BY <3>1, <3>2
  <2> QED  BY <2>4 DEF StatusMatches, Compatible
<1> QED  BY <1>1, <1>2

\* Being made uniform does not change for whom an image is that can be kept.
LEMMA UniformKeeps ==
    ASSUME NEW img \in StatusImages, img.architecture = Nil, NEW caps, NEW defs,
           Compatible(img.capabilities, caps, defs), Keeps(img, caps, defs)
    PROVE  /\ Compatible(UniformImage(img).capabilities, caps, defs)
           /\ UniformImage(img).version = img.version /\ UniformImage(img).architecture = Nil
<1>1. CASE DOMAIN img.capabilities # {}
  BY <1>1 DEF UniformImage
<1>2. CASE DOMAIN img.capabilities = {}
  <2>1. /\ UniformImage(img).capabilities = ArchitectureOnly(AMD64)
        /\ UniformImage(img).version = img.version /\ UniformImage(img).architecture = Nil
    BY <1>2 DEF UniformImage, OrAMD64, StatusImages
  <2>2. img.capabilities = NoCapabilities
    BY <1>2, NoCapabilitiesUnique DEF StatusImages
  <2>3. RunsAMD64(caps, defs)
    BY <1>2 DEF Keeps
  <2>4. ASSUME NEW n \in DOMAIN defs
        PROVE  WithDefaults(ArchitectureOnly(AMD64), defs)[n] \cap WithDefaults(caps, defs)[n] # {}
    <3>1. CASE n = Architecture
      <4>1. WithDefaults(ArchitectureOnly(AMD64), defs)[n] = {AMD64}
        BY <3>1 DEF WithDefaults, ArchitectureOnly
      <4> QED  BY <2>3, <3>1, <4>1 DEF RunsAMD64
    <3>2. CASE n # Architecture
      <4>1. WithDefaults(ArchitectureOnly(AMD64), defs)[n] = WithDefaults(NoCapabilities, defs)[n]
        BY <3>2, ArchitectureOnlyFits
      <4> QED  BY <2>2, <4>1 DEF Compatible
    <3> QED  BY <3>1, <3>2
  <2> QED  BY <2>1, <2>4 DEF Compatible
<1> QED  BY <1>1, <1>2

\* Appending keeps what was retained and adds what the appended image fits:
\* where the image is dropped, one with equal capabilities is there.
LEMMA AppendRetains ==
    ASSUME NEW images \in Seq(StatusImages), Stripped(images), NEW defs, NEW img \in StatusImages
    PROVE  LET new == AppendMachineImage(images, img, defs)
           IN  /\ Stripped(new)
               /\ \A caps : Compatible(img.capabilities, caps, defs)
                               => Retains(new, img.version, caps, defs)
               /\ \A version, caps, d : Retains(images, version, caps, d)
                                        => Retains(new, version, caps, d)
<1> DEFINE stripped == [img EXCEPT !.architecture = Nil]
           new == AppendMachineImage(images, img, defs)
<1>1. CASE \E i \in DOMAIN images : SameImage(images[i], img, defs)
  <2>1. new = images
    BY <1>1 DEF AppendMachineImage
  <2>2. PICK i \in DOMAIN images : SameImage(images[i], img, defs)
    BY <1>1
  <2>3. images[i].architecture = Nil
    BY DEF Stripped
  <2>4. ASSUME NEW caps, Compatible(img.capabilities, caps, defs)
        PROVE  Retains(images, img.version, caps, defs)
    <3>1. images[i].version = img.version /\ Compatible(images[i].capabilities, caps, defs)
      BY <2>2, <2>4 DEF SameImage, EqualCapabilities, Compatible
    <3>2. StatusMatches(images[i], img.version, caps, defs)
      BY <2>3, <3>1, StrippedMatches
    <3> QED  BY <3>2 DEF Retains
  <2> QED  BY <2>1, <2>4
<1>2. CASE ~ \E i \in DOMAIN images : SameImage(images[i], img, defs)
  <2>1. new = Append(images, stripped)
    BY <1>2 DEF AppendMachineImage
  <2>2. /\ stripped.version = img.version /\ stripped.architecture = Nil
        /\ stripped.capabilities = img.capabilities
        /\ stripped \in StatusImages
    BY DEF StatusImages
  <2>3. /\ DOMAIN new = 1..Len(images) + 1
        /\ DOMAIN images = 1..Len(images)
        /\ new[Len(images) + 1] = stripped
        /\ \A i \in 1..Len(images) : new[i] = images[i]
        /\ Len(images) \in Nat
    BY <2>1, <2>2, AppendProperties, LenProperties
  <2> HIDE DEF stripped, new
  <2>4. Stripped(new)
    <3> SUFFICES ASSUME NEW i \in DOMAIN new  PROVE new[i].architecture = Nil
      BY DEF Stripped
    <3>1. i \in 1..Len(images) \/ i = Len(images) + 1
      BY <2>3
    <3> QED  BY <3>1, <2>2, <2>3 DEF Stripped
  <2>5. ASSUME NEW caps, Compatible(img.capabilities, caps, defs)
        PROVE  Retains(new, img.version, caps, defs)
    <3>1. StatusMatches(stripped, img.version, caps, defs)
      BY <2>2, <2>5, StrippedMatches
    <3> QED  BY <2>3, <3>1 DEF Retains
  <2>6. ASSUME NEW version, NEW caps, NEW d, Retains(images, version, caps, d)
        PROVE  Retains(new, version, caps, d)
    <3>1. PICK i \in DOMAIN images : StatusMatches(images[i], version, caps, d)
      BY <2>6 DEF Retains
    <3>2. i \in DOMAIN new /\ new[i] = images[i]
      BY <2>3
    <3> QED  BY <3>1, <3>2 DEF Retains
  <2> QED  BY <2>4, <2>5, <2>6 DEF new
<1> QED  BY <1>1, <1>2

\* Making the list uniform keeps, under the definitions in force, what is found
\* by requests for which the images of the version can be kept.
LEMMA EnsureUniformRetains ==
    ASSUME NEW images \in Seq(StatusImages), Stripped(images), NEW defs
    PROVE  LET new == EnsureUniformMachineImages(images, defs)
           IN  /\ Stripped(new)
               /\ \A version, caps :
                     /\ Retains(images, version, caps, defs)
                     /\ \A i \in DOMAIN images : images[i].version = version => Keeps(images[i], caps, defs)
                     => Retains(new, version, caps, defs)
<1> DEFINE n == Len(images)
           front == SubSeq(images, 1, n - 1)
           new == EnsureUniformMachineImages(images, defs)
           last == UniformImage(images[n])
<1>1. CASE images = << >>
  BY <1>1 DEF EnsureUniformMachineImages
<1>2. CASE images # << >>
  <2>1. n \in Nat \ {0} /\ DOMAIN images = 1..n
    BY <1>2, LenProperties
  <2>2. images[n] \in StatusImages /\ images[n].architecture = Nil
    BY <2>1, ElementOfSeq DEF Stripped
  <2>3. new = AppendMachineImage(front, last, defs) /\ last \in StatusImages
    BY <1>2, <2>2, UniformType DEF EnsureUniformMachineImages
  <2>4. /\ front \in Seq(StatusImages)
        /\ DOMAIN front = 1..n-1
        /\ \A i \in 1..n-1 : front[i] = images[i]
    BY <2>1
  <2> HIDE DEF n, front, new, last
  <2>5. Stripped(front)
    BY <2>1, <2>4 DEF Stripped
  <2>6. /\ Stripped(new)
        /\ \A caps : Compatible(last.capabilities, caps, defs) => Retains(new, last.version, caps, defs)
        /\ \A version, caps : Retains(front, version, caps, defs) => Retains(new, version, caps, defs)
    BY <2>3, <2>4, <2>5, AppendRetains
  <2>7. ASSUME NEW version, NEW caps, Retains(images, version, caps, defs),
               \A i \in DOMAIN images : images[i].version = version => Keeps(images[i], caps, defs)
        PROVE  Retains(new, version, caps, defs)
    <3>1. PICK i \in 1..n : StatusMatches(images[i], version, caps, defs)
      BY <2>1, <2>7 DEF Retains
    <3>2. CASE i = n
      <4>1. images[n].version = version /\ Keeps(images[n], caps, defs)
            /\ Compatible(images[n].capabilities, caps, defs)
        BY <2>1, <2>2, <2>7, <3>1, <3>2, StrippedMatches
      <4>2. Compatible(last.capabilities, caps, defs) /\ last.version = version
        BY <2>2, <4>1, UniformKeeps DEF last
      <4> QED  BY <2>6, <4>2
    <3>3. CASE i # n
      <4>1. i \in 1..n-1
        BY <2>1, <3>3
      <4>2. Retains(front, version, caps, defs)
        BY <2>4, <3>1, <4>1 DEF Retains
      <4> QED  BY <2>6, <4>2
    <3> QED  BY <3>2, <3>3
  <2> QED  BY <2>6, <2>7 DEF new
<1> QED  BY <1>1, <1>2

-----------------------------------------------------------------------------
(* The rebuilding of the whole list, by induction over the list.           *)

\* The lists that the first m iterations of ensureUniformMachineImages build.
RebuiltLists(list, images, defs, m) ==
    list = [i \in 0..m |->
        IF i = 0 THEN << >> ELSE AppendMachineImage(list[i - 1], UniformImage(images[i]), defs)]

\* They exist for any m.
LEMMA RebuildDefined ==
    ASSUME NEW images, NEW defs, NEW m \in Nat
    PROVE  \E list : RebuiltLists(list, images, defs, m)
<1> USE DEF RebuiltLists
<1> DEFINE Next(list, i) == AppendMachineImage(list[i - 1], UniformImage(images[i]), defs)
           Lists(list, k) == list = [i \in 0..k |-> IF i = 0 THEN << >> ELSE Next(list, i)]
           bad == {k \in Nat : ~ \E list : Lists(list, k)}
<1>1. 0 \notin bad
  <2> DEFINE start == [i \in 0..0 |-> << >>]
  <2>1. Lists(start, 0)
    OBVIOUS
  <2> QED  BY <2>1
<1>2. ASSUME NEW k \in Nat, k \notin bad  PROVE k + 1 \notin bad
  <2>1. PICK list : Lists(list, k)
    BY <1>2
  <2> DEFINE longer == [i \in 0..k+1 |-> IF i = k + 1 THEN Next(list, i) ELSE list[i]]
  <2>2. ASSUME NEW i \in 0..k+1
        PROVE  longer[i] = IF i = 0 THEN << >> ELSE Next(longer, i)
    <3>1. CASE i = 0
      BY <2>1, <3>1
    <3>2. CASE i # 0
      <4>1. longer[i - 1] = list[i - 1]
        BY <3>2
      <4>2. longer[i] = Next(list, i)
        BY <2>1, <3>2
      <4> QED  BY <3>2, <4>1, <4>2
    <3> QED  BY <3>1, <3>2
  <2>3. Lists(longer, k + 1)
    <3> HIDE DEF Next
    <3> QED  BY <2>2
  <2> QED  BY <2>3
<1>3. bad = {}
  <2> HIDE DEF bad
  <2>1. SUFFICES ASSUME bad # {}  PROVE FALSE
    OBVIOUS
  <2>2. bad \subseteq Nat
    BY DEF bad
  <2>3. PICK k \in bad : \A j \in bad : k <= j
    BY <2>1, <2>2, LeastNatural
  <2>4. k \in Nat /\ k # 0
    BY <1>1, <2>2, <2>3
  <2>5. k - 1 \in Nat /\ k - 1 \notin bad
    BY <2>3, <2>4
  <2> QED  BY <1>2, <2>3, <2>4, <2>5
<1> QED  BY <1>3

\* A list of uniform images that are pairwise different.
Rebuilt(images, defs) ==
    /\ \A i \in DOMAIN images :
          images[i].architecture = Nil /\ DOMAIN images[i].capabilities # {}
    /\ \A i, j \in DOMAIN images : i < j => ~SameImage(images[i], images[j], defs)

\* Rebuilding such a list, whatever its last image is, comes to rewriting that
\* one: ensureUniformMachineImages is EnsureUniformMachineImages where it is called.
LEMMA RebuildLastOnly ==
    ASSUME NEW images \in Seq(StatusImages), NEW defs,
           images # << >> => Rebuilt(SubSeq(images, 1, Len(images) - 1), defs)
    PROVE  RebuildUniform(images, defs) = EnsureUniformMachineImages(images, defs)
<1> DEFINE n == Len(images)
           list == CHOOSE l : RebuiltLists(l, images, defs, n)
<1>1. n \in Nat /\ DOMAIN images = 1..n
  BY LenProperties
<1>2. RebuiltLists(list, images, defs, n)
  <2> HIDE DEF n
  <2>1. \E l : RebuiltLists(l, images, defs, n)
    BY <1>1, RebuildDefined
  <2> QED  BY <2>1
<1>3. RebuildUniform(images, defs) = list[n]
  BY DEF RebuildUniform, RebuiltLists
<1>4. /\ list[0] = << >>
      /\ \A i \in 1..n : list[i] = AppendMachineImage(list[i - 1], UniformImage(images[i]), defs)
  <2> HIDE DEF list
  <2> QED  BY <1>1, <1>2 DEF RebuiltLists
<1> HIDE DEF list
<1>5. CASE images = << >>
  BY <1>3, <1>4, <1>5 DEF EnsureUniformMachineImages
<1>6. CASE images # << >>
  <2> DEFINE Front(k) == SubSeq(images, 1, k)
             bad == {k \in 0..n-1 : list[k] # Front(k)}
  <2>1. n \in Nat \ {0}
    BY <1>1, <1>6
  <2>2. ASSUME NEW k \in 0..n-1
        PROVE  /\ Front(k) \in Seq(StatusImages) /\ Len(Front(k)) = k
               /\ DOMAIN Front(k) = 1..k
               /\ \A i \in 1..k : Front(k)[i] = images[i]
    BY <2>1, <1>1
  <2>3. Rebuilt(Front(n - 1), defs)
    BY <1>6
  <2>4. Front(0) = << >>
    BY <2>1, <2>2, EmptySeq
  <2> HIDE DEF n, Front
  <2>5. /\ \A i \in 1..n-1 : images[i].architecture = Nil /\ DOMAIN images[i].capabilities # {}
        /\ \A i, j \in 1..n-1 : i < j => ~SameImage(images[i], images[j], defs)
    <3>1. n - 1 \in 0..n-1
      BY <2>1
    <3>2. DOMAIN Front(n - 1) = 1..n-1 /\ \A i \in 1..n-1 : Front(n - 1)[i] = images[i]
      BY <2>2, <3>1
    <3> QED  BY <2>3, <3>2 DEF Rebuilt
  <2>6. ASSUME NEW k \in 1..n-1, list[k - 1] = Front(k - 1)
        PROVE  list[k] = Front(k)
    <3>1. images[k] \in StatusImages
      BY <1>1, <2>1, ElementOfSeq
    <3>2. images[k].architecture = Nil /\ DOMAIN images[k].capabilities # {}
      BY <2>5
    <3>3. UniformImage(images[k]) = images[k] /\ [images[k] EXCEPT !.architecture = Nil] = images[k]
      BY <3>1, <3>2 DEF UniformImage, StatusImages
    <3>4. ~ \E i \in DOMAIN Front(k - 1) : SameImage(Front(k - 1)[i], images[k], defs)
      <4> SUFFICES ASSUME NEW i \in 1..k-1  PROVE ~SameImage(images[i], images[k], defs)
        BY <2>1, <2>2
      <4>1. i \in 1..n-1 /\ k \in 1..n-1 /\ i < k
        BY <2>1
      <4> QED  BY <2>5, <4>1
    <3>5. list[k] = AppendMachineImage(Front(k - 1), images[k], defs)
      <4>1. k \in 1..n
        BY <2>1
      <4> QED  BY <1>4, <2>6, <3>3, <4>1
    <3>6. list[k] = Append(Front(k - 1), images[k])
      BY <3>3, <3>4, <3>5 DEF AppendMachineImage
    <3>7. Append(Front(k - 1), images[k]) = Front(k)
      <4>1. k \in Nat /\ k - 1 \in 0..n-1 /\ k \in 0..n-1
        BY <2>1
      <4>2. /\ Front(k - 1) \in Seq(StatusImages) /\ Len(Front(k - 1)) = k - 1
            /\ \A i \in 1..k-1 : Front(k - 1)[i] = images[i]
            /\ Front(k) \in Seq(StatusImages) /\ Len(Front(k)) = k
            /\ \A i \in 1..k : Front(k)[i] = images[i]
        BY <2>2, <4>1
      <4> DEFINE appended == Append(Front(k - 1), images[k])
      <4>3. /\ appended \in Seq(StatusImages) /\ Len(appended) = k
            /\ \A i \in 1..k-1 : appended[i] = Front(k - 1)[i]
            /\ appended[k] = images[k]
        BY <3>1, <4>1, <4>2, AppendProperties
      <4>4. \A i \in 1..k : appended[i] = Front(k)[i]
        BY <4>1, <4>2, <4>3
      <4> QED  BY <4>2, <4>3, <4>4, SeqEqual
    <3> QED  BY <3>6, <3>7
  <2>7. bad = {}
    <3> HIDE DEF bad
    <3>1. SUFFICES ASSUME bad # {}  PROVE FALSE
      OBVIOUS
    <3>2. bad \subseteq Nat
      BY <2>1 DEF bad
    <3>3. PICK k \in bad : \A j \in bad : k <= j
      BY <3>1, <3>2, LeastNatural
    <3>4. k # 0
      BY <1>4, <2>4, <3>3 DEF bad
    <3>5. k \in 1..n-1 /\ k - 1 \in 0..n-1 /\ k - 1 \notin bad
      BY <2>1, <3>3, <3>4 DEF bad
    <3>6. list[k - 1] = Front(k - 1)
      BY <3>5 DEF bad
    <3>7. list[k] = Front(k)
      BY <2>6, <3>5, <3>6
    <3> QED  BY <3>3, <3>7 DEF bad
  <2>8. n - 1 \in 0..n-1
    BY <2>1
  <2>9. list[n - 1] = Front(n - 1)
    BY <2>7, <2>8
  <2>10. list[n] = AppendMachineImage(Front(n - 1), UniformImage(images[n]), defs)
    BY <1>4, <2>1, <2>9
  <2> QED  BY <1>3, <1>6, <2>10 DEF EnsureUniformMachineImages, n, Front
<1> QED  BY <1>5, <1>6

\* Appending an image that is made uniform keeps such a list, and the next image
\* appended is the last one.
LEMMA AppendRebuilt ==
    ASSUME NEW images \in Seq(StatusImages), NEW img \in StatusImages, NEW defs,
           Rebuilt(images, defs), DOMAIN img.capabilities # {}
    PROVE  Rebuilt(AppendMachineImage(images, img, defs), defs)
<1> DEFINE stripped == [img EXCEPT !.architecture = Nil]
           new == Append(images, stripped)
<1>1. CASE \E i \in DOMAIN images : SameImage(images[i], img, defs)
  BY <1>1 DEF AppendMachineImage
<1>2. CASE ~ \E i \in DOMAIN images : SameImage(images[i], img, defs)
  <2>1. AppendMachineImage(images, img, defs) = new
    BY <1>2 DEF AppendMachineImage
  <2>2. /\ stripped \in StatusImages /\ stripped.version = img.version
        /\ stripped.capabilities = img.capabilities /\ stripped.architecture = Nil
    BY DEF StatusImages
  <2>3. /\ DOMAIN new = 1..Len(images) + 1
        /\ DOMAIN images = 1..Len(images)
        /\ new[Len(images) + 1] = stripped
        /\ \A i \in 1..Len(images) : new[i] = images[i]
        /\ Len(images) \in Nat
    BY <2>2, AppendProperties, LenProperties
  <2>4. \A i \in DOMAIN images : ~SameImage(images[i], stripped, defs)
    BY <1>2, <2>2 DEF SameImage
  <2> HIDE DEF stripped, new
  <2>5. ASSUME NEW i \in DOMAIN new
        PROVE  new[i].architecture = Nil /\ DOMAIN new[i].capabilities # {}
    <3>1. i \in 1..Len(images) \/ i = Len(images) + 1
      BY <2>3
    <3> QED  BY <3>1, <2>2, <2>3 DEF Rebuilt
  <2>6. ASSUME NEW i \in DOMAIN new, NEW j \in DOMAIN new, i < j
        PROVE  ~SameImage(new[i], new[j], defs)
    <3>1. i \in 1..Len(images)
      BY <2>3, <2>6
    <3>2. CASE j = Len(images) + 1
      BY <2>3, <2>4, <3>1, <3>2
    <3>3. CASE j # Len(images) + 1
      <4>1. j \in 1..Len(images)
        BY <2>3, <3>3
      <4> QED  BY <2>3, <2>6, <3>1, <4>1 DEF Rebuilt
    <3> QED  BY <3>2, <3>3
  <2> QED  BY <2>1, <2>5, <2>6 DEF Rebuilt
<1> QED  BY <1>1, <1>2

\* Without its last image such a list is one.
LEMMA FrontRebuilt ==
    ASSUME NEW images \in Seq(StatusImages), NEW defs, Rebuilt(images, defs), images # << >>
    PROVE  Rebuilt(SubSeq(images, 1, Len(images) - 1), defs)
<1> DEFINE n == Len(images)
           front == SubSeq(images, 1, n - 1)
<1>1. n \in Nat \ {0} /\ DOMAIN images = 1..n
  BY LenProperties, EmptySeq
<1>2. DOMAIN front = 1..n-1 /\ \A i \in 1..n-1 : front[i] = images[i]
  BY <1>1
<1> HIDE DEF n, front
<1>3. 1..n-1 \subseteq DOMAIN images
  BY <1>1
<1>4. Rebuilt(front, defs)
  BY <1>2, <1>3 DEF Rebuilt
<1> QED  BY <1>4 DEF front, n

\* Whatever is appended to such a list comes last.
LEMMA AppendFront ==
    ASSUME NEW images \in Seq(StatusImages), NEW img \in StatusImages, NEW defs,
           Rebuilt(images, defs)
    PROVE  LET new == AppendMachineImage(images, img, defs)
           IN  new # << >> => Rebuilt(SubSeq(new, 1, Len(new) - 1), defs)
<1> DEFINE stripped == [img EXCEPT !.architecture = Nil]
<1>1. CASE \E i \in DOMAIN images : SameImage(images[i], img, defs)
  BY <1>1, FrontRebuilt DEF AppendMachineImage
<1>2. CASE ~ \E i \in DOMAIN images : SameImage(images[i], img, defs)
  <2>1. stripped \in StatusImages
    BY DEF StatusImages
  <2> DEFINE new == Append(images, stripped)
             front == SubSeq(new, 1, Len(new) - 1)
  <2>2. AppendMachineImage(images, img, defs) = new
    BY <1>2 DEF AppendMachineImage
  <2> HIDE DEF stripped
  <2>3. front = images
    <3>1. Len(images) \in Nat
      BY LenProperties
    <3>2. /\ new \in Seq(StatusImages) /\ Len(new) = Len(images) + 1
          /\ \A i \in 1..Len(images) : new[i] = images[i]
      BY <2>1, AppendProperties
    <3> HIDE DEF new
    <3>3. /\ front \in Seq(StatusImages) /\ Len(front) = Len(images)
          /\ \A i \in 1..Len(images) : front[i] = new[i]
      BY <3>1, <3>2
    <3> HIDE DEF front
    <3> QED  BY <3>1, <3>2, <3>3, SeqEqual
  <2> QED  BY <2>2, <2>3
<1> QED  BY <1>1, <1>2
=============================================================================
