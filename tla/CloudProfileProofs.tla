------------------------ MODULE CloudProfileProofs ------------------------
(***************************************************************************)
(* What the admission of CloudProfiles guarantees to the Worker controller *)
(* and what the merge of a status keeps, for any profiles, capabilities    *)
(* and number of updates.                                                  *)
(***************************************************************************)
EXTENDS CloudProfileAdmission, MachineImagesProofs, FiniteSetTheorems

-----------------------------------------------------------------------------
(* From the validators to the lookup *)

\* FindBestImageFlavor returns a compatible flavor if there is one.
LEMMA BestFlavorFits ==
    ASSUME NEW flavors, flavors \subseteq Flavors, NEW caps, NEW defs,
           \E f \in flavors : Compatible(f.capabilities, caps, defs)
    PROVE  BestFlavor(flavors, caps, defs) \in flavors
<1> DEFINE fitting == {g \in flavors : Compatible(g.capabilities, caps, defs)}
<1>1. PICK g \in fitting : \A h \in fitting : Preference(g.capabilities) <= Preference(h.capabilities)
  BY PreferredExists
<1> QED  BY <1>1 DEF BestFlavor

\* A valid entry comes to flavors with images.
LEMMA ValidEntryFlavors ==
    ASSUME NEW e \in ProviderVersions, ValidProviderVersion(e)
    PROVE  /\ EntryFlavors(e) \subseteq Flavors
           /\ e.flavors # {} => EntryFlavors(e) = e.flavors
           /\ e.flavors = {} => EntryFlavors(e) = {[image |-> e.image,
                  capabilities |-> ArchitectureOnly(OrAMD64(e.architecture))]}
<1>1. e.flavors \subseteq ProviderFlavors /\ e.image \in Images \cup {Nil}
  BY DEF ProviderVersions
<1>2. CASE e.flavors # {}
  <2>1. \A f \in e.flavors : f.image # Nil
    BY <1>2 DEF ValidProviderVersion
  <2>2. e.flavors \subseteq Flavors
    BY <1>1, <2>1 DEF ProviderFlavors, Flavors
  <2> QED  BY <1>2, <2>2 DEF EntryFlavors
<1>3. CASE e.flavors = {}
  <2>1. e.image \in Images /\ OrAMD64(e.architecture) \in ValidArchitectures
    BY <1>1, <1>3 DEF ValidProviderVersion
  <2>2. ArchitectureOnly(OrAMD64(e.architecture)) \in Capabilities
    BY <2>1, ArchitectureOnlyType, ArchitectureAssumption DEF ArchitectureAssumption, ValidArchitectures
  <2> QED  BY <1>3, <2>1, <2>2, NilAssumption DEF EntryFlavors, Flavors, NilAssumption
<1> QED  BY <1>2, <1>3

\* Valid entries with a compatible flavor have an image for the machine type.
LEMMA LookupSucceeds ==
    ASSUME NEW entries, entries \subseteq ProviderVersions, \A e \in entries : ValidProviderVersion(e),
           NEW caps, NEW defs,
           \E e \in entries : \E f \in EntryFlavors(e) : Compatible(f.capabilities, caps, defs)
    PROVE  LET found == FindImageInCloudProfile(entries, caps, defs)
           IN  found # Nil /\ found.image \in Images
<1> DEFINE flavors == ConvertLegacyVersionsToCapabilityFlavors(entries)
<1>1. flavors \subseteq Flavors
  BY ValidEntryFlavors DEF ConvertLegacyVersionsToCapabilityFlavors
<1>2. \E f \in flavors : Compatible(f.capabilities, caps, defs)
  BY DEF ConvertLegacyVersionsToCapabilityFlavors
<1>3. BestFlavor(flavors, caps, defs) \in Flavors
  BY <1>1, <1>2, BestFlavorFits
<1>4. FindImageInCloudProfile(entries, caps, defs) = BestFlavor(flavors, caps, defs)
  BY <1>2 DEF FindImageInCloudProfile
<1> QED  BY <1>3, <1>4, NilRecordAssumption DEF NilRecordAssumption, Flavors

\* Lists of a config are lists of entries.
LEMMA EntriesType ==
    ASSUME NEW config \in Configs, NEW v \in Versions
    PROVE  /\ Entries(config, v) \subseteq ProviderVersions
           /\ Positions(config, v) \subseteq Nat
           /\ \A i \in Positions(config, v) : config[ImageName(v)][i] \in Entries(config, v)
<1>1. ImageName(v) \in ImageNames
  BY AdmissionAssumption DEF AdmissionAssumption
<1>2. config[ImageName(v)] = Nil \/ config[ImageName(v)] \in Seq(ProviderVersions)
  BY <1>1 DEF Configs
<1> QED  BY <1>2 DEF Entries, Positions

\* FindCapabilityFlavorsVersion: the flavors of an entry, if any has some.
LEMMA FirstFlavorsOf ==
    ASSUME NEW config \in Configs, NEW v \in Versions
    PROVE  IF FirstFlavors(config, v) # {}
           THEN \E e \in Entries(config, v) : e.flavors = FirstFlavors(config, v)
           ELSE \A e \in Entries(config, v) : e.flavors = {}
<1> DEFINE listed == config[ImageName(v)]
           flavored == {i \in Positions(config, v) : listed[i].flavors # {}}
<1>1. CASE flavored = {}
  BY <1>1 DEF FirstFlavors, Entries
<1>2. CASE flavored # {}
  <2>1. PICK i \in flavored : \A j \in flavored : i <= j
    BY <1>2, EntriesType, LeastNatural
  <2>2. \E i1 \in flavored : FirstFlavors(config, v) = listed[i1].flavors
    BY <1>2, <2>1 DEF FirstFlavors
  <2> QED  BY <2>2, EntriesType
<1> QED  BY <1>1, <1>2

\* Defaulting is idempotent.
LEMMA DefaultsIdempotent ==
    ASSUME NEW caps, NEW defs
    PROVE  WithDefaults(WithDefaults(caps, defs), defs) = WithDefaults(caps, defs)
  BY DEF WithDefaults

\* The flavors of a version are complete.
LEMMA DefaultedComplete ==
    ASSUME NEW image \in CoreImages, NEW flavor \in DefaultedFlavors(image)
    PROVE  WithDefaults(flavor, MachineCapabilities) = flavor
<1>1. MachineCapabilities = [n \in DOMAIN MachineCapabilities |-> MachineCapabilities[n]]
  BY AdmissionAssumption, CapabilitiesMember DEF AdmissionAssumption
<1>2. WithDefaults(MachineCapabilities, MachineCapabilities) = MachineCapabilities
  BY <1>1 DEF WithDefaults
<1> QED  BY <1>2, DefaultsIdempotent DEF DefaultedFlavors

\* What ValidateMissingCapabilityFlavors, ValidateMissingArchitectures and
\* validateArchitectureMapping accept, FindImageInCloudProfile finds.
LEMMA MappedSelectable ==
    ASSUME NEW images \in MachineImageLists, NEW config \in Configs, NEW v \in Listed(images),
           \A e \in Entries(config, v) : ValidProviderVersion(e),
           IF UsesCapabilities THEN NoneMissing(images[v], config, v)
           ELSE images[v].architectures \subseteq AvailableArchitectures(Entries(config, v))
    PROVE  Selectable(images, config, v)
<1> DEFINE entries == Entries(config, v)
           defs == NormalizeCapabilityDefinitions(MachineCapabilities)
<1>1. v \in Versions /\ images[v] \in CoreImages
  BY DEF Listed, MachineImageLists
<1>2. entries \subseteq ProviderVersions
  BY <1>1, EntriesType
<1> SUFFICES ASSUME NEW caps \in MachineTypeCapabilities, Offered(images[v], caps)
             PROVE  \E e \in entries : \E f \in EntryFlavors(e) : Compatible(f.capabilities, caps, defs)
  BY <1>2, LookupSucceeds DEF Selectable
<1>3. CASE UsesCapabilities
  <2>1. defs = MachineCapabilities
    BY <1>3 DEF NormalizeCapabilityDefinitions, UsesCapabilities
  <2>2. PICK flavor \in DefaultedFlavors(images[v]) : Compatible(flavor, caps, MachineCapabilities)
    BY <1>3 DEF Offered
  <2>3. WithDefaults(flavor, MachineCapabilities) = flavor
    BY <1>1, DefaultedComplete
  <2>4. CASE FirstFlavors(config, v) # {}
    <3>1. PICK e \in entries : e.flavors = FirstFlavors(config, v)
      BY <1>1, <2>4, FirstFlavorsOf
    <3>2. PICK f \in e.flavors : WithDefaults(f.capabilities, MachineCapabilities) = flavor
      BY <1>3, <2>4, <3>1 DEF NoneMissing
    <3>3. Compatible(f.capabilities, caps, MachineCapabilities)
      BY <2>2, <2>3, <3>2 DEF Compatible
    <3> QED  BY <1>2, <2>1, <2>4, <3>1, <3>3, ValidEntryFlavors
  <2>5. CASE FirstFlavors(config, v) = {}
    <3>1. flavor[Architecture] \subseteq AvailableArchitectures(entries)
      BY <1>3, <2>5 DEF NoneMissing
    <3>2. Architecture \in DOMAIN MachineCapabilities /\ MachineCapabilities \in Capabilities
      BY <1>3, AdmissionAssumption DEF AdmissionAssumption
    <3>3. PICK a : a \in flavor[Architecture] /\ a \in WithDefaults(caps, MachineCapabilities)[Architecture]
      BY <2>2, <2>3, <3>2 DEF Compatible
    <3>4. PICK e \in entries : OrAMD64(e.architecture) = a
      BY <3>1, <3>3 DEF AvailableArchitectures
    <3>5. EntryFlavors(e) = {[image |-> e.image, capabilities |-> ArchitectureOnly(a)]}
      BY <1>1, <1>2, <2>5, <3>4, FirstFlavorsOf, ValidEntryFlavors
    <3>6. ASSUME NEW n \in DOMAIN MachineCapabilities
          PROVE  WithDefaults(ArchitectureOnly(a), MachineCapabilities)[n]
                    \cap WithDefaults(caps, MachineCapabilities)[n] # {}
      <4>1. CASE n = Architecture
        BY <3>3, <4>1 DEF WithDefaults, ArchitectureOnly
      <4>2. CASE n # Architecture
        <5>1. WithDefaults(ArchitectureOnly(a), MachineCapabilities)[n] = MachineCapabilities[n]
          BY <4>2 DEF WithDefaults, ArchitectureOnly
        <5>2. caps \in Capabilities /\ \A m \in DOMAIN caps : caps[m] \subseteq MachineCapabilities[m]
          BY <1>3 DEF MachineTypeCapabilities
        <5>3. MachineCapabilities[n] # {} /\ (n \in DOMAIN caps => caps[n] # {})
          BY <3>2, <5>2, CapabilitiesMember
        <5> QED  BY <5>1, <5>2, <5>3 DEF WithDefaults
      <4> QED  BY <4>1, <4>2
    <3>7. Compatible(ArchitectureOnly(a), caps, MachineCapabilities)
      BY <3>6 DEF Compatible
    <3>8. \E f \in EntryFlavors(e) : f.capabilities = ArchitectureOnly(a)
      BY <3>5
    <3> HIDE DEF defs
    <3> QED  BY <2>1, <3>7, <3>8
  <2> QED  BY <2>4, <2>5
<1>4. CASE ~UsesCapabilities
  <2>1. defs = [n \in {Architecture} |-> {AMD64, ARM64}]
    BY <1>4 DEF NormalizeCapabilityDefinitions, UsesCapabilities
  <2>2. PICK a \in images[v].architectures : caps = ArchitectureOnly(a)
    BY <1>4 DEF Offered
  <2>3. PICK e \in entries : OrAMD64(e.architecture) = a
    BY <1>4, <2>2 DEF AvailableArchitectures
  <2>4. EntryFlavors(e) = {[image |-> e.image, capabilities |-> ArchitectureOnly(a)]}
    <3>1. e.flavors = {}
      BY <1>4 DEF ValidProviderVersion
    <3> QED  BY <1>2, <2>3, <3>1, ValidEntryFlavors
  <2>5. Compatible(ArchitectureOnly(a), caps, defs)
    BY <2>1, <2>2 DEF Compatible, WithDefaults, ArchitectureOnly
  <2>6. \E f \in EntryFlavors(e) : f.capabilities = ArchitectureOnly(a)
    BY <2>4
  <2> HIDE DEF defs
  <2> QED  BY <2>5, <2>6
<1> QED  BY <1>3, <1>4

-----------------------------------------------------------------------------
(* Merging *)

\* SetToSeq lists the elements of a finite set.
LEMMA SetToSeqLists ==
    ASSUME NEW S, IsFiniteSet(S)
    PROVE  /\ SetToSeq(S) \in Seq(S)
           /\ \A x \in S : \E i \in DOMAIN SetToSeq(S) : SetToSeq(S)[i] = x
<1> DEFINE D == 1..Cardinality(S)
<1>1. Cardinality(S) \in Nat /\ ExistsBijection(D, S)
  BY FS_CardinalityType
<1>2. \E f \in [D -> S] : IsInjective(f)
  BY <1>1 DEF ExistsBijection, Bijection, Injection
<1>3. SetToSeq(S) \in [D -> S] /\ IsInjective(SetToSeq(S))
  BY <1>2 DEF SetToSeq
<1>4. SetToSeq(S) \in Injection(D, S)
  BY <1>3 DEF Injection
<1>5. Cardinality(D) = Cardinality(S)
  BY <1>1, FS_Interval
<1>6. SetToSeq(S) \in Surjection(D, S)
  BY <1>4, <1>5, FS_Injection
<1>7. SetToSeq(S) \in Seq(S)
  BY <1>1, <1>3
<1>8. DOMAIN SetToSeq(S) = D
  BY <1>3
<1> HIDE DEF D
<1> QED  BY <1>6, <1>7, <1>8 DEF Surjection

\* The last entries of a list are some of its entries.
LEMMA LastEntriesType ==
    ASSUME NEW X, NEW listed \in Seq(X)
    PROVE  /\ LastEntries(listed) \subseteq X
           /\ IsFiniteSet(LastEntries(listed))
           /\ \A e \in LastEntries(listed) : \E i \in DOMAIN listed : e = listed[i]
<1> DEFINE last == {j \in DOMAIN listed : \A k \in DOMAIN listed :
                        listed[k].version = listed[j].version => k <= j}
           f == [j \in last |-> listed[j]]
<1>1. IsFiniteSet(DOMAIN listed)
  BY FS_Interval, DOMAIN listed = 1..Len(listed), Len(listed) \in Nat
<1>2. IsFiniteSet(last)
  BY <1>1, FS_Subset
<1>3. LastEntries(listed) = {listed[i] : i \in last}
  BY DEF LastEntries
<1>4. f \in Surjection(last, LastEntries(listed))
  BY <1>3 DEF Surjection
<1>5. IsFiniteSet(LastEntries(listed))
  <2> HIDE DEF f, last
  <2> QED  BY <1>2, <1>4, FS_Surjection
<1> QED  BY <1>3, <1>5

\* The same for two merged lists.
LEMMA MergeVersionsType ==
    ASSUME NEW X, NEW a \in Seq(X), NEW b \in Seq(X)
    PROVE  /\ SetToSeq(MergeVersions(a, b)) \in Seq(X)
           /\ {SetToSeq(MergeVersions(a, b))[i] : i \in DOMAIN SetToSeq(MergeVersions(a, b))} = MergeVersions(a, b)
           /\ MergeVersions(a, b) \subseteq {a[i] : i \in DOMAIN a} \cup {b[i] : i \in DOMAIN b}
<1> DEFINE S == MergeVersions(a, b)
           rest == {e \in LastEntries(b) : \A f \in LastEntries(a) : f.version # e.version}
<1>1. S = LastEntries(a) \cup rest
  BY DEF MergeVersions
<1>2. IsFiniteSet(rest)
  BY LastEntriesType, FS_Subset
<1>3. IsFiniteSet(S) /\ S \subseteq X
  <2>1. IsFiniteSet(LastEntries(a)) /\ LastEntries(a) \subseteq X /\ LastEntries(b) \subseteq X
    BY LastEntriesType
  <2>2. IsFiniteSet(LastEntries(a) \cup rest)
    BY <1>2, <2>1, FS_Union
  <2> QED  BY <1>1, <2>1, <2>2
<1>4. S \subseteq {a[i] : i \in DOMAIN a} \cup {b[i] : i \in DOMAIN b}
  BY <1>1, LastEntriesType
<1> HIDE DEF S
<1>5. SetToSeq(S) \in Seq(S) /\ \A x \in S : \E i \in DOMAIN SetToSeq(S) : SetToSeq(S)[i] = x
  BY <1>3, SetToSeqLists
<1>6. SetToSeq(S) \in Seq(X)
  BY <1>3, <1>5
<1>7. {SetToSeq(S)[i] : i \in DOMAIN SetToSeq(S)} = S
  BY <1>5
<1> QED  BY <1>4, <1>6, <1>7 DEF S

\* mergeMachineImages yields a config and invents no entry.
LEMMA MergeType ==
    ASSUME NEW a \in Configs, NEW b \in Configs
    PROVE  /\ MergeMachineImages(a, b) \in Configs
           /\ AllEntries(MergeMachineImages(a, b)) \subseteq AllEntries(a) \cup AllEntries(b)
<1> DEFINE m == MergeMachineImages(a, b)
<1>1. ASSUME NEW n \in ImageNames
      PROVE  /\ m[n] \in Seq(ProviderVersions) \cup {Nil}
             /\ m[n] # Nil => \A i \in DOMAIN m[n] : m[n][i] \in AllEntries(a) \cup AllEntries(b)
  <2>1. a[n] \in Seq(ProviderVersions) \cup {Nil} /\ b[n] \in Seq(ProviderVersions) \cup {Nil}
    BY DEF Configs
  <2>2. \A c : c[n] # Nil => \A i \in DOMAIN c[n] : c[n][i] \in AllEntries(c)
    BY DEF AllEntries, Mapped
  <2>3. CASE b[n] = Nil
    BY <2>1, <2>2, <2>3 DEF MergeMachineImages
  <2>4. CASE b[n] # Nil /\ a[n] = Nil
    BY <2>1, <2>2, <2>4 DEF MergeMachineImages
  <2>5. CASE b[n] # Nil /\ a[n] # Nil
    <3>1. m[n] = SetToSeq(MergeVersions(a[n], b[n]))
      BY <2>5 DEF MergeMachineImages
    <3>2. a[n] \in Seq(ProviderVersions) /\ b[n] \in Seq(ProviderVersions)
      BY <2>1, <2>5
    <3>3. m[n] \in Seq(ProviderVersions)
      BY <3>1, <3>2, MergeVersionsType
    <3>4. \A i \in DOMAIN m[n] : m[n][i] \in MergeVersions(a[n], b[n])
      BY <3>1, <3>2, MergeVersionsType
    <3>5. MergeVersions(a[n], b[n]) \subseteq {a[n][j] : j \in DOMAIN a[n]} \cup {b[n][j] : j \in DOMAIN b[n]}
      BY <3>2, MergeVersionsType
    <3> QED  BY <2>2, <2>5, <3>3, <3>4, <3>5
  <2> QED  BY <2>3, <2>4, <2>5
<1>2. m = [n \in ImageNames |-> m[n]]
  BY DEF MergeMachineImages
<1> HIDE DEF m
<1>3. m \in Configs
  BY <1>1, <1>2 DEF Configs
<1>4. AllEntries(m) \subseteq AllEntries(a) \cup AllEntries(b)
  BY <1>1 DEF AllEntries, Mapped
<1> QED  BY <1>3, <1>4 DEF m

\* An empty config maps nothing.
LEMMA NoConfigType ==
    /\ NoConfig \in Configs
    /\ AllEntries(NoConfig) = {}
    /\ \A v \in Versions : Entries(NoConfig, v) = {}
<1>1. \A n \in ImageNames : NoConfig[n] = Nil
  BY DEF NoConfig
<1>2. \A v \in Versions : ImageName(v) \in ImageNames
  BY AdmissionAssumption DEF AdmissionAssumption
<1> QED  BY <1>1, <1>2 DEF NoConfig, Configs, AllEntries, Mapped, Entries, Positions

LEMMA ConfigOfType ==
    ASSUME NEW spec \in CloudProfileSpecs
    PROVE  ConfigOf(spec) \in Configs
  BY NoConfigType DEF ConfigOf, CloudProfileSpecs

\* Of at most one entry about a version, the last is all.
LEMMA LastOfOne ==
    ASSUME NEW config \in Configs, NEW v \in Versions, ImageName(v) \in Mapped(config),
           Cardinality(Positions(config, v)) <= 1
    PROVE  {e \in LastEntries(config[ImageName(v)]) : e.version = v} = Entries(config, v)
<1> DEFINE listed == config[ImageName(v)]
           P == Positions(config, v)
<1>1. listed \in Seq(ProviderVersions) /\ listed # Nil
  BY AdmissionAssumption DEF AdmissionAssumption, Configs, Mapped
<1>2. P = {i \in DOMAIN listed : listed[i].version = v} /\ P \subseteq DOMAIN listed
  BY <1>1 DEF Positions
<1>3. IsFiniteSet(P)
  <2>1. IsFiniteSet(DOMAIN listed)
    BY <1>1, FS_Interval, DOMAIN listed = 1..Len(listed), Len(listed) \in Nat
  <2> QED  BY <1>2, <2>1, FS_Subset
<1>4. \A i, j \in P : i = j
  <2> HIDE DEF P
  <2>1. Cardinality(P) = 0 \/ Cardinality(P) = 1
    BY <1>3, FS_CardinalityType DEF P
  <2>2. P = {} \/ \E x : P = {x}
    BY <1>3, <2>1, FS_EmptySet, FS_Singleton
  <2> QED  BY <2>2
<1>5. DOMAIN listed \subseteq Nat
  BY <1>1
<1>6. ASSUME NEW i \in P
      PROVE  listed[i] \in LastEntries(listed)
  BY <1>2, <1>4, <1>5 DEF LastEntries
<1>7. Entries(config, v) = {listed[i] : i \in P}
  BY DEF Entries
<1>8. \A e \in LastEntries(listed) : e.version = v => \E i \in P : e = listed[i]
  BY <1>2 DEF LastEntries
<1> QED  BY <1>2, <1>6, <1>7, <1>8

\* The entries of a merged config about a version that is not listed twice:
\* those of the first config, else those of the second.
LEMMA MergeEntries ==
    ASSUME NEW a \in Configs, NEW b \in Configs, NEW v \in Versions,
           ImageName(v) \in Mapped(a) \cap Mapped(b) =>
              Cardinality(Positions(a, v)) <= 1 /\ Cardinality(Positions(b, v)) <= 1
    PROVE  Entries(MergeMachineImages(a, b), v) =
              IF Entries(a, v) # {} THEN Entries(a, v) ELSE Entries(b, v)
<1> DEFINE m == MergeMachineImages(a, b)
           n == ImageName(v)
<1>1. n \in ImageNames
  BY AdmissionAssumption DEF AdmissionAssumption
<1>2. m[n] = IF b[n] = Nil THEN a[n]
             ELSE IF a[n] = Nil THEN b[n]
             ELSE SetToSeq(MergeVersions(a[n], b[n]))
  BY <1>1 DEF MergeMachineImages
<1>3. \A c : Entries(c, v) = IF c[n] = Nil THEN {} ELSE {c[n][i] : i \in {j \in DOMAIN c[n] : c[n][j].version = v}}
  BY DEF Entries, Positions
<1>4. CASE b[n] = Nil
  <2>1. m[n] = a[n]
    BY <1>2, <1>4
  <2>2. Entries(m, v) = Entries(a, v)
    BY <1>3, <2>1
  <2> QED  BY <1>3, <1>4, <2>2
<1>5. CASE b[n] # Nil /\ a[n] = Nil
  <2>1. m[n] = b[n]
    BY <1>2, <1>5
  <2>2. Entries(m, v) = Entries(b, v)
    BY <1>3, <2>1
  <2> QED  BY <1>3, <1>5, <2>2
<1>6. CASE b[n] # Nil /\ a[n] # Nil
  <2> DEFINE S == MergeVersions(a[n], b[n])
             A == LastEntries(a[n])
             B == LastEntries(b[n])
  <2>1. n \in Mapped(a) /\ n \in Mapped(b)
    BY <1>1, <1>6 DEF Mapped
  <2>2. {e \in A : e.version = v} = Entries(a, v) /\ {e \in B : e.version = v} = Entries(b, v)
    BY <2>1, LastOfOne
  <2>3. a[n] \in Seq(ProviderVersions) /\ b[n] \in Seq(ProviderVersions)
    BY <1>1, <1>6 DEF Configs
  <2>4. m[n] = SetToSeq(S)
    BY <1>2, <1>6
  <2>5. SetToSeq(S) \in Seq(ProviderVersions) /\ {SetToSeq(S)[i] : i \in DOMAIN SetToSeq(S)} = S
    BY <2>3, MergeVersionsType
  <2>6. m[n] # Nil
    BY <2>4, <2>5, NilProfileAssumption DEF NilProfileAssumption
  <2>7. Entries(m, v) = {e \in S : e.version = v}
    <3> HIDE DEF S, m
    <3> QED  BY <1>3, <2>4, <2>5, <2>6
  <2>8. S = A \cup {e \in B : \A f \in A : f.version # e.version}
    BY DEF MergeVersions
  <2>9. {e \in S : e.version = v} =
           IF {e \in A : e.version = v} # {} THEN {e \in A : e.version = v} ELSE {e \in B : e.version = v}
    <3> HIDE DEF S, A, B
    <3> QED  BY <2>8
  <2> QED  BY <2>2, <2>7, <2>9
<1> QED  BY <1>4, <1>5, <1>6

-----------------------------------------------------------------------------
(* The inductive invariant *)

\* What the mutator makes of the CloudProfiles that are submitted.
Submitted == {MutateProfile(profile) : profile \in Profiles}

\* The parent is validated, and never has fewer versions than what the cache
\* has of it, nor more than its pending update.
ParentInv ==
    /\ parent # Nil => ValidCloudProfile(parent)
    /\ cached # Nil => /\ cached \in Submitted
                       /\ parent # Nil
                       /\ Listed(cached.images) \subseteq Listed(parent.images)
    /\ parent # Nil => parent \in Submitted
    /\ request # Nil /\ ~request.namespaced =>
        /\ request.profile \in Submitted
        /\ parent # Nil => Listed(parent.images) \subseteq Listed(request.profile.images)

\* A spec was admitted when the parent had at most the versions it now has.
AdmittedBefore(spec, of) ==
    \E old \in Submitted :
        Listed(old.images) \subseteq Listed(of.images) /\ ValidNamespacedCloudProfile(spec, old)

NamespacedInv == ncp # Nil /\ ~ncp.deleting => parent # Nil /\ AdmittedBefore(ncp.spec, parent)

\* What was read is of an earlier generation, or of the present one.
ReadingInv ==
    reading # Nil =>
        /\ ncp # Nil
        /\ ValidCloudProfile(reading.parent)
        /\ reading.generation <= ncp.generation
        /\ reading.generation = ncp.generation =>
            /\ reading.spec = ncp.spec
            /\ ~ncp.deleting => AdmittedBefore(ncp.spec, reading.parent)

IInv == TypeOK /\ ParentInv /\ NamespacedInv /\ ReadingInv

-----------------------------------------------------------------------------
(* Types *)

\* The mutator replaces the flavors of versions that there are.
LEMMA MutateFlavorsType ==
    ASSUME NEW images \in MachineImageLists, NEW config \in Configs, NEW v \in Versions
    PROVE  IF images[v] = Nil THEN MutateMachineImageCapabilityFlavors(images, config)[v] = Nil
           ELSE MutateMachineImageCapabilityFlavors(images, config)[v] \in CoreImages
<1> DEFINE flavors == UNION {ProviderCapabilities(e) : e \in Entries(config, v)}
<1>1. ASSUME NEW e \in ProviderVersions
      PROVE  ProviderCapabilities(e) \subseteq Capabilities
  <2>1. e.flavors \subseteq ProviderFlavors /\ e.architecture \in CapabilityValues \cup {Nil}
    BY DEF ProviderVersions
  <2>2. \A f \in e.flavors : f.capabilities \in Capabilities
    BY <2>1 DEF ProviderFlavors
  <2>3. OrAMD64(e.architecture) \in CapabilityValues
    BY <2>1, ArchitectureAssumption DEF OrAMD64, ArchitectureAssumption
  <2>4. ArchitectureOnly(OrAMD64(e.architecture)) \in Capabilities
    BY <2>3, ArchitectureOnlyType
  <2> QED  BY <2>2, <2>4 DEF ProviderCapabilities
<1>2. flavors \subseteq Capabilities
  BY <1>1, EntriesType
<1>3. images[v] \in CoreImages \cup {Nil}
  BY DEF MachineImageLists
<1>4. images[v] # Nil => [images[v] EXCEPT !.flavors = flavors] \in CoreImages
  BY <1>2, <1>3 DEF CoreImages
<1> QED  BY <1>3, <1>4 DEF MutateMachineImageCapabilityFlavors

\* The mutator keeps the type of a profile, adds no version and removes none.
LEMMA MutateProfileType ==
    ASSUME NEW profile \in CloudProfileSpecs
    PROVE  /\ MutateProfile(profile) \in CloudProfileSpecs
           /\ Listed(MutateProfile(profile).images) = Listed(profile.images)
<1> DEFINE images == MutateMachineImageCapabilityFlavors(profile.images, profile.config)
<1>1. CASE ~UsesCapabilities \/ profile.config = Nil
  BY <1>1 DEF MutateProfile
<1>2. CASE UsesCapabilities /\ profile.config # Nil
  <2>1. profile.config \in Configs /\ profile.images \in MachineImageLists
    BY <1>2 DEF CloudProfileSpecs
  <2>2. images \in MachineImageLists
    <3>1. \A v \in Versions : images[v] \in CoreImages \cup {Nil}
      BY <2>1, MutateFlavorsType
    <3>2. images = [v \in Versions |-> images[v]]
      BY DEF MutateMachineImageCapabilityFlavors
    <3> HIDE DEF images
    <3> QED  BY <3>1, <3>2 DEF MachineImageLists
  <2>3. Listed(images) = Listed(profile.images)
    <3>1. \A v \in Versions : images[v] = Nil <=> profile.images[v] = Nil
      BY <2>1, MutateFlavorsType, NilProfileAssumption DEF NilProfileAssumption
    <3> HIDE DEF images
    <3> QED  BY <3>1 DEF Listed
  <2>4. MutateProfile(profile) = [images |-> images, config |-> profile.config]
    BY <1>2 DEF MutateProfile, CloudProfileSpecs
  <2> QED  BY <2>1, <2>2, <2>3, <2>4 DEF CloudProfileSpecs
<1> QED  BY <1>1, <1>2

\* A status has its type.
LEMMA StatusType ==
    ASSUME TypeOK, ParentInv, ReadingInv, WriteStatus
    PROVE  status' \in Statuses
<1>1. /\ reading \in [parent : CloudProfileSpecs, spec : CloudProfileSpecs, generation : Nat]
      /\ ncp \in NamespacedCloudProfiles
  BY DEF WriteStatus, TypeOK, ReadingInv
<1>2. reading.parent \in CloudProfileSpecs /\ reading.spec \in CloudProfileSpecs /\ reading.generation \in Nat
  BY <1>1
<1>3. reading.parent.config \in Configs
  BY <1>2 DEF WriteStatus, ReadingInv, ValidCloudProfile, CloudProfileSpecs
<1>4. MergedImages \in MachineImageLists
  BY <1>2 DEF MergedImages, CloudProfileSpecs, MachineImageLists
<1>5. ncp.spec.config # Nil => ncp.spec.config \in Configs
  BY <1>1 DEF NamespacedCloudProfiles, CloudProfileSpecs
<1>6. ncp.spec.config # Nil => MergeMachineImages(ncp.spec.config, reading.parent.config) \in Configs
  BY <1>3, <1>5, MergeType
<1> QED  BY <1>2, <1>3, <1>4, <1>6 DEF WriteStatus, Statuses

\* Only submitted profiles get anywhere.
LEMMA SubmittedType == Submitted \subseteq CloudProfileSpecs
  BY MutateProfileType, AdmissionAssumption DEF Submitted, AdmissionAssumption

\* A NamespacedCloudProfile after an admitted update, and after a deletion.
LEMMA NextNamespaced ==
    ASSUME TypeOK
    PROVE  /\ ValidateNamespacedCloudProfile =>
                \/ ncp' = ncp /\ ncp # Nil /\ request.profile = ncp.spec
                \/ ncp = Nil /\ ncp' = [spec |-> request.profile, generation |-> 1, deleting |-> FALSE]
                \/ ncp # Nil /\ ncp' = [spec |-> request.profile, generation |-> ncp.generation + 1,
                                        deleting |-> ncp.deleting]
           /\ DeleteNamespacedCloudProfile =>
                ncp' = [spec |-> ncp.spec, generation |-> ncp.generation + 1, deleting |-> TRUE]
           /\ ValidateNamespacedCloudProfile \/ DeleteNamespacedCloudProfile =>
                ncp' \in NamespacedCloudProfiles /\ ncp' # Nil
<1>1. ncp # Nil => ncp \in NamespacedCloudProfiles
  BY DEF TypeOK
<1>2. ValidateNamespacedCloudProfile => request.profile \in CloudProfileSpecs
  BY DEF ValidateNamespacedCloudProfile, TypeOK, Requests
<1>3. ValidateNamespacedCloudProfile =>
                \/ ncp' = ncp /\ ncp # Nil /\ request.profile = ncp.spec
                \/ ncp = Nil /\ ncp' = [spec |-> request.profile, generation |-> 1, deleting |-> FALSE]
                \/ ncp # Nil /\ ncp' = [spec |-> request.profile, generation |-> ncp.generation + 1,
                                        deleting |-> ncp.deleting]
  BY DEF ValidateNamespacedCloudProfile
<1>4. DeleteNamespacedCloudProfile =>
                ncp' = [spec |-> ncp.spec, generation |-> ncp.generation + 1, deleting |-> TRUE]
  BY DEF DeleteNamespacedCloudProfile
<1>5. \A p \in CloudProfileSpecs, g \in Nat, d \in BOOLEAN :
         [spec |-> p, generation |-> g, deleting |-> d] \in NamespacedCloudProfiles
  BY DEF NamespacedCloudProfiles
<1>6. ncp # Nil => /\ ncp.spec \in CloudProfileSpecs /\ ncp.deleting \in BOOLEAN
                   /\ ncp.generation + 1 \in Nat
  BY <1>1 DEF NamespacedCloudProfiles
<1>7. ValidateNamespacedCloudProfile => ncp' \in NamespacedCloudProfiles
  BY <1>1, <1>2, <1>3, <1>5, <1>6
<1>8. DeleteNamespacedCloudProfile => ncp' \in NamespacedCloudProfiles
  <2>1. DeleteNamespacedCloudProfile => ncp # Nil
    BY DEF DeleteNamespacedCloudProfile
  <2> QED  BY <1>4, <1>5, <1>6, <2>1
<1> QED  BY <1>3, <1>4, <1>7, <1>8, NilProfileAssumption DEF NilProfileAssumption

\* Every action keeps the types.
LEMMA TypeStep ==
    ASSUME TypeOK, ParentInv, ReadingInv, [Next]_vars
    PROVE  TypeOK'
<1> USE DEF TypeOK
<1>1. CASE MutateCloudProfile
  <2>1. request' \in Requests
    BY <1>1, MutateProfileType, AdmissionAssumption DEF MutateCloudProfile, Requests, AdmissionAssumption
  <2> QED  BY <1>1, <2>1 DEF MutateCloudProfile
<1>2. CASE MutateNamespacedCloudProfile
  <2>1. \E profile \in NamespacedProfiles : request' = [namespaced |-> TRUE,
            profile |-> IF Deleting THEN profile ELSE MutateProfile(profile)]
    BY <1>2 DEF MutateNamespacedCloudProfile
  <2>2. request' \in Requests
    BY <2>1, MutateProfileType, AdmissionAssumption DEF Requests, AdmissionAssumption
  <2> QED  BY <1>2, <2>2 DEF MutateNamespacedCloudProfile
<1>3. CASE ValidateCloudProfile
  BY <1>3 DEF ValidateCloudProfile, Requests
<1>4. CASE ValidateNamespacedCloudProfile
  BY <1>4, NextNamespaced DEF ValidateNamespacedCloudProfile
<1>5. CASE RejectCloudProfile \/ RejectNamespacedCloudProfile \/ SyncCache
  BY <1>5 DEF RejectCloudProfile, RejectNamespacedCloudProfile, SyncCache
<1>6. CASE DeleteNamespacedCloudProfile
  BY <1>6, NextNamespaced DEF DeleteNamespacedCloudProfile
<1>7. CASE ReadForStatus
  BY <1>7 DEF ReadForStatus, NamespacedCloudProfiles
<1>8. CASE WriteStatus
  BY <1>8, StatusType DEF WriteStatus
<1>9. CASE UNCHANGED vars
  BY <1>9 DEF vars
<1> QED  BY <1>1, <1>2, <1>3, <1>4, <1>5, <1>6, <1>7, <1>8, <1>9 DEF Next, Admission

-----------------------------------------------------------------------------
(* Safety *)

\* The webhooks keep the parent valid and growing.
LEMMA ParentStep ==
    ASSUME TypeOK, ParentInv, [Next]_vars
    PROVE  ParentInv'
<1> USE DEF ParentInv
<1>1. CASE MutateCloudProfile
  <2>1. PICK profile \in Profiles :
            /\ parent # Nil => Listed(parent.images) \subseteq Listed(profile.images)
            /\ request' = [namespaced |-> FALSE, profile |-> MutateProfile(profile)]
    BY <1>1 DEF MutateCloudProfile
  <2>2. request'.profile \in Submitted
    BY <2>1 DEF Submitted
  <2>3. Listed(MutateProfile(profile).images) = Listed(profile.images)
    BY <2>1, MutateProfileType, AdmissionAssumption DEF AdmissionAssumption
  <2> QED  BY <1>1, <2>1, <2>2, <2>3 DEF MutateCloudProfile
<1>2. CASE ValidateCloudProfile
  <2>1. parent' = request.profile /\ request.profile \in Submitted /\ request.profile # Nil
    BY <1>2, NilProfileAssumption DEF ValidateCloudProfile, NilProfileAssumption, TypeOK, Requests
  <2> QED  BY <1>2, <2>1 DEF ValidateCloudProfile
<1>3. CASE SyncCache
  BY <1>3 DEF SyncCache
<1>4. CASE RejectCloudProfile \/ RejectNamespacedCloudProfile \/ ValidateNamespacedCloudProfile
  BY <1>4 DEF RejectCloudProfile, RejectNamespacedCloudProfile, ValidateNamespacedCloudProfile
<1>5. CASE MutateNamespacedCloudProfile
  <2>1. request'.namespaced
    BY <1>5 DEF MutateNamespacedCloudProfile
  <2> QED  BY <1>5, <2>1 DEF MutateNamespacedCloudProfile
<1>6. CASE DeleteNamespacedCloudProfile \/ ReadForStatus \/ WriteStatus \/ UNCHANGED vars
  BY <1>6 DEF DeleteNamespacedCloudProfile, ReadForStatus, WriteStatus, vars
<1> QED  BY <1>1, <1>2, <1>3, <1>4, <1>5, <1>6 DEF Next, Admission

\* What an old parent admits, its successors have admitted before.
LEMMA AdmittedMonotone ==
    ASSUME NEW spec, NEW a, NEW b, AdmittedBefore(spec, a),
           Listed(a.images) \subseteq Listed(b.images)
    PROVE  AdmittedBefore(spec, b)
  BY DEF AdmittedBefore

\* An admitted spec stays admitted while the parent grows and the cache lags.
LEMMA NamespacedStep ==
    ASSUME TypeOK, ParentInv, NamespacedInv, [Next]_vars
    PROVE  NamespacedInv'
<1> USE DEF NamespacedInv
<1>1. CASE ValidateCloudProfile
  <2>1. parent' = request.profile /\ ncp' = ncp
    BY <1>1 DEF ValidateCloudProfile
  <2>2. parent # Nil => Listed(parent.images) \subseteq Listed(parent'.images)
    BY <1>1, <2>1 DEF ValidateCloudProfile, ParentInv
  <2>3. parent' # Nil
    BY <1>1, <2>1, NilProfileAssumption DEF ValidateCloudProfile, NilProfileAssumption, TypeOK, Requests
  <2> QED  BY <2>1, <2>2, <2>3, AdmittedMonotone
<1>2. CASE ValidateNamespacedCloudProfile
  <2>1. CASE Deleting
    <3>1. ncp'.deleting
      BY <1>2, <2>1, NextNamespaced DEF Deleting
    <3> QED  BY <3>1
  <2>2. CASE cached # Nil /\ ValidNamespacedCloudProfile(request.profile, cached)
    <3>1. cached \in Submitted /\ parent # Nil /\ Listed(cached.images) \subseteq Listed(parent.images)
      BY <2>2 DEF ParentInv
    <3>2. AdmittedBefore(request.profile, parent)
      BY <2>2, <3>1 DEF AdmittedBefore
    <3>3. ncp' # Nil => ncp'.spec = request.profile
      BY <1>2, NextNamespaced
    <3>4. parent' = parent
      BY <1>2 DEF ValidateNamespacedCloudProfile
    <3> QED  BY <3>1, <3>2, <3>3, <3>4
  <2> QED  BY <1>2, <2>1, <2>2 DEF ValidateNamespacedCloudProfile, AdmitsNamespaced
<1>3. CASE DeleteNamespacedCloudProfile
  <2>1. ncp'.deleting
    BY <1>3, NextNamespaced
  <2> QED  BY <2>1
<1>4. CASE \/ MutateCloudProfile \/ MutateNamespacedCloudProfile \/ RejectCloudProfile
           \/ RejectNamespacedCloudProfile \/ SyncCache \/ ReadForStatus \/ WriteStatus
           \/ UNCHANGED vars
  BY <1>4 DEF MutateCloudProfile, MutateNamespacedCloudProfile, RejectCloudProfile,
              RejectNamespacedCloudProfile, SyncCache, ReadForStatus, WriteStatus, vars
<1> QED  BY <1>1, <1>2, <1>3, <1>4 DEF Next, Admission

\* A change of the spec or a deletion is a new generation, so what was read
\* for the present one is the present spec.
LEMMA ReadingStep ==
    ASSUME TypeOK, ParentInv, NamespacedInv, ReadingInv, [Next]_vars
    PROVE  ReadingInv'
<1> USE DEF ReadingInv
<1>1. ncp # Nil => ncp.generation \in Nat
  BY DEF TypeOK, NamespacedCloudProfiles
<1>2. reading # Nil => reading.generation \in Nat
  BY DEF TypeOK
<1>3. CASE ReadForStatus
  <2>1. reading' = [parent |-> parent, spec |-> ncp.spec, generation |-> ncp.generation]
    BY <1>3 DEF ReadForStatus
  <2>2. ValidCloudProfile(parent)
    BY <1>3 DEF ReadForStatus, ParentInv
  <2>3. ncp' = ncp /\ ncp # Nil
    BY <1>3 DEF ReadForStatus
  <2> QED  BY <1>1, <2>1, <2>2, <2>3 DEF NamespacedInv
<1>4. CASE WriteStatus
  BY <1>4 DEF WriteStatus
<1>5. CASE ValidateNamespacedCloudProfile
  <2>1. reading' = reading
    BY <1>5 DEF ValidateNamespacedCloudProfile
  <2>2. reading # Nil => ncp' = ncp \/ (ncp' # Nil /\ ncp'.generation = ncp.generation + 1)
    BY <1>1, <1>5, NextNamespaced DEF TypeOK, NamespacedCloudProfiles
  <2> QED  BY <1>1, <1>2, <2>1, <2>2
<1>6. CASE DeleteNamespacedCloudProfile
  <2>1. reading' = reading
    BY <1>6 DEF DeleteNamespacedCloudProfile
  <2>2. ncp' # Nil /\ ncp'.generation = ncp.generation + 1
    BY <1>1, <1>6, NextNamespaced
  <2> QED  BY <1>1, <1>2, <2>1, <2>2
<1>7. CASE \/ MutateCloudProfile \/ MutateNamespacedCloudProfile \/ ValidateCloudProfile
           \/ RejectCloudProfile \/ RejectNamespacedCloudProfile \/ SyncCache \/ UNCHANGED vars
  BY <1>7 DEF MutateCloudProfile, MutateNamespacedCloudProfile, ValidateCloudProfile,
              RejectCloudProfile, RejectNamespacedCloudProfile, SyncCache, vars
<1> QED  BY <1>3, <1>4, <1>5, <1>6, <1>7 DEF Next, Admission

LEMMA Invariant == Spec => []IInv
<1>1. Init => IInv
  BY DEF Init, IInv, TypeOK, ParentInv, NamespacedInv, ReadingInv
<1>2. IInv /\ [Next]_vars => IInv'
  BY TypeStep, ParentStep, NamespacedStep, ReadingStep DEF IInv
<1> QED  BY <1>1, <1>2, PTL DEF Spec

\* Every variable has its type.
THEOREM TypeCorrect == Spec => []TypeOK
<1>1. IInv => TypeOK
  BY DEF IInv
<1> QED  BY <1>1, Invariant, PTL

\* Of a valid CloudProfile every version is found for every machine type that
\* it is offered for.
LEMMA ValidSelectable ==
    ASSUME NEW profile \in CloudProfileSpecs, ValidCloudProfile(profile),
           NEW v \in Listed(profile.images)
    PROVE  Selectable(profile.images, profile.config, v)
<1>1. profile.images \in MachineImageLists /\ profile.config \in Configs
  BY DEF ValidCloudProfile, CloudProfileSpecs
<1>2. ValidMapping(profile.images, profile.config, v) /\ ImageName(v) \in Mapped(profile.config)
  BY DEF ValidCloudProfile, ValidMapping
<1>3. \A e \in Entries(profile.config, v) : ValidProviderVersion(e)
  BY <1>2 DEF ValidCloudProfile, ValidProviderMachineImage, Entries, Positions
<1>4. IF UsesCapabilities THEN NoneMissing(profile.images[v], profile.config, v)
      ELSE profile.images[v].architectures \subseteq AvailableArchitectures(Entries(profile.config, v))
  BY <1>2 DEF ValidMapping
<1> QED  BY <1>1, <1>3, <1>4, MappedSelectable

\* Mutation, validation and the lookup of the Worker controller agree for any
\* CloudProfiles.
THEOREM ParentsSelectable == Spec => []ParentSelectable
<1>1. IInv => ParentSelectable
  BY ValidSelectable DEF IInv, TypeOK, ParentInv, ParentSelectable
<1> QED  BY <1>1, Invariant, PTL

\* Only the controller's write changes the status.
LEMMA StatusChange ==
    ASSUME [Next]_vars, status' # status
    PROVE  WriteStatus
  BY DEF Next, Admission, MutateCloudProfile, MutateNamespacedCloudProfile, ValidateCloudProfile,
         RejectCloudProfile, ValidateNamespacedCloudProfile, RejectNamespacedCloudProfile, SyncCache,
         DeleteNamespacedCloudProfile, ReadForStatus, vars

\* What a write merges.
LEMMA WrittenConfig ==
    ASSUME IInv, WriteStatus
    PROVE  /\ ncp.spec \in CloudProfileSpecs
           /\ reading.parent \in CloudProfileSpecs /\ reading.spec \in CloudProfileSpecs
           /\ reading.parent.config \in Configs
           /\ status'.images = MergedImages
           /\ \/ status'.config = reading.parent.config
              \/ /\ reading.generation = ncp.generation
                 /\ status'.config = MergeMachineImages(ConfigOf(ncp.spec), reading.parent.config)
           /\ reading.generation = ncp.generation /\ ~ncp.deleting /\ ncp.spec.config # Nil =>
                 status'.config = MergeMachineImages(ConfigOf(ncp.spec), reading.parent.config)
<1>1. reading # Nil /\ ncp # Nil
  BY DEF IInv, ReadingInv, WriteStatus
<1>2. ncp.spec \in CloudProfileSpecs /\ reading.parent \in CloudProfileSpecs /\ reading.spec \in CloudProfileSpecs
  BY <1>1 DEF IInv, TypeOK, NamespacedCloudProfiles
<1>3. reading.parent.config \in Configs
  BY <1>1, <1>2 DEF IInv, ReadingInv, ValidCloudProfile, CloudProfileSpecs
<1> QED  BY <1>2, <1>3 DEF WriteStatus, ShouldMergeStatus, ConfigOf

\* A written status has entries of one generation of the spec only.
THEOREM OneGeneration == Spec => StatusOfOneGeneration
<1>1. ASSUME IInv, [Next]_vars, status' # status
      PROVE  AllEntries(status'.config) \subseteq
                AllEntries(reading.parent.config) \cup AllEntries(ConfigOf(reading.spec))
  <2>1. WriteStatus
    BY <1>1, StatusChange
  <2>2. CASE status'.config = reading.parent.config
    BY <2>2
  <2>3. CASE /\ reading.generation = ncp.generation
             /\ status'.config = MergeMachineImages(ConfigOf(ncp.spec), reading.parent.config)
    <3>1. reading.spec = ncp.spec
      BY <1>1, <2>1, <2>3 DEF IInv, ReadingInv, WriteStatus
    <3>2. AllEntries(status'.config) \subseteq AllEntries(ConfigOf(ncp.spec)) \cup AllEntries(reading.parent.config)
      BY <1>1, <2>1, <2>3, WrittenConfig, ConfigOfType, MergeType
    <3> QED  BY <3>1, <3>2
  <2> QED  BY <1>1, <2>1, <2>2, <2>3, WrittenConfig
<1>2. IInv /\ [Next]_vars =>
        [status' # status => AllEntries(status'.config) \subseteq
            AllEntries(reading.parent.config) \cup AllEntries(ConfigOf(reading.spec))]_vars
  BY <1>1
<1> QED  BY <1>2, Invariant, PTL DEF Spec, StatusOfOneGeneration

\* Selectability depends on the version's image and entries only.
LEMMA SelectableBy ==
    ASSUME NEW images, NEW config, NEW others, NEW merged, NEW v,
           others[v] = images[v], Entries(merged, v) = Entries(config, v),
           Selectable(images, config, v)
    PROVE  Selectable(others, merged, v)
  BY DEF Selectable

\* A version that only an admitted NamespacedCloudProfile has is found in its
\* own config, unless it is offered for no machine type at all.
LEMMA AdmittedSelectable ==
    ASSUME NEW spec \in CloudProfileSpecs, NEW of, AdmittedBefore(spec, of),
           NEW v \in Listed(spec.images), v \notin Listed(of.images)
    PROVE  /\ Selectable(spec.images, ConfigOf(spec), v)
           /\ Entries(ConfigOf(spec), v) # {} \/ \A caps : ~Offered(spec.images[v], caps)
<1> DEFINE own == ConfigOf(spec)
<1>1. PICK old : v \notin Listed(old.images) /\ ValidNamespacedCloudProfile(spec, old)
  BY DEF AdmittedBefore
<1>2. ValidNamespacedVersion(spec.images, own, old, v)
  BY <1>1 DEF ValidNamespacedCloudProfile
<1>3. spec.images \in MachineImageLists /\ own \in Configs /\ v \in Versions
  BY ConfigOfType DEF CloudProfileSpecs, Listed
<1>4. ImageName(v) \in ImageNames
  BY <1>3, AdmissionAssumption DEF AdmissionAssumption
<1>5. \A e \in Entries(own, v) : ValidProviderVersion(e)
  <2>1. \A n \in Mapped(own) : ValidProviderMachineImage(own[n])
    BY <1>1 DEF ValidNamespacedCloudProfile
  <2> HIDE DEF own
  <2> QED  BY <1>4, <2>1 DEF ValidProviderMachineImage, Entries, Positions, Mapped
<1>6. IF UsesCapabilities
      THEN Entries(own, v) # {} /\ NoneMissing(spec.images[v], own, v)
      ELSE spec.images[v].architectures \subseteq AvailableArchitectures(Entries(own, v))
  BY <1>1, <1>2 DEF ValidNamespacedVersion
<1>7. Selectable(spec.images, own, v)
  <2> HIDE DEF own
  <2> QED  BY <1>3, <1>5, <1>6, MappedSelectable
<1>8. Entries(own, v) # {} \/ \A caps : ~Offered(spec.images[v], caps)
  BY <1>6 DEF AvailableArchitectures, Offered
<1> QED  BY <1>7, <1>8

\* Of a status of the current generation every version that the merge leaves
\* intact is found, whatever happened since the NamespacedCloudProfile was
\* admitted.
THEOREM StatusesSelectable == Spec => StatusSelectable
<1>1. ASSUME IInv, [Next]_vars, StatusAnswers, NEW v \in Listed(status'.images), Intact(v)
      PROVE  Selectable(status'.images, status'.config, v)
  <2> DEFINE own == ConfigOf(ncp.spec)
             of == reading.parent
  <2>1. WriteStatus
    BY <1>1, StatusChange DEF StatusAnswers
  <2>2. /\ ncp.spec \in CloudProfileSpecs /\ of \in CloudProfileSpecs /\ of.config \in Configs
        /\ own \in Configs /\ v \in Versions
    BY <1>1, <2>1, WrittenConfig, ConfigOfType DEF Listed
  <2>3. reading # Nil /\ ncp # Nil /\ reading.generation = ncp.generation /\ ~ncp.deleting
    BY <1>1, <2>1 DEF StatusAnswers, WriteStatus, IInv, ReadingInv
  <2>4. ValidCloudProfile(of) /\ reading.spec = ncp.spec /\ AdmittedBefore(ncp.spec, of)
    BY <1>1, <2>3 DEF IInv, ReadingInv
  <2>5. status'.images = MergedImages
    BY <1>1, <2>1, WrittenConfig
  <2>6. Entries(status'.config, v) = IF Entries(own, v) # {} THEN Entries(own, v) ELSE Entries(of.config, v)
    <3>1. CASE ncp.spec.config = Nil
      <4>1. own = NoConfig
        BY <3>1 DEF ConfigOf
      <4>2. status'.config = of.config
        BY <2>1, <3>1 DEF WriteStatus
      <4> QED  BY <2>2, <4>1, <4>2, NoConfigType
    <3>2. CASE ncp.spec.config # Nil
      <4>1. status'.config = MergeMachineImages(own, of.config)
        BY <1>1, <2>1, <2>3, <3>2, WrittenConfig
      <4>2. ImageName(v) \in Mapped(own) \cap Mapped(of.config) =>
              Cardinality(Positions(own, v)) <= 1 /\ Cardinality(Positions(of.config, v)) <= 1
        BY <1>1 DEF Intact
      <4> HIDE DEF own, of
      <4> QED  BY <2>2, <4>1, <4>2, MergeEntries
    <3> QED  BY <3>1, <3>2
  <2>7. CASE v \in Listed(of.images)
    <3>1. status'.images[v] = of.images[v]
      BY <2>2, <2>5, <2>7 DEF MergedImages, Listed
    <3>2. Entries(status'.config, v) = Entries(of.config, v)
      BY <1>1, <2>6, <2>7 DEF Intact
    <3>3. Selectable(of.images, of.config, v)
      BY <2>2, <2>4, <2>7, ValidSelectable
    <3> QED  BY <3>1, <3>2, <3>3, SelectableBy
  <2>8. CASE v \notin Listed(of.images)
    <3>1. status'.images[v] = ncp.spec.images[v]
      BY <2>2, <2>4, <2>5, <2>8 DEF MergedImages, Listed
    <3>2. v \in Listed(ncp.spec.images)
      BY <1>1, <3>1 DEF Listed
    <3>3. /\ Selectable(ncp.spec.images, own, v)
          /\ Entries(own, v) # {} \/ \A caps : ~Offered(ncp.spec.images[v], caps)
      BY <2>2, <2>4, <2>8, <3>2, AdmittedSelectable
    <3>4. CASE Entries(own, v) # {}
      BY <2>6, <3>1, <3>3, <3>4, SelectableBy
    <3>5. CASE \A caps : ~Offered(ncp.spec.images[v], caps)
      BY <3>1, <3>5 DEF Selectable
    <3> QED  BY <3>3, <3>4, <3>5
  <2> QED  BY <2>7, <2>8
<1>2. IInv /\ [Next]_vars =>
        [StatusAnswers => \A v \in Listed(status'.images) :
            Intact(v) => Selectable(status'.images, status'.config, v)]_vars
  BY <1>1
<1> QED  BY <1>2, Invariant, PTL DEF Spec, StatusSelectable

=============================================================================
