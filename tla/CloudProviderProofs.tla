------------------------ MODULE CloudProviderProofs ------------------------
(***************************************************************************)
(* The invariants of module CloudProviderSecret, for any credentials,      *)
(* CloudProfiles, tokens and number of disturbances.                       *)
(***************************************************************************)
EXTENDS CloudProviderSecret, TLAPS, WellFoundedInduction

-----------------------------------------------------------------------------
(* The webhook *)

\* A set of positions that is not empty has a first one.
LEMMA FirstPosition ==
    ASSUME NEW matching \in SUBSET Nat, matching # {}
    PROVE  \E i \in matching : \A j \in matching : i <= j
<1> DEFINE R == {ss \in Nat \X Nat : ss[1] < ss[2]}
<1>1. IsWellFoundedOn(R, Nat)
  BY NatLessThanWellFounded DEF OpToRel
<1>2. PICK i \in matching : \A j \in matching : <<j, i>> \notin R
  <2> HIDE DEF R
  <2> QED  BY <1>1, WFMin
<1>3. ASSUME NEW j \in matching  PROVE i <= j
  BY <1>2, <<j, i>> \in Nat \X Nat
<1> QED  BY <1>3

\* The server of the region is one of a region config, or there is none.
LEMMA ServerType ==
    ASSUME NEW p \in Seq(RegionConfigs)
    PROVE  ServerOf(p) \in Given(Servers)
<1> DEFINE matching == {i \in 1..Len(p) : p[i].name = Region}
           first == CHOOSE i \in matching : \A j \in matching : i <= j
<1>1. CASE matching = {}
  BY <1>1 DEF ServerOf, Given
<1>2. CASE matching # {}
  <2>1. matching \in SUBSET Nat
    OBVIOUS
  <2>2. first \in matching
    <3>1. \E i \in matching : \A j \in matching : i <= j
      <4> HIDE DEF matching
      <4> QED  BY <1>2, <2>1, FirstPosition
    <3> HIDE DEF matching
    <3> QED  BY <3>1
  <2>3. p[first] \in RegionConfigs
    BY <2>2
  <2>4. ServerOf(p) = p[first].server
    BY <1>2 DEF ServerOf
  <2> QED  BY <2>3, <2>4 DEF RegionConfigs, Given
<1> QED  BY <1>1, <1>2

Requests == [workloadIdentity : BOOLEAN, token : Given(Tokens), namespace : Given(Namespaces),
             username : Given(Usernames)]

Coherent(s) ==
    IF s.workloadIdentity
    THEN s.kubeconfig.token = TokenFile /\ s.kubeconfig.namespace = MetalNamespace
    ELSE /\ s.kubeconfig.token = s.token /\ s.kubeconfig.user = s.username
         /\ s.kubeconfig.namespace = s.namespace

\* What the webhook lets through is a secret with its kubeconfig.
LEMMA EnsureType ==
    ASSUME NEW p \in Profiles, NEW r \in Requests,
           EnsureCloudProviderSecret(p, r) \notin {Refused, Panic}
    PROVE  /\ EnsureCloudProviderSecret(p, r) \in Stored
           /\ Coherent(EnsureCloudProviderSecret(p, r))
<1>1. p # Nil /\ p # Malformed
  BY DEF EnsureCloudProviderSecret
<1>2. p \in Seq(RegionConfigs)
  BY <1>1, CredentialsAssumption DEF CredentialsAssumption
<1>3. ServerOf(p) \in Given(Servers)
  BY <1>2, ServerType
<1>4. CASE r.workloadIdentity
  <2> DEFINE k == [server |-> ServerOf(p), user |-> "workload-identity", token |-> TokenFile,
                   namespace |-> MetalNamespace]
  <2>1. EnsureCloudProviderSecret(p, r) = EnsureWorkloadIdentitySecret(p, r)
    BY <1>1, <1>4 DEF EnsureCloudProviderSecret, IsWorkloadIdentityCloudProviderSecret
  <2>2. /\ MetalNamespace # Nil /\ ServerOf(p) # Nil
        /\ EnsureWorkloadIdentitySecret(p, r) = WithKubeconfig(r, k)
    BY <2>1 DEF EnsureWorkloadIdentitySecret
  <2>3. k \in Kubeconfigs
    BY <1>3, <2>2, CredentialsAssumption DEF CredentialsAssumption, Kubeconfigs, Given
  <2>4. k.token = TokenFile /\ k.namespace = MetalNamespace
    OBVIOUS
  <2> HIDE DEF k
  <2> QED  BY <1>4, <2>1, <2>2, <2>3, <2>4 DEF WithKubeconfig, Stored, Requests, Coherent
<1>5. CASE ~ r.workloadIdentity
  <2> DEFINE k == [server |-> ServerOf(p), user |-> r.username, token |-> r.token,
                   namespace |-> r.namespace]
  <2>1. EnsureCloudProviderSecret(p, r) = EnsureLegacySecret(p, r)
    BY <1>1, <1>5 DEF EnsureCloudProviderSecret, IsWorkloadIdentityCloudProviderSecret
  <2>2. /\ r.token # Nil /\ r.namespace # Nil /\ r.username # Nil /\ ServerOf(p) # Nil
        /\ EnsureLegacySecret(p, r) = WithKubeconfig(r, k)
    BY <2>1 DEF EnsureLegacySecret
  <2>3. k \in Kubeconfigs
    BY <1>3, <2>2 DEF Kubeconfigs, Requests, Given
  <2>4. k.token = r.token /\ k.user = r.username /\ k.namespace = r.namespace
    OBVIOUS
  <2> HIDE DEF k
  <2> QED  BY <1>5, <2>1, <2>2, <2>3, <2>4 DEF WithKubeconfig, Stored, Requests, Coherent
<1> QED  BY <1>4, <1>5 DEF Requests

\* A checksum is the data it is made of.
LEMMA ChecksumType ==
    ASSUME NEW s \in Stored
    PROVE  Checksum(s) \in Sums /\ Checksum(s) # Nil
<1>1. Checksum(s) \in Sums
  BY DEF Checksum, Sums, Stored, Given
<1> QED  BY <1>1, CredentialsAssumption DEF CredentialsAssumption

-----------------------------------------------------------------------------
(* The invariants *)

\* The data that were checked still have what is asked of a service account.
CheckedInv == checked => ValidateLegacyCloudProviderSecret(credentials)

CoherentInv == secret # Nil => Coherent(secret)

\* While a secret is current, what a reconciliation has read of it is true of it.
CurrentInv ==
    current =>
        /\ secret # Nil
        /\ sums # Nil => sums = Checksum(secret)
        /\ sums = Nil => /\ ccm # Nil /\ ccm.checksum = Checksum(secret)
                         /\ ccm.workloadIdentity = secret.workloadIdentity

IInv == TypeOK /\ CheckedInv /\ CoherentInv /\ CurrentInv

\* The initial states satisfy them all.
LEMMA InitIInv == Init => IInv
<1> SUFFICES ASSUME Init PROVE IInv
  OBVIOUS
<1>1. disturbances \in 0..MaxDisturbances
  BY CredentialsAssumption DEF CredentialsAssumption, Init
<1>2. TypeOK
  BY <1>1 DEF Init, TypeOK, Given
<1>3. CheckedInv /\ CoherentInv /\ CurrentInv
  BY DEF Init, CheckedInv, CoherentInv, CurrentInv
<1> QED  BY <1>2, <1>3 DEF IInv

\* A write through the webhook keeps the secret well-formed.
LEMMA WriteType ==
    ASSUME TypeOK, NEW r \in Requests, Write(r)
    PROVE  secret' \in Stored /\ Coherent(secret') /\ current' = FALSE
<1> DEFINE e == EnsureCloudProviderSecret(cluster, r)
<1>1. e \notin {Refused, Panic} /\ secret' = e /\ current' = FALSE
  BY DEF Write
<1>2. cluster \in Profiles
  BY DEF TypeOK
<1> QED  BY <1>1, <1>2, EnsureType

\* What gardenlet asks for is a secret without a kubeconfig.
LEMMA RequestedType ==
    ASSUME TypeOK, NEW token \in {Nil} \cup (IF secret = Nil THEN {} ELSE {secret.token})
    PROVE  Requested(token) \in Requests
<1>1. token \in Given(Tokens)
  <2>1. CASE secret = Nil
    BY <2>1 DEF Given
  <2>2. CASE secret # Nil
    <3>1. secret \in Stored
      BY <2>2 DEF TypeOK, Given
    <3> QED  BY <2>2, <3>1 DEF Stored, Given
  <2> QED  BY <2>1, <2>2
<1>2. credentials \in Requests
  BY CredentialsAssumption DEF CredentialsAssumption, Requests, TypeOK
<1>3. Nil \in Given(Tokens) /\ Nil \in Given(Namespaces) /\ Nil \in Given(Usernames)
  BY DEF Given
<1> QED  BY <1>1, <1>2, <1>3 DEF Requested, Requests

\* The counter of the disturbances stays within its bound.
LEMMA DisturbType ==
    ASSUME TypeOK, Disturb
    PROVE  disturbances' \in 0..MaxDisturbances
  BY CredentialsAssumption DEF CredentialsAssumption, TypeOK, Disturb

\* Every step leads from such a state to another.
LEMMA NextIInv ==
    ASSUME IInv, [Next]_vars
    PROVE  IInv'
<1> USE DEF IInv
<1>1. ASSUME NEW new \in Credentials, EditCredentials(new)  PROVE IInv'
  <2>1. TypeOK'
    BY <1>1, DisturbType DEF EditCredentials, TypeOK, IsWorkloadIdentityCloudProviderSecret
  <2>2. CheckedInv'
    BY <1>1 DEF EditCredentials, CheckedInv, SameData, ValidateSecretUpdate, ValidateCloudProviderSecret, ValidateLegacyCloudProviderSecret
  <2>3. CoherentInv'
    BY <1>1 DEF EditCredentials, CoherentInv
  <2>4. CurrentInv'
    BY <1>1 DEF EditCredentials, CurrentInv
  <2> QED  BY <2>1, <2>2, <2>3, <2>4 DEF IInv
<1>2. ASSUME NEW kind \in {"Secret", "WorkloadIdentity"}, CreateBinding(kind)  PROVE IInv'
  <2>1. TypeOK'
    BY <1>2, DisturbType DEF CreateBinding, TypeOK, IsWorkloadIdentityCloudProviderSecret, Given
  <2>2. CheckedInv'
    BY <1>2 DEF CreateBinding, CheckedInv, ValidateBinding, ValidateCloudProviderSecret
  <2>3. CoherentInv'
    BY <1>2 DEF CreateBinding, CoherentInv
  <2>4. CurrentInv'
    BY <1>2 DEF CreateBinding, CurrentInv
  <2> QED  BY <2>1, <2>2, <2>3, <2>4 DEF IInv
<1>3. CASE LabelCredentials
  <2>1. TypeOK'
    BY <1>3 DEF LabelCredentials, TypeOK
  <2>2. CheckedInv'
    BY <1>3 DEF LabelCredentials, CheckedInv
  <2>3. CoherentInv'
    BY <1>3 DEF LabelCredentials, CoherentInv
  <2>4. CurrentInv'
    BY <1>3 DEF LabelCredentials, CurrentInv
  <2> QED  BY <2>1, <2>2, <2>3, <2>4 DEF IInv
<1>4. ASSUME NEW new \in Profiles, UpdateProfile(new)  PROVE IInv'
  <2>1. TypeOK'
    BY <1>4, DisturbType DEF UpdateProfile, TypeOK
  <2>2. CheckedInv'
    BY <1>4 DEF UpdateProfile, CheckedInv
  <2>3. CoherentInv'
    BY <1>4 DEF UpdateProfile, CoherentInv
  <2>4. CurrentInv'
    BY <1>4 DEF UpdateProfile, CurrentInv
  <2> QED  BY <2>1, <2>2, <2>3, <2>4 DEF IInv
<1>5. CASE SyncCluster
  <2>1. TypeOK'
    BY <1>5 DEF SyncCluster, gardenVars, TypeOK
  <2>2. CheckedInv'
    BY <1>5 DEF SyncCluster, gardenVars, CheckedInv
  <2>3. CoherentInv'
    BY <1>5 DEF SyncCluster, CoherentInv
  <2>4. CurrentInv'
    BY <1>5 DEF SyncCluster, CurrentInv
  <2> QED  BY <2>1, <2>2, <2>3, <2>4 DEF IInv
<1>6. CASE DeployCloudProviderSecret
  <2>0. secret' \in Stored /\ Coherent(secret') /\ current' = FALSE
    <3>1. PICK token \in {Nil} \cup (IF secret = Nil THEN {} ELSE {secret.token}) :
              Write(Requested(token))
      BY <1>6 DEF DeployCloudProviderSecret
    <3> QED  BY <3>1, RequestedType, WriteType
  <2>1. TypeOK'
    BY <1>6, <2>0 DEF DeployCloudProviderSecret, gardenVars, TypeOK, Given
  <2>2. CheckedInv'
    BY <1>6 DEF DeployCloudProviderSecret, gardenVars, CheckedInv
  <2>3. CoherentInv'
    BY <1>6, <2>0 DEF DeployCloudProviderSecret, CoherentInv
  <2>4. CurrentInv'
    BY <1>6, <2>0 DEF DeployCloudProviderSecret, CurrentInv
  <2> QED  BY <2>1, <2>2, <2>3, <2>4 DEF IInv
<1>7. ASSUME NEW token \in Tokens, RenewToken(token)  PROVE IInv'
  <2>0. secret' \in Stored /\ Coherent(secret') /\ current' = FALSE
    <3> DEFINE r == [workloadIdentity |-> TRUE, token |-> token, namespace |-> secret.namespace,
                     username |-> secret.username]
    <3>1. secret \in Stored
      BY <1>7 DEF RenewToken, gardenVars, TypeOK, Given
    <3>2. r \in Requests
      BY <3>1 DEF Requests, Stored, Given
    <3>3. Write(r)
      BY <1>7 DEF RenewToken
    <3> HIDE DEF r
    <3> QED  BY <3>2, <3>3, WriteType
  <2>1. TypeOK'
    BY <1>7, <2>0, DisturbType DEF RenewToken, gardenVars, TypeOK, Given
  <2>2. CheckedInv'
    BY <1>7 DEF RenewToken, gardenVars, CheckedInv
  <2>3. CoherentInv'
    BY <1>7, <2>0 DEF RenewToken, CoherentInv
  <2>4. CurrentInv'
    BY <1>7, <2>0 DEF RenewToken, CurrentInv
  <2> QED  BY <2>1, <2>2, <2>3, <2>4 DEF IInv
<1>8. CASE ComputeChecksums
  <2>0. Checksum(secret) \in Sums /\ Checksum(secret) # Nil
    BY <1>8, ChecksumType DEF ComputeChecksums, gardenVars, TypeOK, Given
  <2>1. TypeOK'
    BY <1>8, <2>0 DEF ComputeChecksums, gardenVars, TypeOK, Given
  <2>2. CheckedInv'
    BY <1>8 DEF ComputeChecksums, gardenVars, CheckedInv
  <2>3. CoherentInv'
    BY <1>8 DEF ComputeChecksums, CoherentInv
  <2>4. CurrentInv'
    BY <1>8, <2>0 DEF ComputeChecksums, CurrentInv
  <2> QED  BY <2>1, <2>2, <2>3, <2>4 DEF IInv
<1>9. CASE ApplyCCM
  <2>0. ccm' \in Managers /\ ccm' # Nil
    <3>1. sums \in Sums
      BY <1>9 DEF ApplyCCM, gardenVars, TypeOK, Given
    <3>2. IsWorkloadIdentityEnabledForShoot(secret) \in BOOLEAN
      BY DEF IsWorkloadIdentityEnabledForShoot, IsWorkloadIdentityCloudProviderSecret, TypeOK, Stored, Given
    <3>3. ccm' \in Managers
      BY <1>9, <3>1, <3>2 DEF ApplyCCM, Managers
    <3> QED  BY <3>3, CredentialsAssumption DEF CredentialsAssumption
  <2>1. TypeOK'
    BY <1>9, <2>0 DEF ApplyCCM, gardenVars, TypeOK, Given
  <2>2. CheckedInv'
    BY <1>9 DEF ApplyCCM, gardenVars, CheckedInv
  <2>3. CoherentInv'
    BY <1>9 DEF ApplyCCM, CoherentInv
  <2>4. CurrentInv'
    <3>1. CASE ~ current
      BY <1>9, <3>1 DEF ApplyCCM, CurrentInv
    <3>2. CASE current
      <4>1. secret \in Stored /\ secret # Nil /\ sums = Checksum(secret)
        BY <1>9, <3>2 DEF ApplyCCM, CurrentInv, TypeOK, Given
      <4>2. IsWorkloadIdentityEnabledForShoot(secret) = secret.workloadIdentity
        <5>1. secret.workloadIdentity \in BOOLEAN
          BY <4>1 DEF Stored
        <5> QED  BY <4>1, <5>1 DEF IsWorkloadIdentityEnabledForShoot, IsWorkloadIdentityCloudProviderSecret
      <4>3. /\ ccm'.checksum = sums /\ sums' = Nil /\ secret' = secret
            /\ ccm'.workloadIdentity = IsWorkloadIdentityEnabledForShoot(secret)
        BY <1>9 DEF ApplyCCM
      <4> QED  BY <2>0, <4>1, <4>2, <4>3 DEF CurrentInv
    <3> QED  BY <3>1, <3>2
  <2> QED  BY <2>1, <2>2, <2>3, <2>4 DEF IInv
<1>10. CASE Abort
  <2>1. TypeOK'
    BY <1>10, DisturbType DEF Abort, gardenVars, TypeOK, Given
  <2>2. CheckedInv'
    BY <1>10 DEF Abort, gardenVars, CheckedInv
  <2>3. CoherentInv'
    BY <1>10 DEF Abort, CoherentInv
  <2>4. CurrentInv'
    BY <1>10 DEF Abort, CurrentInv
  <2> QED  BY <2>1, <2>2, <2>3, <2>4 DEF IInv
<1>11. CASE ApplyMCM
  <2>0. IsWorkloadIdentityEnabledForShoot(secret) \in BOOLEAN
    BY DEF IsWorkloadIdentityEnabledForShoot, IsWorkloadIdentityCloudProviderSecret, TypeOK, Stored, Given
  <2>1. TypeOK'
    BY <1>11, <2>0 DEF ApplyMCM, gardenVars, TypeOK, Given
  <2>2. CheckedInv'
    BY <1>11 DEF ApplyMCM, gardenVars, CheckedInv
  <2>3. CoherentInv'
    BY <1>11 DEF ApplyMCM, CoherentInv
  <2>4. CurrentInv'
    BY <1>11 DEF ApplyMCM, CurrentInv
  <2> QED  BY <2>1, <2>2, <2>3, <2>4 DEF IInv
<1>12. CASE UNCHANGED vars
  <2>1. TypeOK' /\ CheckedInv' /\ CoherentInv'
    BY <1>12 DEF vars, gardenVars, TypeOK, CheckedInv, CoherentInv
  <2>2. CurrentInv'
    BY <1>12 DEF vars, gardenVars, CurrentInv
  <2> QED  BY <2>1, <2>2
<1> QED
  BY <1>1, <1>2, <1>3, <1>4, <1>5, <1>6, <1>7, <1>8, <1>9, <1>10, <1>11, <1>12 DEF Next

\* All the conjuncts are invariants.
THEOREM Invariance == Spec => []IInv
<1>1. IInv /\ [Next]_vars => IInv'
  BY NextIInv
<1> QED  BY <1>1, InitIInv, PTL DEF Spec

\* Every variable keeps its type: nothing but a secret with a kubeconfig of a
\* known server gets through the webhook.
THEOREM TypeCorrect == Spec => []TypeOK
<1>1. IInv => TypeOK
  BY DEF IInv
<1> QED  BY <1>1, Invariance, PTL

\* The kubeconfig always is one for the data and the label it is stored with.
THEOREM KubeconfigsCoherent == Spec => []KubeconfigCoherent
<1>1. IInv => KubeconfigCoherent
  BY DEF IInv, CoherentInv, Coherent, KubeconfigCoherent
<1> QED  BY <1>1, Invariance, PTL

\* What is read of the secret in two steps fits together, unless it is written
\* in between or after.
THEOREM ManagersCurrent == Spec => []ManagerCurrent
<1>1. IInv => ManagerCurrent
  BY DEF IInv, CurrentInv, ManagerCurrent
<1> QED  BY <1>1, Invariance, PTL

\* Whatever the admission has checked, the webhook has a kubeconfig for, where
\* the CloudProfile has the region.
THEOREM CheckedDeploy == Spec => []CheckedCredentialsDeploy
<1>1. ASSUME IInv  PROVE CheckedCredentialsDeploy
  <2>1. SUFFICES ASSUME checked, binding = "Secret", profile \notin {Nil, Malformed},
                        ServerOf(profile) # Nil
                 PROVE  EnsureLegacySecret(profile, Requested(Nil)) # Refused
    BY DEF CheckedCredentialsDeploy
  <2> DEFINE r == Requested(Nil)
             k == [server |-> ServerOf(profile), user |-> r.username, token |-> r.token,
                   namespace |-> r.namespace]
  <2>2. /\ r.token # Nil /\ r.username # Nil /\ r.namespace # Nil
        /\ r \in Requests
    <3>1. ValidateLegacyCloudProviderSecret(credentials)
      BY <1>1, <2>1 DEF IInv, CheckedInv
    <3>2. /\ r.token = credentials.token /\ r.username = credentials.username
          /\ r.namespace = credentials.namespace
      BY <2>1 DEF Requested
    <3>3. r \in Requests
      BY <1>1, RequestedType DEF IInv
    <3> HIDE DEF r
    <3> QED  BY <3>1, <3>2, <3>3, CredentialsAssumption
             DEF CredentialsAssumption, ValidateLegacyCloudProviderSecret
  <2>3. profile \in Seq(RegionConfigs)
    BY <1>1, <2>1, CredentialsAssumption DEF CredentialsAssumption, IInv, TypeOK
  <2>4. k \in Kubeconfigs
    <3>1. ServerOf(profile) \in Servers
      BY <2>1, <2>3, ServerType DEF Given
    <3> HIDE DEF r
    <3> QED  BY <2>2, <3>1 DEF Kubeconfigs, Requests, Given
  <2>5. WithKubeconfig(r, k) \in Stored
    <3> HIDE DEF r, k
    <3> QED  BY <2>2, <2>4 DEF WithKubeconfig, Stored, Requests
  <2>6. EnsureLegacySecret(profile, r) = WithKubeconfig(r, k)
    <3> HIDE DEF r
    <3> QED  BY <2>1, <2>2 DEF EnsureLegacySecret
  <2> HIDE DEF r, k
  <2> QED  BY <2>5, <2>6, CredentialsAssumption DEF CredentialsAssumption, r
<1> QED  BY <1>1, Invariance, PTL
=============================================================================
