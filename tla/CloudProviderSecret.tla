------------------------ MODULE CloudProviderSecret ------------------------
(***************************************************************************)
(* The credentials of a shoot, from the secret of a user in the garden to  *)
(* the cloudprovider secret in the seed, with the kubeconfig that the      *)
(* webhook adds to it, and to the managers that mount it.                  *)
(*                                                                         *)
(* The admission checks the secret when a binding refers to it and when    *)
(* its data are changed (pkg/admission/validator), gardenlet copies it or  *)
(* makes one for a WorkloadIdentity, the webhook sees each of its writes   *)
(* (pkg/webhook/cloudprovider), and the controllers read the result at     *)
(* different times (pkg/metal/workloadidentity.go).                        *)
(***************************************************************************)
EXTENDS Naturals, Sequences

CONSTANTS
    Nil, Refused, Panic,
    Malformed,          \* a provider config that is not decoded
    Tokens, Namespaces, Usernames, Servers,
    ValidNamespaces,    \* the names Kubernetes accepts for a namespace
    Credentials,        \* the secrets users may have
    Region, Regions,    \* that of the shoot, all of them
    Profiles,           \* the provider configs of the CloudProfile
    MetalNamespace,     \* the flag --metal-namespace, Nil if it is empty
    TokenFile,          \* /etc/metal/token
    MaxDisturbances     \* bounds edits, renewals and aborted reconciliations

Given(S) == S \cup {Nil}

RegionConfigs == [name : Regions, server : Servers]

Kubeconfigs == [server : Servers, user : Usernames \cup {"workload-identity"},
                token : Tokens \cup {TokenFile}, namespace : Namespaces]

Stored == [workloadIdentity : BOOLEAN, token : Given(Tokens), namespace : Given(Namespaces),
           username : Given(Usernames), kubeconfig : Kubeconfigs]

Sums == [token : Given(Tokens), namespace : Given(Namespaces), username : Given(Usernames),
         kubeconfig : Given(Kubeconfigs)]

Managers == [checksum : Sums, workloadIdentity : BOOLEAN]

ASSUME CredentialsAssumption ==
    /\ Refused # Panic /\ Refused # Nil /\ Panic # Nil
    /\ Nil \notin Tokens /\ Nil \notin Namespaces /\ Nil \notin Usernames /\ Nil \notin Servers
    /\ ValidNamespaces \subseteq Namespaces /\ TokenFile \notin Tokens
    /\ Nil \notin ValidNamespaces /\ Nil \notin Sums \cup Stored \cup Managers
    /\ Refused \notin Stored
    /\ Credentials \subseteq [workloadIdentity : BOOLEAN, token : Given(Tokens),
                              namespace : Given(Namespaces), username : Given(Usernames)]
    /\ Profiles \subseteq Seq(RegionConfigs) \cup {Nil, Malformed}
    /\ Malformed \notin Seq(RegionConfigs) \cup {Nil} /\ Nil \notin Seq(RegionConfigs)
    /\ Region \in Regions /\ MetalNamespace \in Given(Namespaces)
    /\ MaxDisturbances \in Nat

-----------------------------------------------------------------------------
(* The admission: what a secret must have.                                 *)

\* A secret's label for the requestor of the tokens.
IsWorkloadIdentityCloudProviderSecret(secret) == secret.workloadIdentity

\* Mutant: the name of the user is not asked for.
ValidateWithoutUsername(secret) ==
    secret.token # Nil /\ secret.namespace \in ValidNamespaces

ValidateLegacyCloudProviderSecret(secret) ==
    /\ secret.token # Nil /\ secret.username # Nil
    /\ secret.namespace \in ValidNamespaces

ValidateCloudProviderSecret(secret) ==
    \/ IsWorkloadIdentityCloudProviderSecret(secret)
    \/ ValidateLegacyCloudProviderSecret(secret)

SameData(a, b) == a.token = b.token /\ a.namespace = b.namespace /\ a.username = b.username

ValidateSecretUpdate(new, old) == SameData(new, old) \/ ValidateCloudProviderSecret(new)

\* The credentials a CredentialsBinding refers to; a SecretBinding is one to a secret.
ValidateBinding(kind, secret) ==
    \/ kind = "Secret" /\ ValidateCloudProviderSecret(secret)
    \/ kind = "WorkloadIdentity"

-----------------------------------------------------------------------------
(* The webhook: the kubeconfig.                                            *)

\* Mutant: the first region, whatever its name.
FirstRegion(profile) == IF profile = <<>> THEN Nil ELSE profile[1].server

\* The server and authority of the first entry of the shoot's region.
ServerOf(profile) ==
    LET matching == {i \in 1..Len(profile) : profile[i].name = Region}
    IN  IF matching = {} THEN Nil
        ELSE profile[CHOOSE i \in matching : \A j \in matching : i <= j].server

WithKubeconfig(secret, kubeconfig) ==
    [workloadIdentity |-> secret.workloadIdentity, token |-> secret.token,
     namespace |-> secret.namespace, username |-> secret.username, kubeconfig |-> kubeconfig]

\* Mutant: a region that is not found is no error.
EnsureInAnyRegion(profile, secret) ==
    IF MetalNamespace = Nil THEN Refused
    ELSE WithKubeconfig(secret, [server |-> ServerOf(profile), user |-> "workload-identity",
                                 token |-> TokenFile, namespace |-> MetalNamespace])

EnsureWorkloadIdentitySecret(profile, secret) ==
    IF MetalNamespace = Nil \/ ServerOf(profile) = Nil THEN Refused
    ELSE WithKubeconfig(secret, [server |-> ServerOf(profile), user |-> "workload-identity",
                                 token |-> TokenFile, namespace |-> MetalNamespace])

\* Mutant: the context has the namespace of the flag.
EnsureInMetalNamespace(profile, secret) ==
    IF secret.token = Nil \/ secret.namespace = Nil \/ secret.username = Nil \/ ServerOf(profile) = Nil
    THEN Refused
    ELSE WithKubeconfig(secret, [server |-> ServerOf(profile), user |-> secret.username,
                                 token |-> secret.token, namespace |-> MetalNamespace])

EnsureLegacySecret(profile, secret) ==
    IF secret.token = Nil \/ secret.namespace = Nil \/ secret.username = Nil \/ ServerOf(profile) = Nil
    THEN Refused
    ELSE WithKubeconfig(secret, [server |-> ServerOf(profile), user |-> secret.username,
                                 token |-> secret.token, namespace |-> secret.namespace])

EnsureCloudProviderSecret(profile, secret) ==
    CASE profile = Nil       -> Panic
      [] profile = Malformed -> Refused
      [] OTHER -> IF IsWorkloadIdentityCloudProviderSecret(secret)
                  THEN EnsureWorkloadIdentitySecret(profile, secret)
                  ELSE EnsureLegacySecret(profile, secret)

-----------------------------------------------------------------------------
VARIABLES
    credentials,    \* the user's secret in the garden
    selected,       \* whether it has the label the admission selects by
    checked,        \* history: its data were accepted as a service account's
    binding,        \* the kind of what the shoot's binding refers to
    profile,        \* the provider config of the CloudProfile
    cluster,        \* that in the Cluster, as the webhook's cache has it
    secret,         \* the cloudprovider secret in the seed
    sums,           \* the data a reconciliation has made its checksum of
    current,        \* history: the secret is the one of the last reconciliation
    ccm,            \* checksum and flag in the cloud controller manager's pods
    mcm,            \* the flag in the machine controller manager's
    disturbances

gardenVars == <<credentials, selected, checked, binding, profile>>
vars == <<gardenVars, cluster, secret, sums, current, ccm, mcm, disturbances>>

Init ==
    /\ credentials \in Credentials
    /\ selected = FALSE /\ checked = FALSE /\ binding = Nil
    /\ profile \in Profiles /\ cluster = profile
    /\ secret = Nil
    /\ sums = Nil /\ current = FALSE /\ ccm = Nil /\ mcm = Nil
    /\ disturbances = 0

Disturb ==
    /\ disturbances < MaxDisturbances
    /\ disturbances' = disturbances + 1

\* A user edits the secret; the admission sees it if it is selected.
EditCredentials(new) ==
    /\ Disturb
    /\ selected => ValidateSecretUpdate(new, credentials)
    /\ credentials' = new
    /\ checked' = IF SameData(new, credentials) THEN checked
                  ELSE selected /\ ~IsWorkloadIdentityCloudProviderSecret(new)
    /\ UNCHANGED <<selected, binding, profile, cluster, secret, sums, current, ccm, mcm>>

\* A binding is created, or a SecretBinding gets another provider, and the
\* shoot refers to it.
CreateBinding(kind) ==
    /\ Disturb
    /\ binding # kind
    /\ ValidateBinding(kind, credentials)
    /\ binding' = kind
    /\ checked' = (checked \/ (kind = "Secret" /\ ~IsWorkloadIdentityCloudProviderSecret(credentials)))
    /\ UNCHANGED <<credentials, selected, profile, cluster, secret, sums, current, ccm, mcm>>

\* Gardener labels the secrets that bindings refer to with their provider.
LabelCredentials ==
    /\ binding = "Secret" /\ ~selected
    /\ selected' = TRUE
    /\ UNCHANGED <<credentials, checked, binding, profile, cluster, secret, sums, current, ccm, mcm,
                   disturbances>>

UpdateProfile(new) ==
    /\ Disturb
    /\ profile' = new
    /\ UNCHANGED <<credentials, selected, checked, binding, cluster, secret, sums, current, ccm, mcm>>

SyncCluster ==
    /\ cluster # profile
    /\ cluster' = profile
    /\ UNCHANGED <<gardenVars, secret, sums, current, ccm, mcm, disturbances>>

\* A write of the cloudprovider secret, through the webhook.
Write(requested) ==
    LET ensured == EnsureCloudProviderSecret(cluster, requested)
    IN  /\ ensured \notin {Refused, Panic, secret}
        /\ secret' = ensured
        /\ current' = FALSE

\* What gardenlet writes: the data of the user's secret, or a secret for the
\* token requestor, with the token there was or without.
Requested(token) ==
    IF binding = "Secret"
    THEN [workloadIdentity |-> FALSE, token |-> credentials.token,
          namespace |-> credentials.namespace, username |-> credentials.username]
    ELSE [workloadIdentity |-> TRUE, token |-> token, namespace |-> Nil, username |-> Nil]

DeployCloudProviderSecret ==
    /\ binding # Nil
    /\ \E token \in {Nil} \cup (IF secret = Nil THEN {} ELSE {secret.token}) : Write(Requested(token))
    /\ UNCHANGED <<gardenVars, cluster, sums, ccm, mcm, disturbances>>

RenewToken(token) ==
    /\ Disturb
    /\ secret # Nil
    /\ IsWorkloadIdentityCloudProviderSecret(secret)
    /\ Write([workloadIdentity |-> TRUE, token |-> token, namespace |-> secret.namespace,
              username |-> secret.username])
    /\ UNCHANGED <<gardenVars, cluster, sums, ccm, mcm>>

\* Mutant: the checksum is one of the user's data.
ChecksumOfData(stored) == [token |-> stored.token, namespace |-> stored.namespace,
                           username |-> stored.username, kubeconfig |-> Nil]

\* Secrets with other data have other checksums.
Checksum(stored) == [token |-> stored.token, namespace |-> stored.namespace,
                     username |-> stored.username, kubeconfig |-> stored.kubeconfig]

\* The control plane controller reads the secret for the checksum, and ...
ComputeChecksums ==
    /\ sums = Nil /\ secret # Nil
    /\ sums' = Checksum(secret)
    /\ current' = TRUE
    /\ UNCHANGED <<gardenVars, cluster, secret, ccm, mcm, disturbances>>

\* Mutant: a secret without a token is one of a workload identity.
IsWorkloadIdentityWithoutToken(stored) == stored # Nil /\ stored.token = Nil

\* A secret that is not found is none of a workload identity.
IsWorkloadIdentityEnabledForShoot(stored) ==
    stored # Nil /\ IsWorkloadIdentityCloudProviderSecret(stored)

\* ... once more for the values of the chart; it then is idle again.
ApplyCCM ==
    /\ sums # Nil
    /\ ccm' = [checksum |-> sums, workloadIdentity |-> IsWorkloadIdentityEnabledForShoot(secret)]
    /\ sums' = Nil
    /\ UNCHANGED <<gardenVars, cluster, secret, current, mcm, disturbances>>

Abort ==
    /\ Disturb
    /\ sums # Nil
    /\ sums' = Nil /\ current' = FALSE
    /\ UNCHANGED <<gardenVars, cluster, secret, ccm, mcm>>

ApplyMCM ==
    /\ mcm # IsWorkloadIdentityEnabledForShoot(secret)
    /\ mcm' = IsWorkloadIdentityEnabledForShoot(secret)
    /\ UNCHANGED <<gardenVars, cluster, secret, sums, current, ccm, disturbances>>

Next ==
    \/ \E new \in Credentials \ {credentials} : EditCredentials(new)
    \/ \E kind \in {"Secret", "WorkloadIdentity"} : CreateBinding(kind)
    \/ LabelCredentials
    \/ \E new \in Profiles \ {profile} : UpdateProfile(new)
    \/ SyncCluster \/ DeployCloudProviderSecret
    \/ \E token \in Tokens : RenewToken(token)
    \/ ComputeChecksums \/ ApplyCCM \/ Abort \/ ApplyMCM

Spec == Init /\ [][Next]_vars

\* The cache catches up, gardenlet and the controllers work again and again.
Fairness ==
    /\ WF_vars(SyncCluster) /\ WF_vars(DeployCloudProviderSecret)
    /\ WF_vars(ComputeChecksums \/ ApplyCCM) /\ WF_vars(ApplyMCM)

FairSpec == Spec /\ Fairness

-----------------------------------------------------------------------------
(* Properties.                                                             *)

\* Every variable has its type.
TypeOK ==
    /\ credentials \in Credentials
    /\ selected \in BOOLEAN /\ checked \in BOOLEAN /\ current \in BOOLEAN
    /\ binding \in Given({"Secret", "WorkloadIdentity"})
    /\ profile \in Profiles /\ cluster \in Profiles
    /\ secret \in Given(Stored) /\ sums \in Given(Sums)
    /\ ccm \in Given(Managers)
    /\ mcm \in Given(BOOLEAN)
    /\ disturbances \in 0..MaxDisturbances

\* The kubeconfig in the secret is one for the data and the label that are there
\* with it, after any sequence of copies, changes of the kind and renewals: a
\* static token is never used for a workload identity, nor its file or the
\* namespace of the flag for a service account (ensurer.go:64-67).
KubeconfigCoherent ==
    secret # Nil =>
        LET kubeconfig == secret.kubeconfig
        IN  IF secret.workloadIdentity
            THEN kubeconfig.token = TokenFile /\ kubeconfig.namespace = MetalNamespace
            ELSE /\ kubeconfig.token = secret.token /\ kubeconfig.user = secret.username
                 /\ kubeconfig.namespace = secret.namespace

\* After a reconciliation that no write of the secret came between or after, the
\* pods of the cloud controller manager have its checksum and its kind, though
\* they were read one after the other (valuesprovider.go:226, 348-373).
ManagerCurrent ==
    current /\ sums = Nil =>
        /\ secret # Nil /\ ccm # Nil
        /\ ccm.checksum = Checksum(secret)
        /\ ccm.workloadIdentity = secret.workloadIdentity

\* Credentials that were checked can be deployed: the webhook asks for no more
\* than the admission does, by any path of edits, labels and bindings
\* (validator/secret.go:38, validation/secret.go:24-42, ensurer.go:126-137).
CheckedCredentialsDeploy ==
    checked /\ binding = "Secret" /\ profile \notin {Nil, Malformed} =>
        (ServerOf(profile) # Nil => EnsureLegacySecret(profile, Requested(Nil)) # Refused)

\* When the edits end, the secret ends up with a kubeconfig for the region's
\* server of now and the credentials of now, though the webhook may first have
\* seen an older CloudProfile (ensurer.go:46-51).
KubeconfigSettles ==
    <>[](/\ binding # Nil /\ profile \notin {Nil, Malformed}
         /\ \E i \in 1..Len(profile) : profile[i].name = Region
         /\ binding = "Secret" => ValidateLegacyCloudProviderSecret(credentials)
         /\ binding = "WorkloadIdentity" => MetalNamespace # Nil
         =>
            LET first == CHOOSE i \in 1..Len(profile) :
                            /\ profile[i].name = Region
                            /\ \A j \in 1..(i - 1) : profile[j].name # Region
            IN  /\ secret # Nil
                /\ secret.kubeconfig.server = profile[first].server
                /\ binding = "Secret" => secret.kubeconfig.token = credentials.token
                /\ binding = "WorkloadIdentity" => secret.kubeconfig.token = TokenFile)

\* The managers end up with the kind of the secret as it is, and the cloud
\* controller manager with pods that have read its kubeconfig.
ManagersSettle ==
    <>[](secret # Nil =>
            /\ ccm # Nil
            /\ ccm.checksum.kubeconfig = secret.kubeconfig
            /\ ccm.workloadIdentity = secret.workloadIdentity
            /\ mcm = secret.workloadIdentity)
=============================================================================
