# Verification of gardener-extension-provider-ironcore-metal

TLA+ modules about the Gardener extension for ironcore metal: models of its controllers and
admission webhooks that TLC checks on small instances, and theorems about them that TLAPS proves for
all values of the constants. Source references are paths of this repository; a reference to
Gardener, to the machine-controller-manager (MCM) or to controller-runtime is to a library the
repository uses, which is modelled from how the code here uses it ("external" in `PROJECT.json`).

## The system

The extension runs in a seed cluster next to Gardener. It watches extension resources that Gardener
writes into a shoot's namespace and turns them into provider objects; two webhooks change objects of
the shoot's control plane; a second binary admits resources in the garden cluster.

| Part | State | Operations | Talks to |
|---|---|---|---|
| Worker controller (`pkg/controller/worker`) | Worker spec and provider status, MachineClasses, class secrets, MachineDeployments | reconcile: generate deployments, patch classes, patch secrets, update the provider status; the generic actuator of the Gardener library calls these and does the rest | MCM through the objects, CloudProfile through the Cluster resource |
| Merged ignition (`machines.go`) | the user data in the MachineClasses | merge a pool's own document with that of a referenced secret | Worker controller; gardenlet copies the secrets |
| Image selection (`pkg/apis/metal/helper`, `machine_images.go`) | none (pure) | lookup in CloudProfile and provider status, normalisation of capabilities, list of used images | Worker controller |
| Control plane controller (`pkg/controller/controlplane`) | charts in the seed and in the shoot | values for CCM, load balancers, Calico | Gardener's generic control plane actuator, cloudprovider secret |
| Infrastructure controller (`pkg/controller/infrastructure`) | Infrastructure status (networking) | reconcile copies CIDRs to the status, the rest are no-ops | Gardener |
| Control plane webhook (`pkg/webhook/controlplane`) | deployments of the control plane | sets feature gates, flags, the MCM provider sidecar | API server |
| Cloud provider webhook (`pkg/webhook/cloudprovider`) | cloudprovider secret | adds namespace, token and kubeconfig from region configs | API server, CloudProfile |
| Admission: mutators (`pkg/admission/mutator`) | CloudProfile, NamespacedCloudProfile status | derive provider flavors from the core spec, merge a namespaced profile with its parent | garden API server |
| Admission: validators (`pkg/admission/validator`, `pkg/apis/metal/validation`) | none | validate Shoot, CloudProfile, NamespacedCloudProfile, Secret, SecretBinding, CredentialsBinding | garden API server |
| API types (`pkg/apis/metal`) | none | conversion, defaults, AS number parsing | all |
| Health checks, commands, charts | none | registration and wiring | Gardener library |

What makes it hard:

* The Worker controller writes dozens of objects one by one; a failed call or a restart leaves any
  prefix of that, and the MCM acts on the objects at the same time.
* A reconciliation works on the Worker and Cluster it started with while both change.
* An image version that is still in use may leave the CloudProfile; then the provider status is the
  only place to find its image, and the status is rewritten at each reconciliation, partly from itself.
* Image versions exist in two formats (an architecture, or capability flavors), in the CloudProfile
  as well as in old provider statuses, and are mixed during a migration.

* Users, gardenlet, caches, controllers and webhooks each have a copy of the shoot, the CloudProfile and
  the credentials, of different moments. Nothing orders the copies.
* Mutating webhooks see objects again that they have mutated before, with another Cluster.

What makes each part correct: machines and deployments always have their class and secret, a class of a
rolling pool never changes in what its name covers, images in use stay selectable and fit their machines, a
class has its whole ignition, and everything converges (Worker controller); mutated profiles pass validation and no image gets
lost between a profile, its namespaced children and their merged status (CloudProfile admission); shoots
without errors are admitted, and what is admitted is found later (shoot admission); the kubeconfig in
the cloudprovider secret matches its credentials after any order of updates, and checked credentials can
be deployed (credentials admission, cloud provider webhook, workload identity); what the user wrote
arrives in the shoot unchanged, and the charts end up agreeing with it and with each other (control plane
controller); mutating twice is the same as mutating once (control plane webhook); the status
describes the spec (infrastructure); every AS number is parsed to its value or refused (API types).

## Modules

| Module | What it is | Source |
|---|---|---|
| `MachineImages` | operators: image lookups, capabilities, list of used images | `pkg/apis/metal/helper/helper.go`, `pkg/controller/worker/machine_images.go` |
| `Worker` | the Worker controller, the generic actuator, the MCM and their environment; composes `MachineImages` | `pkg/controller/worker/*.go`, `pkg/apis/metal/validation/shoot.go` |
| `ClassLifecycle` | abstract: what the MCM may rely on | (abstraction of the above) |
| `CloudProfileAdmission` | mutation, validation and status merge of CloudProfiles and NamespacedCloudProfiles; composes `MachineImages`, whose lookup is what the admission is for | `pkg/admission/mutator`, `pkg/admission/validator/*cloudprofile.go`, `pkg/apis/metal/validation/cloudprofile.go` |
| `ASNumber` | operators: AS numbers and their notations | `pkg/apis/metal/asnumber.go` |
| `ControlPlaneConfig` | operators: the ControlPlaneConfig as written and as used, and the decoding; composes `ASNumber` | `types_controlplane.go` in both versions, `zz_generated.conversion.go` |
| `ControlPlaneValues` | operators: the values of each chart | `pkg/controller/controlplane/valuesprovider.go`, `pkg/apis/metal/validation/controlplane.go` |
| `ControlPlaneWebhook` | operators: the mutation of each kind of object | `pkg/webhook/controlplane/ensurer.go` |
| `Infrastructure` | operators: the networking status after a reconciliation | `pkg/controller/infrastructure` |
| `ExtraIgnition` | operators: the ignition of a pool, merged with that of a secret | `pkg/controller/worker/machines.go` |
| `ShootAdmission` | operators: the answer to a request; composes the decoders and field validations | `pkg/admission/validator/shoot.go`, `pkg/apis/metal/validation` |
| `ShootReconciliation` | a shoot, its copies, and the controllers and the webhook that work with them; composes the seven above | `valuesprovider.go`, `actuator_reconcile.go`, `ensurer.go`, `machines.go` |
| `CloudProviderSecret` | credentials from the garden to the managers: admission, gardenlet, webhook, workload identities | `pkg/admission/validator`, `pkg/webhook/cloudprovider`, `pkg/metal/workloadidentity.go` |
| `MCWorker`, `MCCloudProfile`, `MCShootReconciliation`, `MCCloudProviderSecret` | instances for TLC | |
| `MachineImagesProofs`, `WorkerProofs`, `CloudProfileProofs`, `ASNumberProofs`, `ControlPlaneConfigProofs`, `ControlPlaneWebhookProofs`, `ShootReconciliationProofs`, `CloudProviderProofs` | theorems | |

### Worker

State and code:

* `spec`, `profile`: `Worker.spec.pools` and the CloudProfile in the Cluster resource. `ignitions` is what
  each secret that provider configs refer to has to add to the ignition, `Nil` while it cannot be read.
  `snap` is the copy of spec and profile the delegate was constructed with (`actuator.go`,
  `NewWorkerDelegate`), and of the secrets it read when it generated the classes. The code
  reads the secret of each pool in turn, before it writes anything; the model reads all at one moment.
* `status`: the machine images in `Worker.status.providerStatus`. The model reads the current one:
  only the controller itself writes it, once per reconciliation, so the copy in the delegate is
  the same until `PatchProviderStatus`, after which it is not read again.
* `classes`, `secrets`, `deployments`: the objects in the shoot namespace. `machines` holds the
  classes that live machines were created from: how many there are of each does not matter.
* `pc`, `todo`: the point the reconciliation has reached and the objects it still has to write or to
  delete there. The code iterates over slices; the model takes the elements in any order, except in
  `UpdateMachineImagesStatus`, whose result depends on the order of the pools.
* `recorded` is a history variable: what each pool asked for when the status was last written.
* `disturbances` counts edits and failures, bounded by `MaxDisturbances`.

One reconciliation: `StartReconcile` (delegate, `GenerateMachineDeployments`,
`generateMachineClassAndSecrets`), `PatchMachineClass`*, `PatchClassSecret`* (`DeployMachineClasses`),
`CollectImage`* and `PatchProviderStatus` (`UpdateMachineImagesStatus`), then the generic actuator:
deploy the MachineDeployments, wait until they are available, delete the other deployments, wait until
their machines are gone, delete the other classes, then the other secrets. An error in
`generateMachineClassAndSecrets` precedes every write, so it is a step that changes nothing and not an
action. Each API call is a step of its own and `Abort` may come before any of them: a failed call, an
error or a restart, after which everything starts again with a new delegate.

A machine class has the image, the server labels (those of the machine type in the CloudProfile's provider
config, replaced by the `extraServerLabels` of the pool), the ignition of the referenced secret, and `config`, which
stands for what comes from the pool's provider config alone (its own ignition, metadata, IPAM). How the two
halves of the ignition are merged is in `ExtraIgnition`. The class's name is the deployment's and
the worker pool's hash; the hash is the tuple of what goes into it. For pools with an in-place update
strategy neither version nor provider config does, and the class is updated. For all pools, the machine type's
labels and the content of the secret do not: an edit of either is patched into the class that exists.

An image version stands for the pair of name and version. `Preference` stands for the order in which
capability values are listed, by which Gardener chooses among compatible flavors.

Some properties are about particular CloudProfiles and say so themselves, over the constants `Profiles` and
`InitialStatuses`. `ImagesFit` compares the image of a class with what it really runs on (`Supports`), provided
that no CloudProfile and no status of an earlier release promises more (`OffersTrue`).
`HashedContentKept` says that a class of a rolling pool never changes in what its name covers: the image, the
provider config with its own server labels, and the absence of ignition from a secret where none is referenced. Labels of
the machine type and the secret's ignition are not covered, and the property that classes do not change at all
is false: an edit of either between two reconciliations violates it in this instance. That
the class ends with the labels and the ignition of now is part of `SettledWhenDone` and `SettlesUnlessBlocked`.
`HashedContentKept` and `SettledWhenDone` are about CloudProfiles that have one image for each version
and machine type (`OneImagePerMachineType`): with flavors that overlap the image of a class may change, see
Observations. The instances of the runs that check them have these properties.

`EnsureUniformMachineImages` rewrites the last image of the list of used images; the code rebuilds the whole
list (`RebuildUniform`). `RebuildChangesLastOnly` says that it comes to the same wherever the code does it.

Gardener-side guards of the environment: `EditSpec` admits what `ValidateWorkersUpdate` does, and a new
version has to be in the CloudProfile; `EditProfile` may remove anything.

### CloudProfileAdmission

State and code:

* `parent` is the CloudProfile, `cached` what the manager's client has of it
  (`mutator/namespacedcloudprofile.go:75`, `validator/namespacedcloudprofile.go:68`), which may lag behind;
  `request` is what the API server carries from the mutating to the validating webhook.
* `ncp` is a NamespacedCloudProfile with its generation. `reading` is what Gardener's controller has
  read to compute its status, `status` what it has written.

A CloudProfile passes `MutateCloudProfile`, which derives `spec.machineImages[].versions[].capabilityFlavors`
from the provider config, and `ValidateCloudProfile` or `RejectCloudProfile`; a NamespacedCloudProfile
the corresponding actions, both of which read the cache, at two moments. `WriteStatus` is Gardener's
write of the status and the mutator's `mergeStatusProviderConfig` on it, one request: it carries the spec
and the generation of the moment, the status those of `reading`. Requests are one at a time: nothing
but the cache and the status is between two of them, and those are free.

Data: a provider config maps image names to lists of entries, in which several entries may be about
one version; flavors of an entry are a set, and so are those of a version of `spec.machineImages`.
Several items about one image name in a provider config are not modelled (lookups take the last, the mutator each).

Assumed of Gardener: it refuses to remove a version from a CloudProfile or to delete a CloudProfile
that a NamespacedCloudProfile uses; its controller reads the current parent, merges `spec.machineImages`
(the parent's versions and those that only the NamespacedCloudProfile has) and writes the parent's
provider config; a spec update and a deletion increment the generation. `spec.machineCapabilities`
does not change. An object that cannot be decoded is refused without an effect.

What the properties compare with is the Worker controller's own lookup, `FindImageInCloudProfile`:
mutator, validator and lookup are three pieces of code with three rules.

### ShootReconciliation

State and code:

* `shoot` is the shoot in the garden, `cluster` what the extension's cache has of the Cluster resource,
  `resource` the provider config in the extension resource. Gardenlet writes both, in any order.
* `request` is the last update with the answer of the admission (`ShootAdmission`).
* `garden` has the contents of the secrets the shoot may reference, `copies` those gardenlet has copied.
* `step` and `run` are the reconciliation under way and what it has read when it started; `applied` is
  the `run` that has last been finished (history).
* `configMap` is the applied config chart, `configSeen` what the cache has of its config map;
  `seedChart` and `shootChart` are the values the charts were last applied with.
* `status` is the networking status of the Infrastructure, `ignition` that of the pool's class.
* `object` is what the API server has of the component's object, `objectOf` the shoot the Cluster had when
  it was last mutated (history).

The parts share nothing but the Cluster, so that a behaviour is about one of them, `watched`: the state
space is the sum of theirs and not the product.

A control plane reconciliation is `StartReconcile`, `ApplyConfigChart`, `ComputeChecksums`,
`ApplyControlPlaneChart`, `ApplyShootChart`. Each decodes the config again, as
`GetConfigChartValues`, `GetControlPlaneChartValues` and `GetControlPlaneShootChartValues` do, and an error
ends the reconciliation with the charts applied so far. `Abort` is a failed call or a restart between
two steps. `ComputeChecksums` reads the config map from the cache, since only secrets are excluded from it
(`app.go:136-143`). `ReportNetworks` is one reconciliation of the Infrastructure, whose only effect is one
patch. `GenerateClass` merges the ignition at the moment the class is generated; what becomes of the class
is in module `Worker`. `WriteObject` and `RewriteObject` are writes by gardenlet, which has its own idea of
the object, and by others, which start from what is stored; both pass through the webhook.

Data: a text is a member of `Strings`, an address pool the size of its mask or the order of its two ends,
a number in a document one of the JSON forms; AS numbers have halves of `Half` values. Command lines are
sets of flags. A document of ignition is a list and a setting, which is what merging tells apart. Images,
replica counts and resource limits are left out.

`WebhookRegistered` is whether the admission of the extension is installed. With it, no edit of a shoot is
ever admitted (see Findings), so that the other properties are checked without.

Assumed of Gardener: it does not change the type of a shoot's network, copies the referenced secrets and no
others, and has `allocate-node-cidrs` once in the kube-controller-manager's command.

### CloudProviderSecret

State and code:

* `credentials` is a user's secret, `selected` its provider label, by which the admission is called for
  it (`webhook.go:49-64`), `binding` the kind of credentials the shoot is bound to. `checked` is a history
  variable: the present data were accepted as those of a service account.
* `profile` has the regions of the CloudProfile, `cluster` what the webhook's cache has of it.
* `secret` is the cloudprovider secret with the kubeconfig of the webhook; `sums` is the checksum a
  reconciliation of the control plane has made of it, `ccm` what the CCM's chart was last applied with,
  `mcm` the flag in the MCM's. `current` (history) says that the secret was not written since it was summed.

Every write passes through the webhook (`Write`), and one it refuses changes nothing: the copy of the
user's data, the secret for the token requestor, and the renewal of a token. The CCM's values need the
secret twice, for the checksum and for its label, and a write may come between `ComputeChecksums` and `ApplyCCM`.

A CloudProfile without provider config makes the webhook panic; the request fails, as if refused. Tokens,
namespaces and names are members of small sets; `ValidNamespaces` are the names Kubernetes accepts.

## Runs

| Run | Instance | Shows |
|---|---|---|
| `worker_safety` | a rolling amd64 pool with 1 or 2 zones and an in-place arm64 pool, four specs (zones, provider config, version, order of pools, one pool removed); CloudProfile with old-format, mixed-format and removed versions, and with server labels that change or are missing; a provider config with a label of its own and a secret, which has either of two documents or cannot be read; 3 disturbances; about 304,000 states | `TypeOK`, `DeploymentsBacked`, `MachinesBacked`, `UsedVersionsSelectable`, `HashedContentKept`, `SettledWhenDone` |
| `worker_liveness` | the same with 2 disturbances, under fairness; about 74,000 states | `SettlesUnlessBlocked`, `ImplementsLifecycle` |
| `worker_flavors` | two pools whose machine types differ in a network card; one image for all machines, one for a certain card; four CloudProfiles that list them differently; 4 disturbances | `ImagesFit`, `PoolsRetained`, `RebuildChangesLastOnly` |
| `worker_legacy_status` | provider status of an earlier release, version gone from the CloudProfile | expected violation of `PoolsRetained`, see Findings |
| `profile_flavors` | capabilities (architecture and network card); six CloudProfiles (an entry per architecture with and without images, flavors, two lists of mixed siblings, two versions) and one without a config; five NamespacedCloudProfiles (none of their own, a version of the parent's image in either format, an image of their own, one that is refused); 2 generations; about 44,000 states | `TypeOK`, `ParentSelectable`, `StatusSelectable`, `StatusOfOneGeneration` |
| `profile_legacy` | no capabilities: entries of the old format with one, two and missing architectures, and missing images; about 187,000 states | `ParentSelectable`, `StatusSelectable`, `StatusSettles` |
| `profile_siblings`, `profile_mixed` | the same instances | expected violations of `StatusKeepsEntries` and `SiblingsAdmitted`, see Findings |
| `shoot_reconciliation` | seven shoots that differ in network, overlay, IP families, load balancers, ignition and its reference; configs with BGP rules for two directions and families, AS numbers in three notations, one too wide, pools as masks and as ranges; two contents of a secret; each of the parts in turn; 2 disturbances; about 119,000 states | `TypeOK`, `RoutesDelivered`, `NumbersDelivered`, `ChartsAgree`, `NoResidue`, `IgnitionWhole`; under fairness `ChartsSettle`, `StatusSettles`, `FlagsSettle`, `IgnitionSettles` |
| `shoot_validator`, `secret_ref_kind` | the same shoots, with the admission and without | expected violations of `CompleteShootsAdmitted` and `AdmittedWorkersFindTheirSecret`, see Findings |
| `cloudprovider_secret` | seven secrets, complete, incomplete, and labelled; CloudProfiles with the region first, twice after another, missing, and ones that are not decoded; two tokens; 4 disturbances; about 342,000 states | `TypeOK`, `KubeconfigCoherent`, `ManagerCurrent`, `CheckedCredentialsDeploy`; under fairness `KubeconfigSettles`, `ManagersSettle` |

Bounds: two pools are needed for the list of images to be rewritten between them, two zones for a
deployment to disappear within a pool, two versions for a rollout, two documents for a secret that changes. Three
disturbances allow an edit, a failure in its rollout and a second edit (back, or on), or an edit between two
failures: the work of a reconciliation over what one before it has left half done, with spec, CloudProfile or
secret changed before it or meanwhile. Liveness needs only that some disturbance precedes the quiet period. All of `WorkerProofs` is free of bounds. For the profiles: two images and two versions of one
of them, so that a NamespacedCloudProfile can extend an image of the parent or bring its own; two
generations, so that a status write can meet another spec than it was computed for, or a deletion.
`CloudProfileProofs` is free of bounds. For the shoots: two disturbances are an edit between two
steps of a reconciliation and an abort or a second edit in the next one, and each pair of shoots, of a
shoot and a stale copy, occurs. AS numbers of two bits a half have every kind of overflow. For the credentials:
four disturbances allow a binding, an edit before its labelling, a change of the profile and a renewal, or a
change of the kind and back. The models of these two have no other bounds.
`CHECK_DEADLOCK FALSE`: with the
disturbances used up and a pool without an image the controller retries forever without
changing anything, which in the model is the end, as is a NamespacedCloudProfile at its last generation.

Fairness: the reconciler's next step (`WF` on `DelegateStep \/ ActuatorStep`: controller-runtime
retries until there is no error), and for each deployment and class the MCM's creation and deletion.
None on the environment. An action that is enabled stays so until it is taken, so weak fairness is enough.
For the profiles: an admission request is answered, and Gardener's controller keeps reading and writing
(it resyncs and retries); none on users and on the cache.
For shoots and credentials: the caches catch up, gardenlet deploys what it has not deployed yet, and
reconciliations start again and again (`ControllerStep`; controller-runtime retries errors and gardenlet
reconciles its shoots periodically). One action at most of `ControllerStep` is enabled at any time, so one
condition on the disjunction is that of each. None on users, aborts and `RewriteObject`.

## Proofs

`MachineImagesProofs` has the lemmas about the operators: types, `ProfileLookupFits`, and that
appending to the list of used images and making it uniform lose no image that could be found
(`AppendRetains`, `EnsureUniformRetains`). Making a list uniform drops the architecture and gives an image
without capabilities the default one, so the second is about images that `Keeps` holds of: those with
capabilities, and all of them for machines that run AMD64.

`WorkerProofs` proves the invariant `IInv` inductive. `DeploymentsBacked` and `MachinesBacked` are not
inductive: that the cleanup deletes no class in use follows from what the phases before it have
achieved. `Snapshot` says that the pools of the delegate keep their images while classes are written;
`Written` that the wanted classes and secrets exist from the phase on that follows theirs; `Rolled` that
deployments refer to their own classes, the wanted ones to the wanted class once they were deployed,
and that after the waits only wanted machines are left. One lemma per conjunct has one step per
action; `BackedKept` is shared by the two properties. The refinement proof
(`WorkerImplementsLifecycle`) maps each step to one of `ClassLifecycle` or to a stutter. The retention
theorems (`UsedImagesRetained`, `UsedVersionsAlwaysSelectable`) add the loop invariant `Retention`
and assume `ImagesRetainable`: for each pool, all images that CloudProfiles and old statuses offer for its
version have capabilities, or its machines run AMD64. The instances of `worker_safety` and `worker_flavors`
(which has flavors without capabilities) satisfy it; that of `worker_legacy_status` does not, and the
finding below is what then happens. `Retention` needs to know that no entry without capabilities gets into
the status of a version that is offered with them, which is `Origin(KeptEntries)`, explained next.

Four more theorems are about what the classes contain.
`RebuildsChangeLastOnly` needs that, between two iterations of `UpdateMachineImagesStatus`, all images of the
list but the last are uniform and pairwise different (`Building`). `RebuildUniform` is a recursive function;
what it computes on such a list is `RebuildLastOnly` of `MachineImagesProofs`, by the smallest prefix on which
the two would differ (`AppendRebuilt`, `FrontRebuilt`, `AppendFront`).
`ImagesAlwaysFit` and `HashedContentAlwaysKept` both need to know where an image in the provider status comes from,
after any number of rewrites in which entries are made uniform, dropped and appended. `Origin(E)` says that
every entry of the status and of the list under construction is in the set `E`; it is inductive for every `E`
that has the offers of all CloudProfiles and old statuses and is closed under making uniform (`OriginInductive`).
With the true entries for `E` an image that is selected runs on the pool's machines (`SelectedRunsOn`, `Truth`);
with the offered entries it is the only one the version and machine type may be given (`SelectedFitting`,
`Contents`), so that a class is patched with the image it has. `Contents` also has what a class owes to the
provider config in its name alone (`Own`: extra labels win over common ones), and, for a class that has been
patched, the labels and the ignition the reconciliation has read (`Made`).
`SettledAtTheEnd` adds what the cleanup phases have achieved (`Cleaned`), and uses `Contents` and `Retention`
because the status is rewritten between the choice of the images and the end: the wanted class must have
what would be chosen with the new status.

`CloudProfileProofs` goes from the validators to the lookup: `MappedSelectable` shows, for each of the
two formats and for no capabilities, that what the validator compares gives a flavor the lookup finds
compatible; `MergeEntries` what the merge does to the entries of a version. Neither `ParentSelectable` nor
`StatusSelectable` is inductive. `IInv` adds where the pieces come from: parent, cache and pending
update are profiles the mutator has seen, with ever more versions (`ParentInv`); the spec of the
NamespacedCloudProfile was admitted with a parent of at most the present versions (`NamespacedInv`,
`AdmittedBefore`); and what the controller has read of the present generation is the present spec,
admitted before the parent it has read (`ReadingInv`). From that, a version of the parent has the
parent's entries in the status, any other its own, and the lookup succeeds in either case.
`Intact` states the two exceptions: the finding on `mergeMachineImages`, and a version the parent has got
since. `StatusOfOneGeneration` follows from `ReadingInv` alone.

`ASNumberProofs` shows what the dotted notation computes (`DottedExact`, `DottedInjective`) and that a
marshalled number is unmarshalled to itself (`RoundTrip`), for halves of any width. `ControlPlaneConfigProofs`
follows a document through the decoders of its parts: what is not refused has the types of the controllers
(`DecodedType`).

`ControlPlaneWebhookProofs` shows for each component that a mutation absorbs an earlier one with any other
Cluster of the same seed (`EnsureAgain`); a flag is replaced whatever its value, and a container by its name.
`NoResidueLeft` follows by an invariant that is little more than `NoResidue` itself. `ChartsAlwaysAgree` needs
that the reconciliation under way has applied the seed chart from the config it has read (`ChartsInv`), and that one
which was given up is taken for none that was finished. `RoutesAlwaysDelivered` and `NumbersAlwaysDelivered`
go from the document to the chart: decoders and values field by field (`RulesDelivered`, `FiltersDelivered`,
`PeersDelivered`, `NumberMeant`), `BgpDecoded` through the optional parts, and the invariant that the chart in the shoot
is made from what `applied` has read (`AppliedInv`). `IgnitionAlwaysWhole` needs that the copies have contents of
secrets (`WorkerInv`), and what merging does to the lists (`MergedFiles`). `TypesCorrect` needs both invariants:
what a chart or a class is made from was read several steps before. One lemma for each operator
says what it returns (`ConfigChartType`, `StatusType`, `IgnitionType`, `ObjectType`); that each step of a reconciliation
of the control plane decodes a control plane config, and a worker's a worker config, is in the invariants.

`CloudProviderProofs` has the type invariant and the three others: `KubeconfigsCoherent` by the two cases
of the webhook, `ManagersCurrent` by an invariant about the two reads in between, and `CheckedDeploy` by
one that says that the data were checked as long as `checked` holds, over edits of the label alone.

Assumptions on the constants (`WorkerAssumption`, `AdmissionAssumption`, `CredentialsAssumption`,
`ReconciliationAssumption`, `NilAssumption` and those of `MachineImages`, `ASNumber` and
`ControlPlaneConfig`) are types, unique pool names within a Worker, and that `Nil` is different from every value;
`Strings` has the texts the webhook writes.

Only model-checked: liveness under fairness (`SettlesUnlessBlocked`, the properties ending in `Settles` or
`Settle`), which is out of the prover's reach. Every other property of a passing run is a theorem.

## Findings

* `worker_legacy_status`: `appendMachineImage` drops the architecture of the image it appends. An
  image from an old-format provider status has no capabilities either, so in the next iteration of
  `UpdateMachineImagesStatus` it becomes an amd64 image. An arm64 pool whose version left the
  CloudProfile is then no longer reconcilable, against the promise in `pkg/apis/metal/types_worker.go`.
* `profile_siblings`: `mergeMachineImages` makes maps by version, so of several entries of the old format
  about one version only the last survives in the status, those of the parent included, when both sides
  map the image. Shoots of the NamespacedCloudProfile lose the other architectures of the version.
* `profile_mixed`: the mutator collects the flavors of all entries of a version, the validator compares
  them with those of the first entry that has flavors. A CloudProfile with two entries with flavors, or with one of each
  format, is refused although the comments of both promise support for them.

* `shoot_validator`: `NewShootValidator` sets one of the three things its methods use. With the admission
  installed every creation of a valid shoot and every update panics (a nil client, a nil decoder).
* `secret_ref_kind`: the validation of workers compares a `secretRef` with the names of the shoot's resources,
  the worker controller with those that are secrets. A shoot that references a ConfigMap of that name is
  admitted and its workers cannot be reconciled.

Observations that contradict no documented promise:

* With flavors that overlap, the CloudProfile lookup takes the preferred one and the status lookup
  the first that is compatible. When a version leaves the CloudProfile, the image of an existing class
  may change.
* A reconciliation that ends after its classes and before its status leaves classes with images that
  no status recorded. If the version leaves the CloudProfile then, a pool that was just switched to
  it has no image to continue with.
* The validation of a secret is skipped when its data do not change (`validator/secret.go:38`). A change of the
  label alone makes a secret one of a workload identity or back, and is not looked at. Until Gardener has labelled
  the secret of a binding, its edits are not validated at all; `CheckedCredentialsDeploy` is about the others.
* A region that leaves the CloudProfile makes the webhook refuse every write of the secret, the renewals of
  tokens included, until the region is back.
* The checksum in the CCM's pods covers the token, so that a reconciliation after a renewal restarts them.
* A CloudProfile without provider config makes the cloud provider webhook panic, an Infrastructure
  without one the infrastructure controller.
* The status of an Infrastructure keeps the networks of the nodes, pods and services that the shoot has no more.
* The server labels of a machine type and the merged ignition are content of the machine class and not of its
  name. An edit of the CloudProfile or of the secret rewrites the class in place, of rolling pools too, and
  reaches the machines that are created after it and no others.
* The label for egress to a local metal API is added to a deployment and never removed.
* The admission leaves addresses to the controller: a shoot with a wrong pool, filter or service IP is
  admitted and its charts are not applied. A range is accepted for a Calico pool, with a block size of 0.
* The admission decodes a WorkerConfig leniently, the worker controller strictly.
* `disabled` of a Calico pool has no JSON tag in `v1alpha1` (`types_controlplane.go:147`), so that it is
  written `Disabled`.
* The checksum of the config map can be that of the one before, since config maps come from a cache; the next
  reconciliation makes up for it.

## Not modelled

* Deletion and migration of Workers: all of it is in the Gardener library.
* Node templates, labels, taints and other data of the machine classes that nothing here decides on; the user data
  in their secrets.
* Registration, health checks, commands, feature gates, images and charts: tables and wiring without state
  of their own.
* Deep copies, registration of types and the conversions from internal to external form: generated.
* CloudProfiles whose `spec.machineCapabilities` change, and their deletion.

## Next

1. `CloudProfileAdmission` with a parent that migrates to capabilities.
2. The user data of the class secrets, which are names in `Worker`.
