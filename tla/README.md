# Verification of Cluster API Addon Provider Fleet

The provider imports Cluster API (CAPI) `Cluster`s into Fleet. It runs as a set of
kube-rs controllers in one process, with the Kubernetes API server as the only
store. This directory holds TLA+ models of its controllers, TLC configurations
that check them on small instances, and TLAPS proofs of the properties that hold
for every instance. Paths are relative to the repository.

## Inventory

| Part | Code | State | Operations | Status |
|---|---|---|---|---|
| Cluster controller | `src/controllers/cluster.rs`, `controller.rs`, `src/api/capi_cluster.rs` | the Clusters' finalizer; a Fleet Cluster, ClusterGroup, BundleNamespaceMapping and namespace annotation per Cluster; the store, the queue, reconciles in progress | reconcile, sync, cleanup | modelled, proved in part |
| Event pipeline | `src/multi_dispatcher.rs`, `src/controller.rs`, `update_watches`, `add_namespace_dynamic_watch` | the merged watches and their lock, the broadcast buffer, a store per subscriber, the startup barrier | subscribe, broadcast, replace and add watches | modelled, proved in part |
| Helm installer | `src/controllers/addon_config.rs` (`reconcile_helm`), `src/controllers/helm/install.rs` | the releases `fleet-crd` and `fleet`, the status, the gates' ConfigMap | add and update the repository, install, upgrade, merge the gates | modelled, proved in part |
| ClusterClass and ClusterGroup controllers | `src/controllers/cluster_class.rs`, `cluster_group.rs`, `src/api/fleet_clustergroup.rs`, `run_cluster_class_controller` | a ClusterGroup per class; its labels, owners, the legacy finalizer; the class's finalizer | apply or create the group of a class, copy the labels of a class to its groups, drop the legacy finalizer | modelled, proved in part |
| Configuration sync | `src/controllers/addon_config.rs` (`reconcile_config_sync`, `sync_fleet_config`) | the ConfigMap `fleet-controller` | infer or copy URL and CA, apply by force | modelled, proved in part |
| Template values | `TemplateSources::resolve` | none | read control plane and infrastructure objects | a choice in `SyncFleet` |
| Web server, metrics, telemetry, CRD generator, generated types | `main.rs`, `metrics.rs`, `telemetry.rs`, `crdgen.rs`, `src/api/` | counters | none on the cluster | not modelled |

The parts meet in three places: in the API server, where each reads what the others
write; in the event pipeline, whose one broadcast feeds both the cluster controller and
the namespace controller; and in the `FleetAddonConfig`, which every reconcile reads
again. There are no other calls between controllers and nothing is kept across a
restart of the process.

What is hard here:

- **Stale views.** A reconcile works on a cached object while the Cluster is deleted
  and created again under the same name; the patches of the finalizer test a place in
  a list and no uid.
- **Interleaved reconciles.** `cleanup()` lists Clusters and acts on the list later,
  while other Clusters are imported and deleted.
- **Lost and repeated events.** `update_watches` drops watches with what they hold; a
  watch that ends lists again and never repeats a Delete.
- **Partial failure.** Each reconcile is a sequence of calls that can end after any of
  them; so can the sequence of helm commands, whose exit status nobody reads.
- **Wake-ups.** The broadcaster polls under `try_lock` and is `Pending` without a waker
  when the lock is taken; all controllers are polled by one task.
- **Configuration that moves.** Settings and the class of a Cluster change between
  what `sync()` makes and what `cleanup()` removes.
- **Shared objects.** Two controllers apply one ClusterGroup as one field manager, beside
  users and finalizers of others; the sync and helm write one ConfigMap. What keeps them
  from undoing each other is a resourceVersion that travels in a copy.

`PROJECT.json` lists every such place with its line (`hazards`) and the properties that
would notice it going wrong.

## Modules

| Module | What it is |
|---|---|
| `ClusterController` | the cluster controller, its watches and store, and the API server |
| `MCClusterController` | its instances: two Clusters in `app`, the class `k1` in `lib`, the class `k2` in `app` |
| `ClusterProofs` | `TypeOK`; `PastViews`, and from it `ApplyUnderFinalizer`, `FinalizerKept` |
| `ClusterRestProofs` | `StoreConverges`, `HeldAtRest`, `ImportedAtRest`: nothing is forgotten |
| `Import` | what the cluster controller promises, without how |
| `ClusterImport` | the refinement mapping from `ClusterController` to `Import` |
| `ClusterImportProofs` | `ImplementsImport`: the mapping is a refinement |
| `ClassGroups` | the class and group controllers, the groups and server-side apply |
| `MCClassGroups` | its instances: the group beside the class, one in namespace `app` |
| `ClassGroupsProofs` | `TypeOK`, `AppliedWhileHeld`, `OthersKept`, `NeverOrphaned`, `LegacyAtRest`, `InheritedAtRest` |
| `ConfigSync` | the configuration sync, helm and users as the other writers of its ConfigMap |
| `MCConfigSync` | its instance: every way to write `spec.config.server` |
| `ConfigSyncProofs` | `TypeOK`, `OthersKept`, `SyncedAtRest` |
| `HelmInstall` | the helm controller, helm and the chart repository |
| `MCHelmInstall` | its instances: the specs |
| `HelmInstallProofs` | `TypeOK`, `CrdsFirst`, `TouchedOnlyToChange`, `KeptVersionReported`, `SettingsFollowGates`, `InstalledAtRest`, `ReadyAtRest` |
| `EventPipeline` | watches, broadcaster, buffer, receivers and the polling of the main task |
| `EventPipelineProofs` | `TypeOK`, `NeverEnds`, `NoneUnheard`, `NothingForgotten`, `HeardAtRest` |

Operators whose comment starts with "Mutant" are deliberate errors: each is the
mutated form of a definition and shows that a property depends on it. No action uses
them.

### ClusterController

One action is one API call of a reconcile. `rec[c]` holds the reconcile of Cluster `c`:
the object it was given, the configuration it fetched, and its next call.

| Action | Code |
|---|---|
| `Start`, `AddFinalizer`, `RemoveFinalizer` | `FleetController::reconcile` under kube's `finalizer()` |
| `ReadConfig` (`AfterConfig`, `Bundled`) | `fetch_config` and `Cluster::to_bundle`, with the early returns of apply and cleanup |
| `PatchMapping`, `SyncFleet`, `PatchGroup`, `AnnotateNamespace` | `FleetClusterBundle::sync`, in its order |
| `ListReferences`, `DeleteMapping`, `ListOthers`, `RemoveAnnotation` | `FleetClusterBundle::cleanup`, in its order |
| `Fault` | an error of any call, and `error_policy` |
| `List`, `Drop`, `UpdateWatches`, `Lose`, `Deliver`, `DeliverMapping` | the watches, `update_watches`, `TypedReflectHandle`, the mapping stream |
| `Restart` | the process dies; what the first lists of the other watches queue |
| `CreateCluster` ... `RemoveMapping` | users and Cluster API |
| `CollectFleet`, `CollectGroup` | the garbage collector |

Abstractions. `patch()` and `get_or_create()` are a GET and an idempotent write and
count as one step. An event that cannot be published after the write fails the
reconcile: that is `Fault` in the next state. Owners of a group add up because each
Cluster applies it under its own field manager. The content of the Fleet Cluster is
its owner and its class label; template values, agent settings and the rest are the
choice `other` in `SyncFleet`, which lets a patch be needed at any time. Selectors do
not appear: `Watches` are the watches whose selection covers the Clusters.

**Two watches over a Cluster are the default.** With both selectors empty, `update_watches`
pushes a watch over all Clusters (`addon_config.rs:218-242`), and every event of a namespace
pushes another over the Clusters of that namespace (`cluster.rs:334-358`): its first listing,
and each later change, the annotation that the controller itself puts on it included. Their
streams are merged without order. `Watches` has therefore any number of members; the theorems
hold for any number, `single` and `twice` have two, and what is checked with one watch only says
so. What two watches break is listed below.

### Import and its refinement

`Import` knows of a Cluster its phase (absent, new, held, leaving, released), the last uid
of its name and the uids that objects refer to as their owner. `ClusterImport` computes
these from `ClusterController`: the phase from `capi` (`deleting` and our finalizer), the
owners from the Fleet Cluster and the groups. Everything else of the controller, its
caches, queues and half-done reconciles, is hidden by the mapping; that they never show is
what the refinement says. `Import!Progress` adds that no phase in which it is the turn of
the controller, Cluster API or the garbage collector lasts for ever.

### ClassGroups

One class, the group beside it (`Home`) and groups of the class in other namespaces
(`Abroad`), which the cluster controller makes. `rec` is the reconcile of the class,
`sync[g]` that of a group.

| Action | Code |
|---|---|
| `StartClass` (`ClassStep`), `AddClassFinalizer`, `RemoveClassFinalizer` | `FleetController::reconcile` under kube's `finalizer()` |
| `ReadClassConfig`, `NamedOwners`, `GroupOfClass` | `fetch_config` and `ClusterClass::to_bundle` |
| `ApplyClass`, `CreateHome` | `FleetClusterClassBundle::sync`: `patch()` or `get_or_create()` |
| `StartGroup`, `FetchClass`, `ApplyLabels`, `DropLegacy` | `ClusterGroup::reconcile`, in its order |
| `ClassFault`, `GroupFault` (`RetryClass`, `RetryGroup`) | an error of any call, and `error_policy` |
| `HearClass`, `HearGroup`, `Restart` | the controllers' watches and stores in `run_cluster_class_controller` |
| `CreateClass` ... `DeleteGroup`, `Attach`, `Detach`, `CreateAbroad` | users, other controllers, the cluster controller |
| `Collect` | the garbage collector |

Server-side apply is external and modelled by what the properties can see of it: a field
has a set of managers; an unforced apply of another value is refused while somebody else
holds the field; what a manager leaves out it lets go; an apply that carries an old
resourceVersion is refused (`Copy.fresh`), a merge patch is not. One label stands for those
a class has, `team` for those of users. An owner reference names an
incarnation of the class by its uid.

### ConfigSync

| Action | Code |
|---|---|
| `GetConfig` | the GET in `sync_fleet_config`; a string that does not parse is an error |
| `UpdateCertificate`, `UpdateUrl` | `update_certificate`, `update_url`: nothing asked, found, missing |
| `Patch` | `patch()`: compare, and apply by force what was read and changed |
| `Fault`, `Retry`, `Start`, `Hear`, `Write` | `reconcile_config_sync`, `error_policy`, the watches of `run_fleet_addon_config_controller` |
| `Edit`, `HelmWrites`, `UserWrites`, `HelmUninstalls`, `SourceChanges` | the other writers, and the objects that are read |

A URL or a CA is what it came from (the chart, the settings, an object) and the text that was
there; the rest of the Fleet configuration is one of two values. The three objects that are
read come, go and change what they hold at any time, and an `Endpoints` object may be there
without an address (`Empty`). `held` is history: what each has held since the last reconcile
began. `fresh` is the resourceVersion, as above.

### EventPipeline

All controllers are futures of one task. `Pass` starts a pass, `todo` is what the pass
still has to poll, `woken` says whether there is another. Reconciles are spawned: they
are the tasks `"watches"` (`update_watches`) and one per namespace
(`add_namespace_dynamic_watch`), which run on other threads and take the lock of the
stream. A watch that is pushed is `fresh` and asks for nothing until it is polled;
`Arm` is a poll of the set of watches that finds no event, and a poll of no watches at
all ends the broadcaster (`panicked`). The buffer is `queue`, one sequence per receiver,
full when the slowest receiver has `Capacity` events.

Abstractions. Reading a receiver to its end is one step: what the store then holds of a
namespace is its last event (`Selects`), or what it held if no event was about it
(`Silent`). The watch over all Clusters
that `update_watches` pushes gives no events of the modelled Clusters: they match only
the watches of their namespaces. `update_watches` works with the selector as it is
when its reconcile starts (`asked`). Watch errors, their back-off, signals and selectors that do
not parse are left out. A watch that ends and
lists again is modelled in `ClusterController` (`Drop`), not here.

### HelmInstall

One action is one helm command, one API call or the final status patch.

| Action | Code |
|---|---|
| `Start`, `Publish`, `Requeues` | `run_fleet_helm_controller`, `error_policy` |
| `SyncFlags` | `update_flags`, `merge_features` |
| `AddRepo`, `UpdateRepo`, `RepoFails` | `reconcile_helm` |
| `Launch`, `Refused`, `HelmEnds`, `Leave`, `RequeueLater`, `SearchFails` | the arms of `install_fleet`, first for `fleet-crd`, then for `fleet` |
| `Fault`, `Restart` | a call that returns early; the death of the process and its helm |

helm is external: what `helm list` shows, when it refuses and the pending release that
a killed helm leaves are those of helm 3.17, which the Dockerfile installs. A chart's
version is the version of its application. Of the conditions only `Ready` appears. The
referenced ConfigMap always exists.

## What each run checks

Passing runs:

| Run | Instance | Shows |
|---|---|---|
| `single` | two watches; one name created, deleted, created again; a failed call or a restart at any point | the store ends up with the Cluster as it is; the first Cluster of a name is applied only under its finalizer; a cleanup strips only what is being deleted or came later; at rest no import and no deletion is forgotten; every step is one `Import` allows |
| `pair` | one watch; two Clusters of one namespace and class, no disturbances | no mapping outlives both; a Cluster that stays is imported in the end and gets back what the cleanup of the other took |
| `recover` | one watch; one Cluster, a class elsewhere and one beside it, three configurations; two of a failed call, a restart, a lost watch, a removal by users, a move to the other class, a change of the settings | the Cluster is imported and its namespace annotated whenever the controller is at rest; `Import!Progress` |
| `groups` | the group beside a class made twice, with two disturbances of nine kinds; a group in another namespace, with class operations off and one disturbance; new or left by an older version | the class controller applies only what exists; neither controller undoes what others wrote; the group gets and keeps label and owner, and is never there without one; neither controller rests before that and before the legacy finalizer is gone; that finalizer goes; deletions complete |
| `sync` | every value of `spec.config.server`, every set of objects to read from, two texts; two edits, changes of these objects, failures or restarts | nothing of others is lost; at rest URL and CA are what the settings ask for, with a text that was there when the last reconcile began or since; in the end they are; a missing CA is found later |
| `helm` | six specs, two edits, two chart versions, one failure, one restart | the CRDs come first; charts change only as asked; a pinned version is reached; status and ConfigMap tell the truth; a settled controller has both charts as asked and says Ready |
| `pipeline` | one namespace, a buffer of one event, two changes of label, namespace or selector | nothing is sent before the controllers listen; the broadcaster never ends; no wake-up and no event is lost; Clusters of selected namespaces reach their controller, and have when the main task sleeps |

Runs that show a statement of the repository violated:

| Run | Property | What happens |
|---|---|---|
| `twice` | `EventuallyUnmapped` | with two watches over a Cluster, one that lags delivers it undeleted after the other had it cleaned up: `sync()` runs for a Cluster that is gone, and the mapping stays |
| `ghost` | `EventuallyMapped` | a lost Delete leaves a Cluster in the store; each change of the mappings cleans it up again and takes the mapping of its neighbour, for ever |
| `abroad` | `AbroadLabelled` | a change of a class's labels reaches the group beside the class and no group beside a Cluster |
| `latest` | `LatestIsInstalled` | after a restart between the two charts the last arm of `install_fleet` requeues at the CRDs and never reaches `fleet` |
| `unselected` | `OnlySelectedWatched` | a watch over a namespace stays when its label goes, and when its push races `update_watches` |

### Bounds

- **Two Clusters, one or two classes, two namespaces.** All interference goes through
  one mapping, one group and one annotation; a third Cluster adds no new pair of
  actions on them. One class is enough unless a class changes.
- **`MaxUid` = 2** where a name is used again: staleness compares two incarnations.
- **A shared budget of disturbances.** `Kinds` says which a run allows, `Budget` how many in
  all; their places are free, so that every call is failed, restarted at and reconfigured
  at, and in `recover` every pair of disturbances meets. A kind left out of a run is left out to keep the
  run in its time, and is in another run.
- **Two watches, or one.** `single` and `twice` have the two of the default configuration; a
  third adds no new order between two events of a Cluster, and the theorems need no bound.
  `pair`, `recover` and `ghost` have one: `pair` because `NoLeakedMapping` is false with two
  (`twice` shows the mapping stay for ever; its `EventuallyImported` holds with two as well, on
  the instance of `twice`), `recover` because with two watches a lost Delete can leave the
  Cluster in the store as it was before its deletion: it is synced for ever, the garbage
  collector takes what is made, the removal of which starts the next `sync()`, and
  `Import!Progress` is false. Without `Drop` and `UpdateWatches` it holds with two watches, on
  the same instance with one failure, restart or removal.
- **What `recover` does not check.** It has one Cluster: `References` is not empty only where
  that Cluster is beside its class, and nobody else is listed. That a mapping or the annotation
  goes in the end is not claimed by a passing run: it is false in ordinary cases (below).
- **`ClassGroups`**: two incarnations of the class, two values of the label. The two kinds of
  group interact through the class only, so they are in one run but not in one behaviour:
  `Starts` pairs each with the configuration that exercises it.
- **`ConfigSync`**: an edit, another text or a failure during the reconcile of another edit.
  At the start the objects hold the first of two texts; either may follow.
- **`Capacity` = 1** in the pipeline makes every event fill the buffer, the case in which
  the broadcaster waits. **One namespace** still gives two tasks that contend for the
  lock, and two kinds of event in one buffer. **Two changes** allow an edit during the
  work of an edit.
- **Two versions, two edits, one failure and one restart** in the installer: old, new
  and pinned to either; an edit during a reconcile, and one after it.

Distinct states of the passing runs: `single` 1,458,777, `pipeline` 1,098,237, `sync` 787,476,
`helm` 580,333, `recover` 306,753, `pair` 194,166, `groups` 169,884; each takes some two minutes at
most on two cores. The watches of
`single` are symmetric; runs with liveness use no symmetry.

All runs say `CHECK_DEADLOCK FALSE`: when the bounded environment is through and the
controllers have nothing to do, the system stops.

### Fairness

- `ClusterController`: weak fairness of each Cluster's reconcile (spawned tasks that the
  runtime polls to their end), of listing and delivery (the API server answers), of the
  garbage collector and of Cluster API's removal of its finalizer. Users, failures,
  drops and restarts owe nothing.
- `EventPipeline`: weak fairness of the main task, of every spawned task, of the start-up
  code and of the lists. The lock is not fair: a task that waits for it may be overtaken,
  and no strong fairness is assumed. That `Heard` holds all the same is due to the
  bounded number of reconciles.
- `ClassGroups`: weak fairness of both controllers' reconciles, of what their watches deliver,
  of the garbage collector and of the cluster controller, which makes a group that is needed;
  and whoever holds a group by a finalizer lets it go once it is being deleted.
- `ConfigSync`: weak fairness of the watch and of the reconcile. Objects that are read are
  not watched: what depends on them is assumed in the properties.
- `HelmInstall`: weak fairness of the controller as a whole. `helm --wait` ends by its own
  timeout and requeues fire.

## What is proved

For every value of the constants that satisfies the modules' assumptions:

- **`TypeCorrect`**, **`ViewsArePast`**, **`AppliesUnderFinalizer`**, **`FinalizerIsKept`**
  (ClusterController), for any number of watches. The last two speak of what a reconcile does
  with an old object, and neither is inductive. `PastViews` is: a *view* is a state of a
  Cluster that the reconcile, the store or an event on its way holds. Merged streams put
  older states back, so views have no order; but each is of a Cluster that was created, shows
  the Cluster that exists being deleted only if it is, and shows the first Cluster of a name
  with our finalizer only if it has it or is being deleted. That is what two watches leave
  of the order one watch would give, and it is as much as the two properties claim: a
  *second* Cluster of a name may lose its finalizer to a cleanup that lags, since the patch
  tests no uid, and `FinalizerKept` names that case.
- **`ImplementsImport`** (ClusterController implements `Import`), for any number of watches.
  Initial states map to initial states, and each action maps to one of `Import`'s or to a
  stutter. It rests on `PastViews` for the steps of a reconcile with an old object, on
  `ApplyUnderFinalizer`, and on `LastOfItsName`: the Cluster that exists has the last uid given
  to its name.
- **`InstallTypeCorrect`**, **`CrdsComeFirst`**, **`ChartsAreNotTouchedInVain`** (HelmInstall).
  `CrdsFirst` needs `Ordered`: while the reconcile is at `fleet` the CRDs are through, a
  command that runs is one for the target, nothing is left over from an earlier command
  unless one failed, and an object without an install never gets to the charts. The third
  is an action property over `TypeOK`, `Known` (helm's copy of the repository is never
  older than a release) and `FlagsOnly` (an object with a ConfigMap never gets to helm).
- **`KeptVersionIsReported`**, **`SettingsAreFollowed`** (HelmInstall). Both say that a status or a
  ConfigMap tells the truth when nothing is due, and follow from `Truthful`, which says of each
  step of a reconcile what has become true on the way: what was launched or found is the
  version the status will name, a reconcile that ends well leaves the gates of its object in
  the ConfigMap, and the controller settles only with the newest spec reconciled.
- **`TypeCorrect`**, **`AppliesWhileHeld`**, **`OthersAreKept`** (ClassGroups). The first
  property needs `ClassViews`: the reconcile's class is not newer than the store's, nor that
  than the API server's, and one seen under the finalizer undeleted is there until someone
  has seen it deleted. The second needs `CopiesFaithful`: a copy still `fresh` has the users'
  label and the owners of the group.
- **`NothingOrphaned`** (ClassGroups): no write leaves the group beside the class without an
  owner, unless it is being deleted. The class controller names the owner whenever it
  writes; the group controller names the owners its copy shows, and a `fresh` copy shows
  them as they are; the garbage collector deletes the group with its last owner.
- **`TypeCorrect`**, **`OthersAreKept`** (ConfigSync), the latter from `CopyFaithful`, the same
  for the ConfigMap.
- **`PipelineTypeCorrect`**, **`BroadcasterNeverEnds`**, **`NoEventUnheard`**,
  **`NothingIsForgotten`** (EventPipeline). `IInv` ties the lock to the steps that need it,
  says that the stream lacks its first watches only under the lock, and that the main
  task runs only after the barrier. `Awake` adds that whoever has something to do is
  polled in this pass, or another pass is due, or a reconcile runs that will wake the
  task, or a receiver with unread events will. It is preserved by every action, and when
  the task sleeps it leaves nothing to do.

### At rest, everything is right

Liveness is out of the prover's reach, but half of it is not. That a controller ends up
where it should be says two things: while it is not there, something is left that will make
it go on; and it does go on. The first is an invariant, *at rest implies right*, where at
rest means that no event is on its way, nothing is due and no reconcile is in progress. It
is the half in which code goes wrong by forgetting: a retry that is missing, an event that
is dropped, a change that falls between the read and the write of a reconcile. The second
half is fairness and the end of the disturbances, and TLC checks both together as liveness:
`EventuallyImported`, `PinnedIsInstalled`, `Heard`, `HomeLabelled`, `LegacyGoes`,
`EventuallySynced`. (For `ReadyAtRest` and `NeverOrphaned` no run checks the second half.)
None of these invariants is inductive; each strengthening says, for every state in
between, where what is left to do is written down.

- **`StoreIsCurrent`**, **`HeldWhenAtRest`**, **`ImportedWhenAtRest`** (ClusterController), from
  `Attended` (`AttendedAlways`). It has two parts. `UpToDate`: a watch that has listed knows the
  Cluster as it is, or the last event it still has to deliver shows it so; hence, in whatever
  order the streams are merged, the last event of all shows the Cluster as it is.
  `Attends`: a Cluster that nothing prompts the controller to look at is either in a reconcile
  that works on the Cluster and the settings as they are, and finds what it made so far still
  there (`Working`), or all that is asked for is there (`Through`). Whatever removes or changes
  one of the objects prompts: the Fleet Cluster and the group through their owner, the
  mapping through its stream, the settings through `update_watches`. The annotation is claimed
  for a Cluster alone in its namespace: a neighbour's cleanup may take it and nothing
  prompts. `ClassesKept` is needed because the comparison of a Fleet Cluster does not look for
  a class label that should not be there: a Cluster without a class never had one. The
  theorems assume `Watches # {}` (no promise is made for a Cluster that no selector covers).
- **`InstalledWhenAtRest`**, **`ReadyWhenAtRest`** (HelmInstall). `Served`: a reconcile that is about
  to publish a success has left both charts as its object asks; `Ordered` tells of the CRDs,
  `Truthful` that the object is the current one. Failed and killed commands are excluded
  from the first: their exit status is dropped, see the hazards.
- **`HeardWhenAtRest`** (EventPipeline), from `Chain`, which follows an event from the watch to the
  reconcile. `Sought`: the watch over namespaces has the selector the `FleetAddonConfig` asks
  for, or `update_watches` is due or at work for it. `Followed`: a namespace it matches is in
  the hand of the broadcaster or in the buffer, as an event that says so, or the
  controller has it in its store with a watch over its Clusters or a reconcile that will push
  one. `Told`: a Cluster under a live watch was heard, or its event is on its way. It rests
  on `NothingIsForgotten`, which says that what is on its way does not lie there while the
  task sleeps.
- **`LegacyGoneAtRest`** (ClassGroups), from `LegacyRemembered`: while a group has the finalizer, the
  store and the copy of a reconcile show it if they show the group at all, and the group is
  due, in a reconcile, or not in the store as it is; and a group that is being deleted waits for a
  finalizer.
- **`InheritsAtRest`** (ClassGroups), for a configuration that stays, as in its property. `Told`:
  unless the class is due, its reconcile works on what the store has; or there is none, and
  the group carries label and owner, or the API server has a finalizer or a deletion that
  the store has not. It needs `ClassViews`, too: a class made anew is not the one in
  the store. A change of the group makes the class due only through the owner
  reference, and so the invariant must carry it.
- **`NothingForgotten`** (ConfigSync), from `Served`: unless a reconcile is due, the one in
  progress was started for the settings in the store and its copy has what they ask for as far
  as it has come, and without one the ConfigMap has; and from `Remembered`: what can be read now
  counts among what was there since the last start. What is asked for is the right object *and* a
  text that it held when the last reconcile began or since, so that a value of an earlier
  reconcile never survives the next one. Two limits are the code's own and stand in the
  property: a text that changes after the last reconcile is not followed, as nobody watches the
  objects (`addon_config.rs:290-321`), and the URL stays as it was if the endpoint had no address.

Only model-checked: the liveness properties, `Import!Progress` (`ImportsInTheEnd`) among them,
since the prover knows no fairness and no ENABLED; the runs that show a violation; and
`NoLeakedMapping`, which is true only with one watch over the Clusters, settings and classes that
stay, and no Cluster beside its class: `pair` checks it as what the calls of two reconciles owe
each other, and no theorem is stated for a configuration that is not the default. Every other
invariant and every action property of the passing runs is proved, with no assumption on the
number of watches but the one named.

## Seen while modelling, and not kept as a run

These follow from the code and either contradict no statement of the repository or
repeat a kept run in another place:

- with two watches, the default: a cleanup of a Cluster that lags strips the finalizer of a
  Cluster created again under its name, which then goes without a cleanup; the mapping stays
  when its Clusters are gone (`twice`); and a Delete that `update_watches` or an ended watch
  loses can leave the Cluster in the store undeleted, where the controller makes its Fleet
  Cluster and group and the garbage collector takes them, in turns and for ever;
- a CA rotated or an endpoint moved after the last reconcile is not followed until something else
  starts one: `update_certificate` and `update_url` read objects that nobody watches;
- two Clusters of one namespace that are deleted together each see the other in
  `list_others`, and the annotation stays;
- with a naming strategy a Cluster is compared with the Fleet name, counts itself as
  another Cluster, and the annotation never goes;
- with `patchResource` off, neither mapping nor group is ever made; with
  `setOwnerReferences` off the Fleet Cluster is never removed and the group still gets
  an owner;
- a class moved to another namespace, or `applyClassGroup` turned off, leaves the old
  mapping behind;
- `cleanup()` looks for referring Clusters in the namespace of the class and not in the one
  the mapping is for: the mapping of a live Cluster is deleted and, as `pair` shows, made
  again once that Cluster is queued;
- and when it finds one there, it keeps the mapping of the namespace of the Cluster that goes,
  even if that was the last one of its namespace: the mapping stays when both are gone;
- a Cluster imported between `ListOthers` and `RemoveAnnotation` of another's cleanup loses
  the annotation of its namespace, and nothing queues it again;
- the comment at `src/multi_dispatcher.rs:42` says that events without receivers are
  buffered; they are lost, and the barrier is what makes that harmless (`NoneUnheard`);
- a pinned version is not reported again when its status patch was lost; a failed or
  pending release is never retried; after an upgrade nothing polls for the next version;
  a change of the gates does not reach an installed chart;
- the helm-operations gate of the chart is filled from the OCI gate
  (`src/controllers/helm/install.rs:133`, `ChartValues`);
- class operations enabled later, or other settings changed, queue no class;
- a label made by `get_or_create()` belongs to another manager and conflicts with every later
  apply; a label that a user took blocks all that comes after it in a group's reconcile, the
  removal of the legacy finalizer too; a label dropped from a class stays on its groups;
- the finalizers of a group are merge-patched from a copy: a finalizer that another actor
  set or removed in between is undone (`src/controllers/cluster_group.rs:47`), and once its
  class is gone a group under the legacy finalizer is never released (`:29`);
- with `setOwnerReferences` off a group of a class that users delete is not made again;
- an endpoint without an address is no error in `update_url` and nobody looks again.

## Not modelled, and why

Template values carry data only. The registration token is behind a feature that the
default build leaves out. Metrics, telemetry, web server, CRD generator, generated types
and the tooling under `hack/` and `docs/` have no effect on the cluster.

## Plan

Done: every component that changes the cluster is modelled and checked, and what the passing
runs check without fairness is proved, `NoLeakedMapping` excepted. What would add most from here:

1. **Mappings under several watches.** `NoLeakedMapping` is checked for one watch. How far from
   it two watches can lead, beyond the mapping that `twice` shows to stay, is open: a bound in
   terms of the Clusters still in the store would be worth a theorem.
2. **Composition**: the watches of `ClusterController` driven by the rules of
   `EventPipeline`, so that their number follows from the events of a namespace, and
   `HeardAtRest` gives `ImportedAtRest` its events.
3. **Clusters beside their class**: `cleanup()` where it finds them, as an instance
   of its own once the repository says what is to happen to their neighbours' mappings.
