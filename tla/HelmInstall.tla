------------------------------ MODULE HelmInstall ------------------------------
(***************************************************************************)
(* The Helm installer: FleetAddonConfig::reconcile_helm with install_fleet *)
(* and update_flags (src/controllers/addon_config.rs), the helm commands   *)
(* it spawns (src/controllers/helm/install.rs) and the controller around   *)
(* it (run_fleet_helm_controller in src/controller.rs).                    *)
(*                                                                         *)
(* One action is one helm command, one API call, or the status patch that  *)
(* ends a reconcile.  The controller waits for a command and never looks   *)
(* at its exit status, so a command that fails looks like one that worked. *)
(* helm itself is external: what `helm list` shows, when `helm install`    *)
(* and `helm upgrade` refuse, and the pending release a killed helm leaves *)
(* are those of the version the Dockerfile installs, 3.17.                 *)
(***************************************************************************)
EXTENDS Naturals

CONSTANTS
    MaxVersion,   \* bound: the versions the chart repository ever publishes
    Specs,        \* the values the spec of FleetAddonConfig may take
    MaxGen,       \* bound: the generations of the spec
    MaxFaults,    \* bound: failed calls and failed commands
    MaxRestarts   \* bound: restarts of the controller

Versions == 1 .. MaxVersion

Charts == {"fleet-crd", "fleet"}

Gates == [oci : BOOLEAN, ops : BOOLEAN]

(* Neither variable is set; Fleet reads that as off. *)
Unset == [oci |-> FALSE, ops |-> FALSE]

(***************************************************************************)
(* spec.install: absent, followLatest: true, followLatest: false, or a     *)
(* version without its leading "v".                                        *)
(***************************************************************************)
Install == [kind : {"none", "latest", "keep"}, version : {0}]
             \cup [kind : {"pinned"}, version : Versions]

(* ref: spec.config.featureGates.configMap.ref is set *)
Spec == [install : Install, gates : Gates, ref : BOOLEAN]

ASSUME BoundsAssumption ==
    /\ MaxVersion \in Nat \ {0}
    /\ Specs \subseteq Spec
    /\ {MaxGen, MaxFaults, MaxRestarts} \subseteq Nat

(* A release in the cluster, as the latest revision helm stores of it. *)
Release == [state : {"absent"}, version : {0}]
             \cup [state : {"pending", "deployed", "failed"}, version : Versions]

VARIABLES
    spec,      \* the spec of the FleetAddonConfig
    gen,       \* its metadata.generation
    status,    \* its status: installed version, and the Ready condition
    settings,  \* the feature gates in the referenced ConfigMap
    charts,    \* the releases of the two charts
    values,    \* the feature gates the fleet release was given
    latest,    \* the newest version in the chart repository
    repo,      \* the newest version in helm's local copy of it; 0: not added
    due,       \* an event or a requeue asks for a reconcile
    step,      \* the command or call the reconcile makes next
    running,   \* the helm command of this step has started
    conf,      \* the object the reconcile works on, its status included
    result,    \* what the reconcile returns: Ok(await), Ok(requeue) or Err
    broken,    \* history: a command that changes a release failed or was killed
    faults, restarts

cluster == <<charts, values>>
object == <<spec, gen, status>>
world == <<object, settings, cluster, latest>>
reconcile == <<due, step, running, conf, result>>
history == <<broken, faults, restarts>>
vars == <<world, repo, reconcile, history>>

Steps == {"idle", "flags", "add", "update", "publish"} \cup Charts

TypeOK ==
    /\ spec \in Specs
    /\ gen \in 1 .. MaxGen + 1
    /\ status \in [version : Versions \cup {0}, ready : BOOLEAN, gen : 0 .. MaxGen + 1]
    /\ settings \in Gates
    /\ charts \in [Charts -> Release]
    /\ values \in Gates
    /\ latest \in Versions
    /\ repo \in 0 .. latest
    /\ due \in BOOLEAN
    /\ step \in Steps
    /\ running \in BOOLEAN
    /\ running => step \in Charts /\ charts[step].state = "pending"
    /\ conf \in [spec : Specs, gen : 1 .. MaxGen + 1, version : Versions \cup {0}]
    /\ result \in {"ok", "again", "error"}
    /\ broken \in BOOLEAN
    /\ faults \in 0 .. MaxFaults
    /\ restarts \in 0 .. MaxRestarts

--------------------------------------------------------------------------------
(* helm, as an external program. *)

Absent == [state |-> "absent", version |-> 0]

Deployed(v) == [state |-> "deployed", version |-> v]

(* `helm list -A` shows deployed and failed releases, and no pending one. *)
Listed(c) == charts[c].state \in {"deployed", "failed"}

(***************************************************************************)
(* helm refuses to install over a release of that name in any state, to    *)
(* upgrade one that is pending, and a version its copy of the repository   *)
(* does not hold.                                                          *)
(***************************************************************************)
Accepts(c, v) ==
    /\ charts[c].state # "pending"
    /\ v <= repo

--------------------------------------------------------------------------------
(* The surroundings. *)

Init ==
    /\ spec \in Specs
    /\ gen = 1
    /\ status = [version |-> 0, ready |-> FALSE, gen |-> 0]
    /\ settings = Unset
    /\ latest = 1
    /\ charts \in [Charts -> {Absent, Deployed(1)}]
    /\ values = Unset
    /\ repo = 0
    /\ due = TRUE
    /\ step = "idle"
    /\ running = FALSE
    /\ conf = [spec |-> spec, gen |-> 1, version |-> 0]
    /\ result = "ok"
    /\ broken = FALSE
    /\ faults = 0
    /\ restarts = 0

(* A user edits the spec; a pinned version is one that exists. *)
Edit(s) ==
    /\ gen <= MaxGen
    /\ s # spec
    /\ s.install.version <= latest
    /\ spec' = s
    /\ gen' = gen + 1
    /\ due' = TRUE
    /\ UNCHANGED <<status, settings, cluster, latest, repo, step, running, conf,
                   result, history>>

(* A new version of both charts is published. *)
PublishVersion ==
    /\ latest < MaxVersion
    /\ latest' = latest + 1
    /\ UNCHANGED <<object, settings, cluster, repo, reconcile, history>>

--------------------------------------------------------------------------------
(* The reconcile. *)

(* Mutant: reconcile_helm syncs the flags and goes on to the charts. *)
FirstStepAlwaysCharts(s) == "add"

(* update_flags comes first, and ends the reconcile when it has a ConfigMap. *)
FirstStep(s) == IF s.ref THEN "flags" ELSE "add"

(***************************************************************************)
(* The controller takes the cached object; only events that change its     *)
(* generation start a reconcile.                                           *)
(***************************************************************************)
Start ==
    /\ step = "idle"
    /\ due
    /\ due' = FALSE
    /\ conf' = [spec |-> spec, gen |-> gen, version |-> status.version]
    /\ step' = FirstStep(spec)
    /\ UNCHANGED <<world, repo, running, result, history>>

(* Mutant: the child process is not waited for at the end. *)
FinishRunning(r) ==
    /\ step' = "publish"
    /\ UNCHANGED running
    /\ result' = r

(* The reconcile returns, with its Ready condition still to be published. *)
Finish(r) ==
    /\ step' = "publish"
    /\ running' = FALSE
    /\ result' = r

(* Mutant: both variables are given the OCI flag. *)
MergedOci(g) == [oci |-> g.oci, ops |-> g.oci]

(* merge_features: the two variables in the ConfigMap's chart values. *)
Merged(g) == [oci |-> g.oci, ops |-> g.ops]

SyncFlags ==
    /\ step = "flags"
    /\ settings' = Merged(conf.spec.gates)
    /\ Finish("ok")
    /\ UNCHANGED <<object, cluster, latest, repo, due, conf, history>>

(* `helm repo add` downloads the index unless it has one. *)
AddRepo ==
    /\ step = "add"
    /\ repo' = IF repo = 0 THEN latest ELSE repo
    /\ step' = "update"
    /\ UNCHANGED <<world, due, running, conf, result, history>>

(* After `helm repo update`, only a spec with an install goes on. *)
AfterUpdate ==
    \/ /\ conf.spec.install.kind = "none"
       /\ Finish("ok")
    \/ /\ conf.spec.install.kind # "none"
       /\ step' = "fleet-crd"
       /\ UNCHANGED <<running, result>>

UpdateRepo ==
    /\ step = "update"
    /\ repo' = IF repo = 0 THEN 0 ELSE latest
    /\ AfterUpdate
    /\ UNCHANGED <<world, due, conf, history>>

(* add or update exits with an error; nobody looks. *)
RepoFails ==
    /\ faults < MaxFaults
    /\ faults' = faults + 1
    /\ \/ step = "add" /\ step' = "update" /\ UNCHANGED <<running, result>>
       \/ step = "update" /\ AfterUpdate
    /\ UNCHANGED <<world, repo, due, conf, broken, restarts>>

(* The version a command installs: the pinned one, or the newest known. *)
Target ==
    IF conf.spec.install.kind = "pinned" THEN conf.spec.install.version ELSE repo

(* Mutant: a pinned version is compared with nothing once it is installed. *)
OutdatedLatest(c) ==
    /\ Listed(c)
    /\ conf.spec.install.kind = "latest"
    /\ charts[c].version # repo

(* The two guarded arms that upgrade. *)
Outdated(c) ==
    /\ Listed(c)
    /\ conf.spec.install.kind \in {"latest", "pinned"}
    /\ charts[c].version # Target

(* Mutant: a pinned version that is installed falls to the last arm too. *)
AgainPinned(c) ==
    /\ Listed(c)
    /\ conf.spec.install.kind \in {"latest", "pinned"}
    /\ charts[c].version = Target

(* The last arm, `(_, _, _)`: an installed latest version ends the reconcile. *)
Again(c) ==
    /\ Listed(c)
    /\ conf.spec.install.kind = "latest"
    /\ charts[c].version = Target

(* The arm of one chart is through: the other chart, or the end. *)
NextChart(c, version) ==
    \/ /\ c = "fleet-crd"
       /\ step' = "fleet"
       /\ running' = FALSE
       /\ UNCHANGED <<conf, result>>
    \/ /\ c = "fleet"
       /\ conf' = [conf EXCEPT !.version = version]
       /\ Finish("ok")

(* FleetChart::fleet fills both variables from experimental_oci_storage. *)
ChartValues(g) == [oci |-> g.oci, ops |-> g.oci]

(* `helm search repo` prints no JSON when no repository was added. *)
SearchFails ==
    /\ step \in Charts
    /\ ~running
    /\ repo = 0
    /\ Finish("error")
    /\ UNCHANGED <<world, repo, due, conf, history>>

(* helm install for a chart that is not listed, helm upgrade for an outdated one. *)
Launch(c) ==
    /\ step = c /\ ~running /\ repo # 0
    /\ ~Listed(c) \/ Outdated(c)
    /\ Accepts(c, Target)
    /\ charts' = [charts EXCEPT ![c] = [state |-> "pending", version |-> Target]]
    /\ values' = IF c = "fleet" THEN ChartValues(conf.spec.gates) ELSE values
    /\ running' = TRUE
    /\ UNCHANGED <<object, settings, latest, repo, due, step, conf, result, history>>

(* The same, when helm refuses: the reconcile goes on as if it had run. *)
Refused(c) ==
    /\ step = c /\ ~running /\ repo # 0
    /\ ~Listed(c) \/ Outdated(c)
    /\ ~Accepts(c, Target)
    /\ broken' = TRUE
    /\ NextChart(c, Target)
    /\ UNCHANGED <<world, repo, due, faults, restarts>>

(* helm --wait ends, well or after its own timeout. *)
HelmEnds(c) ==
    /\ step = c /\ running
    /\ \/ /\ charts' = [charts EXCEPT ![c].state = "deployed"]
          /\ UNCHANGED history
       \/ /\ faults < MaxFaults
          /\ faults' = faults + 1
          /\ broken' = TRUE
          /\ charts' = [charts EXCEPT ![c].state = "failed"]
          /\ UNCHANGED restarts
    /\ NextChart(c, Target)
    /\ UNCHANGED <<object, settings, values, latest, repo, due>>

(* Mutant: the version that was kept is not reported. *)
KeptVersionSilent == conf.version

(* followLatest: false reports the version it finds, a pinned one nothing. *)
KeptVersion ==
    IF conf.spec.install.kind = "keep" THEN charts["fleet"].version ELSE conf.version

(* The release is the one asked for. *)
Leave(c) ==
    /\ step = c /\ ~running /\ repo # 0
    /\ Listed(c) /\ ~Outdated(c) /\ ~Again(c)
    /\ NextChart(c, KeptVersion)
    /\ UNCHANGED <<world, repo, due, history>>

RequeueLater(c) ==
    /\ step = c /\ ~running /\ repo # 0
    /\ Again(c)
    /\ Finish("again")
    /\ UNCHANGED <<world, repo, due, conf, history>>

(* A command does not start, or an API call fails: `?` returns. *)
Fault ==
    /\ faults < MaxFaults
    /\ faults' = faults + 1
    /\ step \notin {"idle", "publish"} /\ ~running
    /\ Finish("error")
    /\ UNCHANGED <<world, repo, due, conf, broken, restarts>>

(* Mutant: an error waits for the next change of the spec. *)
RequeuesNever(conflict) == FALSE

(* error_policy, and the Ok(requeue) of install_fleet. *)
Requeues(conflict) == conflict \/ result # "ok"

(***************************************************************************)
(* The status patch carries the resourceVersion of the object: it          *)
(* conflicts when the object has changed since, and may fail by itself.    *)
(***************************************************************************)
Publish ==
    /\ step = "publish"
    /\ \/ /\ gen = conf.gen
          /\ status' = [version |-> conf.version, ready |-> result # "error",
                        gen |-> conf.gen]
          /\ due' = (due \/ Requeues(FALSE))
          /\ UNCHANGED faults
       \/ /\ gen # conf.gen
          /\ due' = (due \/ Requeues(TRUE))
          /\ UNCHANGED <<status, faults>>
       \/ /\ faults < MaxFaults
          /\ faults' = faults + 1
          /\ due' = (due \/ Requeues(TRUE))
          /\ UNCHANGED status
    /\ step' = "idle"
    /\ UNCHANGED <<spec, gen, settings, cluster, latest, repo, running, conf,
                   result, broken, restarts>>

(* The process and its helm command die; helm's files go with the container. *)
Restart ==
    /\ restarts < MaxRestarts
    /\ restarts' = restarts + 1
    /\ step' = "idle"
    /\ running' = FALSE
    /\ due' = TRUE
    /\ repo' = 0
    /\ broken' = (broken \/ running)
    /\ UNCHANGED <<world, conf, result, faults>>

--------------------------------------------------------------------------------
Progress ==
    \/ Start \/ SyncFlags \/ AddRepo \/ UpdateRepo \/ SearchFails \/ Publish
    \/ \E c \in Charts : Launch(c) \/ Refused(c) \/ HelmEnds(c) \/ Leave(c) \/ RequeueLater(c)

Next ==
    \/ \E s \in Specs : Edit(s)
    \/ PublishVersion
    \/ Progress
    \/ RepoFails
    \/ Fault
    \/ Restart

Safety == Init /\ [][Next]_vars

(***************************************************************************)
(* The controller runs whenever it can: its task is polled, `helm --wait`  *)
(* ends by its own timeout, and requeues fire.                             *)
(***************************************************************************)
Fair == Safety /\ WF_vars(Progress)

Settled == step = "idle" /\ ~due

--------------------------------------------------------------------------------
(***************************************************************************)
(* The fleet chart is touched after its CRDs: unless a helm command failed *)
(* or was killed, the CRDs are deployed at the version the fleet chart is  *)
(* being given.  followLatest: false promises no more than that they are   *)
(* there (install_fleet handles fleet-crd, then fleet).                    *)
(***************************************************************************)
CrdsFirst ==
    step = "fleet" /\ running /\ ~broken =>
        /\ charts["fleet-crd"].state = "deployed"
        /\ \/ charts["fleet-crd"].version = charts["fleet"].version
           \/ conf.spec.install.kind = "keep"

(***************************************************************************)
(* A chart that is installed changes only to become the version the object *)
(* pins or, under followLatest: true, a newer one; never while the feature *)
(* gates go to a ConfigMap, whatever is pinned (the guards of install_fleet*)
(* and the early return of update_flags).                                  *)
(***************************************************************************)
TouchedOnlyToChange ==
    [][\A c \in Charts : Listed(c) /\ charts'[c] # charts[c] =>
          /\ ~conf.spec.ref
          /\ \/ /\ conf.spec.install.kind = "pinned"
                /\ charts'[c].version = conf.spec.install.version
                /\ charts'[c].version # charts[c].version
             \/ /\ conf.spec.install.kind = "latest"
                /\ charts'[c].version > charts[c].version]_vars

(***************************************************************************)
(* Once the controller is settled under followLatest: false, the status    *)
(* shows the version that runs, also after a restart that lost the report  *)
(* of the reconcile that installed it (the arm that only reports).         *)
(***************************************************************************)
KeptVersionReported ==
    Settled /\ ~broken /\ ~spec.ref /\ spec.install.kind = "keep" =>
        status.version = charts["fleet"].version

(***************************************************************************)
(* Once the controller is settled with a referenced ConfigMap, it holds    *)
(* the gates of the current spec: no edit is lost to a reconcile that      *)
(* started before it (update_config_map, the conflict of the status patch).*)
(***************************************************************************)
SettingsFollowGates == Settled /\ spec.ref => settings = spec.gates

(* The releases are those an install asks for. *)
Installed(install) ==
    /\ \A c \in Charts : charts[c].state = "deployed"
    /\ \/ install.kind = "keep"
       \/ charts["fleet-crd"].version = charts["fleet"].version
    /\ install.kind = "pinned" => charts["fleet"].version = install.version

(***************************************************************************)
(* Once the controller is settled, both charts run as the current spec     *)
(* asks, or a helm command failed or was killed: neither an edit during a  *)
(* reconcile nor an error between two commands leaves one chart of the two *)
(* forgotten (the arms of install_fleet, error_policy, the conflict of the *)
(* status patch).                                                          *)
(***************************************************************************)
InstalledAtRest ==
    Settled /\ ~broken /\ ~spec.ref /\ spec.install.kind # "none" => Installed(spec.install)

(***************************************************************************)
(* The controller never settles with an error or an older generation in    *)
(* the status: who waits for the Ready condition is not left waiting       *)
(* (error_policy, the status patch of run_fleet_helm_controller).          *)
(***************************************************************************)
ReadyAtRest == Settled => status.gen = gen /\ status.ready

(***************************************************************************)
(* A pinned version gets installed whatever is interrupted between two     *)
(* commands, as long as helm itself works (the arms for Install::Version). *)
(***************************************************************************)
PinnedIsInstalled ==
    <>[](~broken /\ ~spec.ref /\ spec.install.kind = "pinned" =>
            charts["fleet"] = Deployed(spec.install.version))

(***************************************************************************)
(* "followLatest: true # Installs current latest version of fleet", in     *)
(* docs/src/02_getting_started/02_configuration.md: fleet gets installed,  *)
(* whatever is interrupted between two commands.                           *)
(***************************************************************************)
LatestIsInstalled ==
    <>[](~broken /\ ~spec.ref /\ spec.install.kind = "latest" =>
            charts["fleet"].state = "deployed")
================================================================================
