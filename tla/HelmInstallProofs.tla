--------------------------- MODULE HelmInstallProofs ---------------------------
(***************************************************************************)
(* Theorems about HelmInstall, for every set of specs and every bound:     *)
(* TypeOK is inductive, with Ordered so is CrdsFirst, with Truthful what   *)
(* the status and the ConfigMap tell, and with Served what runs at rest.   *)
(***************************************************************************)
EXTENDS HelmInstall, TLAPS

LEMMA Bounds ==
    /\ MaxVersion \in Nat /\ 1 <= MaxVersion
    /\ MaxGen \in Nat /\ MaxFaults \in Nat /\ MaxRestarts \in Nat
    /\ \A f \in 0 .. MaxFaults : f < MaxFaults => f + 1 \in 0 .. MaxFaults
    /\ \A r \in 0 .. MaxRestarts : r < MaxRestarts => r + 1 \in 0 .. MaxRestarts
  BY BoundsAssumption

(* The version a reconcile gives a chart is one the repository has had. *)
LEMMA TargetType ==
    ASSUME TypeOK
    PROVE  Target \in Versions \cup {0} /\ (repo # 0 => Target \in Versions)
<1>1. conf.spec \in Spec /\ repo \in Versions \cup {0}
  BY BoundsAssumption DEF TypeOK, Versions
<1>2. conf.spec.install \in Install
  BY <1>1 DEF Spec
<1>3. conf.spec.install.kind = "pinned" => conf.spec.install.version \in Versions
  BY <1>2 DEF Install
<1> QED
  BY <1>1, <1>3 DEF Target

LEMMA KeptVersionType ==
    ASSUME TypeOK
    PROVE  KeptVersion \in Versions \cup {0}
<1>1. charts["fleet"] \in Release
  BY DEF TypeOK, Charts
<1>2. charts["fleet"].version \in Versions \cup {0}
  BY <1>1 DEF Release
<1> QED
  BY <1>2 DEF KeptVersion, TypeOK

(* Going on after a chart keeps the types of what the reconcile holds. *)
LEMMA NextChartType ==
    ASSUME TypeOK, NEW c \in Charts, step = c,
           NEW v \in Versions \cup {0}, NextChart(c, v)
    PROVE  /\ step' \in Steps
           /\ running' \in BOOLEAN
           /\ ~running'
           /\ conf' \in [spec : Specs, gen : 1 .. MaxGen + 1, version : Versions \cup {0}]
           /\ result' \in {"ok", "again", "error"}
  BY DEF TypeOK, NextChart, Finish, Steps, Charts

LEMMA NoCommandRuns ==
    ASSUME TypeOK, step \notin Charts
    PROVE  running = FALSE
  BY DEF TypeOK

LEMMA AfterUpdateType ==
    ASSUME TypeOK, AfterUpdate, step = "update"
    PROVE  /\ step' \in Steps
           /\ running' \in BOOLEAN
           /\ ~running'
           /\ result' \in {"ok", "again", "error"}
<1>1. running = FALSE
  BY NoCommandRuns DEF Charts
<1> QED
  BY <1>1 DEF TypeOK, AfterUpdate, Finish, Steps, Charts

(* One chart's release changes to another release. *)
LEMMA ChartsType ==
    ASSUME TypeOK, NEW c \in Charts, NEW r \in Release,
           charts' = [charts EXCEPT ![c] = r]
    PROVE  charts' \in [Charts -> Release]
  BY DEF TypeOK

LEMMA InitType == Init => TypeOK
<1> SUFFICES ASSUME Init PROVE TypeOK
  OBVIOUS
<1>1. Absent \in Release /\ Deployed(1) \in Release /\ 1 \in Versions
  BY BoundsAssumption DEF Absent, Deployed, Release, Versions
<1>2. charts \in [Charts -> Release]
  BY <1>1 DEF Init
<1>3. Unset \in Gates
  BY DEF Unset, Gates
<1>4. spec \in Specs /\ gen \in 1 .. MaxGen + 1
  BY Bounds DEF Init
<1>5. conf \in [spec : Specs, gen : 1 .. MaxGen + 1, version : Versions \cup {0}]
  BY <1>4 DEF Init
<1>6. status \in [version : Versions \cup {0}, ready : BOOLEAN, gen : 0 .. MaxGen + 1]
  BY Bounds DEF Init
<1>7. latest \in Versions /\ repo \in 0 .. latest
  BY <1>1 DEF Init
<1>8. faults \in 0 .. MaxFaults /\ restarts \in 0 .. MaxRestarts
  BY Bounds DEF Init
<1> QED
  BY <1>2, <1>3, <1>4, <1>5, <1>6, <1>7, <1>8 DEF Init, TypeOK, Steps

LEMMA StepType == TypeOK /\ [Next]_vars => TypeOK'
<1> SUFFICES ASSUME TypeOK, [Next]_vars PROVE TypeOK'
  OBVIOUS
<1> USE BoundsAssumption
<1>1. ASSUME NEW s \in Specs, Edit(s) PROVE TypeOK'
  BY <1>1 DEF Edit, TypeOK, cluster, history
<1>2. CASE PublishVersion
  BY <1>2 DEF PublishVersion, TypeOK, object, cluster, reconcile, history, Versions
<1>3. CASE Start
  BY <1>3 DEF Start, TypeOK, FirstStep, Steps, Charts, world, object, cluster, history
<1>4. CASE SyncFlags
  <2>1. conf.spec.gates \in Gates
    BY DEF TypeOK, Spec
  <2>2. settings' \in Gates
    BY <1>4, <2>1 DEF SyncFlags, Merged, Gates
  <2> QED
    BY <1>4, <2>2 DEF SyncFlags, Finish, TypeOK, Steps, object, cluster, history
<1>5. CASE AddRepo
  BY <1>5 DEF AddRepo, TypeOK, Steps, Charts, Versions, world, object, cluster, history
<1>6. CASE UpdateRepo
  BY <1>6, AfterUpdateType
  DEF UpdateRepo, TypeOK, Versions, world, object, cluster, history
<1>7. CASE SearchFails
  BY <1>7 DEF SearchFails, Finish, TypeOK, Steps, world, object, cluster, history
<1>8. CASE Publish
  <2>1. status' \in [version : Versions \cup {0}, ready : BOOLEAN, gen : 0 .. MaxGen + 1]
    <3>1. conf.version \in Versions \cup {0} /\ conf.gen \in 0 .. MaxGen + 1
      BY DEF TypeOK
    <3>2. (result # "error") \in BOOLEAN
      OBVIOUS
    <3>3. [version |-> conf.version, ready |-> result # "error", gen |-> conf.gen]
            \in [version : Versions \cup {0}, ready : BOOLEAN, gen : 0 .. MaxGen + 1]
      BY <3>1, <3>2
    <3> QED
      BY <1>8, <3>3 DEF Publish, TypeOK
  <2>2. faults' \in 0 .. MaxFaults
    BY <1>8, Bounds DEF Publish, TypeOK
  <2>3. due' \in BOOLEAN
    BY <1>8 DEF Publish
  <2>4. running = FALSE
    BY <1>8, NoCommandRuns DEF Publish, Charts
  <2>5. running' = FALSE
    BY <1>8, <2>4 DEF Publish
  <2> QED
    BY <1>8, <2>1, <2>2, <2>3, <2>5 DEF Publish, TypeOK, Steps, cluster
<1>9. ASSUME NEW c \in Charts, Launch(c) PROVE TypeOK'
  <2>1. [state |-> "pending", version |-> Target] \in Release
    BY <1>9, TargetType DEF Launch, Release
  <2>2. charts' \in [Charts -> Release]
    BY <1>9, <2>1, ChartsType DEF Launch
  <2>3. values' \in Gates
    BY <1>9 DEF Launch, ChartValues, TypeOK, Spec, Gates
  <2> QED
    BY <1>9, <2>2, <2>3 DEF Launch, TypeOK, object, history
<1>10. ASSUME NEW c \in Charts, Refused(c) PROVE TypeOK'
  BY <1>10, TargetType, NextChartType DEF Refused, TypeOK, world, object, cluster
<1>11. ASSUME NEW c \in Charts, HelmEnds(c) PROVE TypeOK'
  <2>1. charts[c] \in Release
    BY DEF TypeOK
  <2>2. charts[c].version \in Versions
    BY <1>11, <2>1 DEF HelmEnds, TypeOK, Release
  <2>3. PICK s \in {"deployed", "failed"} : charts' = [charts EXCEPT ![c].state = s]
    BY <1>11 DEF HelmEnds
  <2>4. [charts[c] EXCEPT !.state = s] \in Release
    BY <2>1, <2>2 DEF Release
  <2>5. charts' \in [Charts -> Release]
    BY <2>3, <2>4 DEF TypeOK
  <2>6. faults' \in 0 .. MaxFaults /\ broken' \in BOOLEAN
    BY <1>11, Bounds DEF HelmEnds, TypeOK, history
  <2>7. step = c
    BY <1>11 DEF HelmEnds
  <2>8. NextChart(c, Target) /\ Target \in Versions \cup {0}
    BY <1>11, TargetType DEF HelmEnds
  <2>9. /\ step' \in Steps /\ running' \in BOOLEAN /\ ~running'
        /\ conf' \in [spec : Specs, gen : 1 .. MaxGen + 1, version : Versions \cup {0}]
        /\ result' \in {"ok", "again", "error"}
    BY <2>7, <2>8, NextChartType
  <2>10. restarts' \in 0 .. MaxRestarts
    BY <1>11 DEF HelmEnds, TypeOK, history
  <2> QED
    BY <1>11, <2>5, <2>6, <2>9, <2>10 DEF HelmEnds, TypeOK, object
<1>12. ASSUME NEW c \in Charts, Leave(c) PROVE TypeOK'
  BY <1>12, KeptVersionType, NextChartType
  DEF Leave, TypeOK, world, object, cluster, history
<1>13. ASSUME NEW c \in Charts, RequeueLater(c) PROVE TypeOK'
  BY <1>13 DEF RequeueLater, Finish, TypeOK, Steps, world, object, cluster, history
<1>14. CASE RepoFails
  BY <1>14, AfterUpdateType
  DEF RepoFails, TypeOK, Steps, Charts, world, object, cluster
<1>15. CASE Fault
  <2>1. faults' \in 0 .. MaxFaults
    BY <1>15, Bounds DEF Fault, TypeOK
  <2> QED
    BY <1>15, <2>1 DEF Fault, Finish, TypeOK, Steps, world, object, cluster
<1>16. CASE Restart
  <2>1. restarts' \in 0 .. MaxRestarts
    BY <1>16, Bounds DEF Restart, TypeOK
  <2>2. broken' \in BOOLEAN
    BY <1>16 DEF Restart
  <2>3. repo' \in 0 .. latest'
    BY <1>16 DEF Restart, TypeOK, Versions, world
  <2> QED
    BY <1>16, <2>1, <2>2, <2>3 DEF Restart, TypeOK, Steps, world, object, cluster
<1>17. CASE UNCHANGED vars
  BY <1>17 DEF vars, world, object, cluster, reconcile, history, TypeOK
<1> QED
  BY <1>1, <1>2, <1>3, <1>4, <1>5, <1>6, <1>7, <1>8, <1>9, <1>10, <1>11, <1>12,
     <1>13, <1>14, <1>15, <1>16, <1>17 DEF Next, Progress

(* Every variable keeps its type (the data of reconcile_helm and its status). *)
THEOREM InstallTypeCorrect == Safety => []TypeOK
<1>1. Init => TypeOK
  BY InitType
<1>2. TypeOK /\ [Next]_vars => TypeOK'
  BY StepType
<1> QED
  BY <1>1, <1>2, PTL DEF Safety

--------------------------------------------------------------------------------
(***************************************************************************)
(* The strengthening of CrdsFirst: once the CRDs' arm is through, they are *)
(* at the version of this reconcile; a running command installs that       *)
(* version; and while nothing broke, only the running command's release is *)
(* neither absent nor deployed.                                            *)
(***************************************************************************)
CrdsThrough ==
    step = "fleet" /\ ~broken =>
        /\ charts["fleet-crd"].state = "deployed"
        /\ conf.spec.install.kind # "keep" => charts["fleet-crd"].version = Target

RunsTarget == running => charts[step].version = Target

NothingLeftOver ==
    ~broken => \A c \in Charts :
        charts[c].state \in {"absent", "deployed"} \/ (running /\ step = c)

InstallAsked == step \in Charts => conf.spec.install.kind # "none"

Ordered == CrdsThrough /\ RunsTarget /\ NothingLeftOver /\ InstallAsked

(* Ordered is about these variables only. *)
LEMMA OrderedUnchanged ==
    ASSUME TypeOK, Ordered,
           UNCHANGED <<charts, repo, step, running, conf, broken>>
    PROVE  Ordered'
  BY DEF Ordered, CrdsThrough, RunsTarget, NothingLeftOver, InstallAsked, Target, Listed

(* A step outside the charts' arms that starts and ends outside them. *)
LEMMA OrderedOutside ==
    ASSUME TypeOK, Ordered, UNCHANGED charts, running' = FALSE, step' \notin Charts,
           ~broken' => ~broken /\ ~running
    PROVE  Ordered'
  BY DEF Ordered, CrdsThrough, RunsTarget, NothingLeftOver, InstallAsked, Charts

(* update ends the reconcile or goes on to the CRDs. *)
LEMMA OrderedUpdate ==
    ASSUME TypeOK, Ordered, step = "update", AfterUpdate,
           UNCHANGED <<charts, conf, broken>>
    PROVE  Ordered'
<1>1. running = FALSE
  BY NoCommandRuns DEF Charts
<1>2. running' = FALSE
  BY <1>1 DEF AfterUpdate, Finish
<1>3. step' = "publish" \/ (step' = "fleet-crd" /\ conf.spec.install.kind # "none")
  BY DEF AfterUpdate, Finish
<1> QED
  BY <1>1, <1>2, <1>3
  DEF Ordered, CrdsThrough, RunsTarget, NothingLeftOver, InstallAsked, Charts

(***************************************************************************)
(* The arm of a chart ends: for the CRDs it is enough that, unless         *)
(* something broke, they are deployed at the version of this reconcile.    *)
(***************************************************************************)
LEMMA OrderedNext ==
    ASSUME TypeOK, Ordered, NEW c \in Charts, step = c, NEW v, NextChart(c, v),
           UNCHANGED repo,
           ~broken' => /\ ~broken
                       /\ charts'[c].state = "deployed"
                       /\ \A d \in Charts \ {c} : charts'[d] = charts[d],
           ~broken' /\ conf.spec.install.kind # "keep" => charts'[c].version = Target
    PROVE  Ordered'
<1>1. CASE c = "fleet-crd"
  <2>1. step' = "fleet" /\ running' = FALSE /\ conf' = conf
    BY <1>1 DEF NextChart
  <2>2. Target' = Target
    BY <2>1 DEF Target
  <2> QED
    BY <1>1, <2>1, <2>2
    DEF Ordered, CrdsThrough, RunsTarget, NothingLeftOver, InstallAsked, Charts
<1>2. CASE c = "fleet"
  <2>1. step' = "publish" /\ running' = FALSE
    BY <1>2 DEF NextChart, Finish
  <2> QED
    BY <1>2, <2>1
    DEF Ordered, CrdsThrough, RunsTarget, NothingLeftOver, InstallAsked, Charts
<1> QED
  BY <1>1, <1>2 DEF Charts

(* An installed chart whose arm has nothing to do is as the spec asks. *)
LEMMA LeftAsAsked ==
    ASSUME TypeOK, Ordered, NEW c \in Charts, Leave(c)
    PROVE  /\ ~broken => charts[c].state = "deployed"
           /\ conf.spec.install.kind # "keep" => charts[c].version = Target
<1>1. ~broken => charts[c].state = "deployed"
  BY DEF Leave, Listed, Ordered, NothingLeftOver
<1>2. conf.spec \in Spec
  BY BoundsAssumption DEF TypeOK
<1>3. conf.spec.install.kind \in {"none", "latest", "keep", "pinned"}
  BY <1>2 DEF Spec, Install
<1>4. conf.spec.install.kind \in {"latest", "keep", "pinned"}
  BY <1>3 DEF Leave, Ordered, InstallAsked
<1>5. conf.spec.install.kind # "keep" => charts[c].version = Target
  BY <1>4 DEF Leave, Outdated, Again
<1> QED
  BY <1>1, <1>5

(* helm --wait has ended: well, or broken says that it did not. *)
LEMMA EndsAsAsked ==
    ASSUME TypeOK, Ordered, NEW c \in Charts, HelmEnds(c), ~broken'
    PROVE  /\ ~broken
           /\ charts'[c].state = "deployed"
           /\ charts'[c].version = Target
           /\ \A d \in Charts \ {c} : charts'[d] = charts[d]
<1>1. charts[c].version = Target
  BY DEF HelmEnds, Ordered, RunsTarget
<1>2. ~broken /\ charts' = [charts EXCEPT ![c].state = "deployed"]
  BY DEF HelmEnds, history
<1>3. charts[c] \in Release
  BY DEF TypeOK
<1> QED
  BY <1>1, <1>2, <1>3 DEF TypeOK, Release

LEMMA InitOrdered == Init => Ordered
  BY DEF Init, Ordered, CrdsThrough, RunsTarget, NothingLeftOver, InstallAsked,
         Absent, Deployed, Charts

LEMMA StepOrdered == TypeOK /\ Ordered /\ [Next]_vars => Ordered'
<1> SUFFICES ASSUME TypeOK, Ordered, [Next]_vars PROVE Ordered'
  OBVIOUS
<1>1. ASSUME NEW s \in Specs, Edit(s) PROVE Ordered'
  BY <1>1, OrderedUnchanged DEF Edit, cluster, history
<1>2. CASE PublishVersion
  BY <1>2, OrderedUnchanged DEF PublishVersion, cluster, reconcile, history
<1>3. CASE Start
  <2>1. running = FALSE
    BY <1>3, NoCommandRuns DEF Start, Charts
  <2> QED
    BY <1>3, <2>1, OrderedOutside DEF Start, FirstStep, Charts, world, cluster, history
<1>4. CASE SyncFlags
  <2>1. running = FALSE
    BY <1>4, NoCommandRuns DEF SyncFlags, Charts
  <2> QED
    BY <1>4, <2>1, OrderedOutside DEF SyncFlags, Finish, Charts, cluster, history
<1>5. CASE AddRepo
  <2>1. running = FALSE
    BY <1>5, NoCommandRuns DEF AddRepo, Charts
  <2> QED
    BY <1>5, <2>1, OrderedOutside DEF AddRepo, Charts, world, cluster, history
<1>6. CASE UpdateRepo
  BY <1>6, OrderedUpdate DEF UpdateRepo, world, cluster, history
<1>7. CASE SearchFails
  BY <1>7, OrderedOutside DEF SearchFails, Finish, Charts, world, cluster, history
<1>8. CASE Publish
  <2>1. running = FALSE
    BY <1>8, NoCommandRuns DEF Publish, Charts
  <2> QED
    BY <1>8, <2>1, OrderedOutside DEF Publish, Charts, cluster
<1>9. ASSUME NEW c \in Charts, Launch(c) PROVE Ordered'
  <2>1. step = c /\ step' = c /\ running' = TRUE /\ broken' = broken /\ Target' = Target
    BY <1>9 DEF Launch, history, Target
  <2>2. /\ charts'[c] = [state |-> "pending", version |-> Target]
        /\ \A d \in Charts \ {c} : charts'[d] = charts[d]
    BY <1>9 DEF Launch, TypeOK
  <2>3. conf' = conf
    BY <1>9 DEF Launch
  <2>4. CrdsThrough'
    BY <2>1, <2>2, <2>3 DEF Ordered, CrdsThrough, Charts
  <2>5. RunsTarget'
    BY <2>1, <2>2 DEF RunsTarget
  <2>6. NothingLeftOver'
    BY <1>9, <2>1, <2>2 DEF Launch, Ordered, NothingLeftOver
  <2> QED
    BY <2>1, <2>3, <2>4, <2>5, <2>6 DEF Ordered, InstallAsked
<1>10. ASSUME NEW c \in Charts, Refused(c) PROVE Ordered'
  BY <1>10, OrderedNext DEF Refused
<1>11. ASSUME NEW c \in Charts, HelmEnds(c) PROVE Ordered'
  BY <1>11, EndsAsAsked, OrderedNext DEF HelmEnds
<1>12. ASSUME NEW c \in Charts, Leave(c) PROVE Ordered'
  BY <1>12, LeftAsAsked, OrderedNext DEF Leave, world, cluster, history
<1>13. ASSUME NEW c \in Charts, RequeueLater(c) PROVE Ordered'
  BY <1>13, OrderedOutside DEF RequeueLater, Finish, Charts, world, cluster, history
<1>14. CASE RepoFails
  <2>1. running = FALSE
    BY <1>14, NoCommandRuns DEF RepoFails, Charts
  <2>2. CASE step = "add" /\ step' = "update" /\ UNCHANGED <<running, result>>
    BY <1>14, <2>1, <2>2, OrderedOutside DEF RepoFails, Charts, world, cluster
  <2>3. CASE step = "update" /\ AfterUpdate
    BY <1>14, <2>3, OrderedUpdate DEF RepoFails, world, cluster
  <2> QED
    BY <1>14, <2>2, <2>3 DEF RepoFails
<1>15. CASE Fault
  BY <1>15, OrderedOutside DEF Fault, Finish, Charts, world, cluster
<1>16. CASE Restart
  BY <1>16, OrderedOutside DEF Restart, Charts, world, cluster
<1>17. CASE UNCHANGED vars
  BY <1>17, OrderedUnchanged DEF vars, world, cluster, reconcile, history
<1> QED
  BY <1>1, <1>2, <1>3, <1>4, <1>5, <1>6, <1>7, <1>8, <1>9, <1>10, <1>11, <1>12,
     <1>13, <1>14, <1>15, <1>16, <1>17 DEF Next, Progress

(***************************************************************************)
(* Unless a helm command failed or was killed, the fleet chart is given a  *)
(* version only when the CRDs are deployed at it (install_fleet).          *)
(***************************************************************************)
THEOREM CrdsComeFirst == Safety => []CrdsFirst
<1>1. Init => TypeOK /\ Ordered
  BY InitType, InitOrdered
<1>2. TypeOK /\ Ordered /\ [Next]_vars => (TypeOK /\ Ordered)'
  BY StepType, StepOrdered
<1>3. TypeOK /\ Ordered => CrdsFirst
  BY DEF Ordered, CrdsThrough, RunsTarget, CrdsFirst
<1> QED
  BY <1>1, <1>2, <1>3, PTL DEF Safety

--------------------------------------------------------------------------------
(***************************************************************************)
(* What TouchedOnlyToChange rests on: helm's copy of the repository, once  *)
(* there, is never older than a release, and an object with a ConfigMap    *)
(* never gets to a helm command.                                           *)
(***************************************************************************)
Known ==
    \A c \in Charts :
        /\ charts[c].version <= latest
        /\ repo # 0 => charts[c].version <= repo

FlagsOnly == conf.spec.ref => step \in {"idle", "flags", "publish"}

LEMMA VersionsAreNat ==
    ASSUME TypeOK
    PROVE  /\ latest \in Nat /\ repo \in Nat /\ repo <= latest
           /\ \A c \in Charts : charts[c] \in Release /\ charts[c].version \in Nat
<1>1. latest \in Nat /\ repo \in Nat /\ repo <= latest
  BY BoundsAssumption DEF TypeOK, Versions
<1>2. ASSUME NEW c \in Charts PROVE charts[c] \in Release /\ charts[c].version \in Nat
  BY BoundsAssumption DEF TypeOK, Release, Versions
<1> QED
  BY <1>1, <1>2

LEMMA NextChartFlags ==
    ASSUME TypeOK, FlagsOnly, NEW c \in Charts, step = c, NEW v, NextChart(c, v)
    PROVE  FlagsOnly'
<1>1. ~conf.spec.ref
  BY DEF FlagsOnly, Charts
<1>2. conf'.spec = conf.spec
  BY DEF NextChart, TypeOK
<1> QED
  BY <1>1, <1>2 DEF FlagsOnly

LEMMA StepFlags == TypeOK /\ FlagsOnly /\ [Next]_vars => FlagsOnly'
<1> SUFFICES ASSUME TypeOK, FlagsOnly, [Next]_vars PROVE FlagsOnly'
  OBVIOUS
<1>1. CASE Start
  BY <1>1 DEF Start, FirstStep, FlagsOnly
<1>2. ASSUME NEW c \in Charts, Refused(c) \/ HelmEnds(c) \/ Leave(c) PROVE FlagsOnly'
  BY <1>2, NextChartFlags DEF Refused, HelmEnds, Leave
<1>3. CASE step' \in {"idle", "publish"}
  BY <1>3 DEF FlagsOnly
<1>4. CASE UNCHANGED <<conf, step>>
  BY <1>4 DEF FlagsOnly
<1>5. CASE step \in {"add", "update"} /\ UNCHANGED conf
  BY <1>5 DEF FlagsOnly
<1>6. \/ Start \/ step' \in {"idle", "publish"} \/ UNCHANGED <<conf, step>>
      \/ step \in {"add", "update"} /\ UNCHANGED conf
      \/ \E c \in Charts : Refused(c) \/ HelmEnds(c) \/ Leave(c)
  BY DEF Next, Progress, Edit, PublishVersion, SyncFlags, AddRepo, UpdateRepo, SearchFails,
         Publish, Launch, RequeueLater, RepoFails, Fault, Restart, Finish, vars,
         reconcile, world, object
<1> QED
  BY <1>1, <1>2, <1>3, <1>4, <1>5, <1>6

(* Only Launch gives a chart another version. *)
LEMMA VersionKept ==
    ASSUME TypeOK, [Next]_vars, NEW c \in Charts, charts'[c].version # charts[c].version
    PROVE  Launch(c)
<1>1. ASSUME NEW d \in Charts, HelmEnds(d) PROVE charts'[c].version = charts[c].version
  <2>1. PICK s \in {"deployed", "failed"} : charts' = [charts EXCEPT ![d].state = s]
    BY <1>1 DEF HelmEnds
  <2> QED
    BY <2>1, VersionsAreNat DEF TypeOK, Release
<1>2. ASSUME NEW d \in Charts, Launch(d), d # c PROVE charts'[c] = charts[c]
  BY <1>2 DEF Launch, TypeOK
<1>3. \/ UNCHANGED charts
      \/ \E d \in Charts : HelmEnds(d) \/ Launch(d)
  BY DEF Next, Progress, Edit, PublishVersion, Start, SyncFlags, AddRepo, UpdateRepo,
         SearchFails, Publish, Refused, Leave, RequeueLater, RepoFails, Fault, Restart,
         vars, world, cluster
<1> QED
  BY <1>1, <1>2, <1>3

LEMMA StepKnown == TypeOK /\ TypeOK' /\ Known /\ [Next]_vars => Known'
<1> SUFFICES ASSUME TypeOK, TypeOK', Known, [Next]_vars, NEW c \in Charts
             PROVE  charts'[c].version <= latest' /\ (repo' # 0 => charts'[c].version <= repo')
  BY DEF Known
<1>1. latest \in Nat /\ repo \in Nat /\ repo <= latest /\ charts[c].version \in Nat
  BY VersionsAreNat
<1>2. CASE Launch(c)
  <2>1. Target <= repo /\ UNCHANGED <<latest, repo>> /\ charts'[c].version = Target
    BY <1>2 DEF Launch, Accepts, TypeOK
  <2>2. Target \in Nat
    BY <1>2, TargetType, BoundsAssumption DEF Launch, Versions
  <2> QED
    BY <1>1, <2>1, <2>2
<1>3. CASE charts'[c].version = charts[c].version
  <2>1. latest' = latest \/ latest' = latest + 1
    BY DEF Next, Progress, Edit, PublishVersion, Start, SyncFlags, AddRepo, UpdateRepo,
           SearchFails, Publish, Launch, Refused, HelmEnds, Leave, RequeueLater, RepoFails,
           Fault, Restart, vars, world
  <2>2. repo' = repo \/ repo' = 0 \/ (repo' = latest /\ latest' = latest)
    BY DEF Next, Progress, Edit, PublishVersion, Start, SyncFlags, AddRepo, UpdateRepo,
           SearchFails, Publish, Launch, Refused, HelmEnds, Leave, RequeueLater, RepoFails,
           Fault, Restart, vars, world
  <2> QED
    BY <1>1, <1>3, <2>1, <2>2 DEF Known
<1> QED
  BY <1>2, <1>3, VersionKept

(* One step touches a listed chart only as the property says. *)
LEMMA StepTouched ==
    ASSUME TypeOK, Known, FlagsOnly, [Next]_vars,
           NEW c \in Charts, Listed(c), charts'[c] # charts[c]
    PROVE  /\ ~conf.spec.ref
           /\ \/ /\ conf.spec.install.kind = "pinned"
                 /\ charts'[c].version = conf.spec.install.version
                 /\ charts'[c].version # charts[c].version
              \/ /\ conf.spec.install.kind = "latest"
                 /\ charts'[c].version > charts[c].version
<1>1. ASSUME NEW d \in Charts, HelmEnds(d) PROVE charts'[c] = charts[c]
  <2>1. d # c
    BY <1>1 DEF HelmEnds, TypeOK, Listed
  <2> QED
    BY <1>1, <2>1 DEF HelmEnds, TypeOK
<1>2. ASSUME NEW d \in Charts, Launch(d), d # c PROVE charts'[c] = charts[c]
  BY <1>2 DEF Launch, TypeOK
<1>3. \/ UNCHANGED charts
      \/ \E d \in Charts : HelmEnds(d) \/ Launch(d)
  BY DEF Next, Progress, Edit, PublishVersion, Start, SyncFlags, AddRepo, UpdateRepo,
         SearchFails, Publish, Refused, Leave, RequeueLater, RepoFails, Fault, Restart,
         vars, world, cluster
<1>4. Launch(c)
  BY <1>1, <1>2, <1>3
<1>5. step = c /\ Outdated(c) /\ repo # 0
  BY <1>4 DEF Launch
<1>6. charts'[c].version = Target
  BY <1>4 DEF Launch, TypeOK
<1>7. ~conf.spec.ref
  BY <1>5 DEF FlagsOnly, Charts
<1>8. CASE conf.spec.install.kind = "pinned"
  BY <1>5, <1>6, <1>7, <1>8 DEF Target, Outdated
<1>9. CASE conf.spec.install.kind = "latest"
  <2>1. charts'[c].version = repo /\ charts[c].version # repo
    BY <1>5, <1>6, <1>9 DEF Target, Outdated
  <2>2. charts[c].version <= repo
    BY <1>5 DEF Known
  <2> QED
    BY <1>7, <1>9, <2>1, <2>2, VersionsAreNat
<1> QED
  BY <1>5, <1>8, <1>9 DEF Outdated

(***************************************************************************)
(* An installed chart changes only to the version the object pins, or to a *)
(* newer one under followLatest: true, and never while the feature gates   *)
(* go to a ConfigMap (install_fleet, update_flags).                        *)
(***************************************************************************)
THEOREM ChartsAreNotTouchedInVain == Safety => TouchedOnlyToChange
<1> DEFINE I == TypeOK /\ Known /\ FlagsOnly
           A == \A c \in Charts : Listed(c) /\ charts'[c] # charts[c] =>
                  /\ ~conf.spec.ref
                  /\ \/ /\ conf.spec.install.kind = "pinned"
                        /\ charts'[c].version = conf.spec.install.version
                        /\ charts'[c].version # charts[c].version
                     \/ /\ conf.spec.install.kind = "latest"
                        /\ charts'[c].version > charts[c].version
<1>1. Init => I
  <2>1. Init => Known
    BY DEF Init, Known, Absent, Deployed
  <2>2. Init => FlagsOnly
    BY DEF Init, FlagsOnly
  <2> QED
    BY <2>1, <2>2, InitType
<1>2. I /\ [Next]_vars => I'
  BY StepType, StepKnown, StepFlags
<1>3. I /\ [Next]_vars => [A]_vars
  BY StepTouched
<1> QED
  BY <1>1, <1>2, <1>3, PTL DEF Safety, TouchedOnlyToChange
--------------------------------------------------------------------------------
(***************************************************************************)
(* What the status and the ConfigMap tell once the controller is settled.  *)
(* The reconcile that settled it worked on the current spec and ended      *)
(* well; so it is enough that what a reconcile is about to publish is true.*)
(***************************************************************************)
Current == conf.gen <= gen /\ (conf.gen = gen => conf.spec = spec)

Done == Settled => result = "ok" /\ conf.gen = gen

FlagsAsked == step = "flags" => conf.spec.ref

Ends == step = "publish" \/ Settled

GatesServed == Ends /\ result = "ok" /\ conf.spec.ref => settings = conf.spec.gates

VersionKnown ==
    step = "publish" /\ result = "ok" /\ ~broken /\ ~conf.spec.ref
        /\ conf.spec.install.kind = "keep" => conf.version = charts["fleet"].version

Truthful ==
    Current /\ Done /\ FlagsAsked /\ GatesServed /\ VersionKnown /\ KeptVersionReported

LEMMA SpecTypes ==
    ASSUME TypeOK
    PROVE  /\ conf.gen \in Nat /\ gen \in Nat
           /\ conf.spec.gates \in Gates /\ Merged(conf.spec.gates) = conf.spec.gates
<1>1. conf.gen \in Nat /\ gen \in Nat
  BY Bounds DEF TypeOK
<1>2. conf.spec \in Spec
  BY BoundsAssumption DEF TypeOK
<1>3. conf.spec.gates \in Gates
  BY <1>2 DEF Spec
<1> QED
  BY <1>1, <1>3 DEF Merged, Gates

LEMMA InitTruthful == Init => Truthful
<1> SUFFICES ASSUME Init PROVE Truthful
  OBVIOUS
<1>1. conf.gen = 1 /\ gen = 1 /\ conf.spec = spec /\ step = "idle" /\ due
  BY DEF Init
<1> QED
  BY <1>1 DEF Truthful, Current, Done, FlagsAsked, GatesServed, Ends, VersionKnown,
              KeptVersionReported, Settled

(* While a reconcile is under way only the object can move on. *)
LEMMA TruthfulUnderWay ==
    ASSUME TypeOK, Truthful, step' \notin {"idle", "flags", "publish"},
           UNCHANGED <<spec, gen, conf>>
    PROVE  Truthful'
  BY DEF Truthful, Current, Done, FlagsAsked, GatesServed, Ends, VersionKnown,
         KeptVersionReported, Settled

(* A reconcile ends without a claim, or with one that is true. *)
LEMMA TruthfulEnd ==
    ASSUME TypeOK, Truthful, step' = "publish", UNCHANGED <<spec, gen>>,
           conf'.spec = conf.spec, conf'.gen = conf.gen,
           result' = "ok" /\ conf.spec.ref => settings' = conf.spec.gates,
           result' = "ok" /\ ~broken' /\ ~conf.spec.ref /\ conf.spec.install.kind = "keep" =>
               conf'.version = charts'["fleet"].version
    PROVE  Truthful'
  BY DEF Truthful, Current, Done, FlagsAsked, GatesServed, Ends, VersionKnown,
         KeptVersionReported, Settled

(* The arm of a chart ends. *)
LEMMA TruthfulNext ==
    ASSUME TypeOK, Truthful, FlagsOnly, NEW c \in Charts, step = c, NEW v, NextChart(c, v),
           UNCHANGED <<spec, gen>>,
           c = "fleet" /\ ~broken' /\ conf.spec.install.kind = "keep" =>
               v = charts'["fleet"].version
    PROVE  Truthful'
<1>1. CASE c = "fleet-crd"
  BY <1>1, TruthfulUnderWay DEF NextChart
<1>2. CASE c = "fleet"
  <2>1. step' = "publish" /\ conf' = [conf EXCEPT !.version = v]
    BY <1>2 DEF NextChart, Finish
  <2>2. conf'.spec = conf.spec /\ conf'.gen = conf.gen /\ conf'.version = v
    BY <2>1 DEF TypeOK
  <2>3. ~conf.spec.ref
    BY <1>2 DEF FlagsOnly
  <2> QED
    BY <1>2, <2>1, <2>2, <2>3, TruthfulEnd
<1> QED
  BY <1>1, <1>2 DEF Charts

(* update ends a reconcile without an install, or goes on to the charts. *)
LEMMA TruthfulUpdate ==
    ASSUME TypeOK, Truthful, FlagsOnly, step = "update", AfterUpdate,
           UNCHANGED <<spec, gen, conf>>
    PROVE  Truthful'
<1>1. CASE conf.spec.install.kind = "none" /\ Finish("ok")
  <2>1. ~conf.spec.ref
    BY DEF FlagsOnly
  <2> QED
    BY <1>1, <2>1, TruthfulEnd DEF Finish
<1>2. CASE step' = "fleet-crd"
  BY <1>2, TruthfulUnderWay
<1> QED
  BY <1>1, <1>2 DEF AfterUpdate

LEMMA StepTruthful ==
    TypeOK /\ Ordered /\ FlagsOnly /\ Truthful /\ [Next]_vars => Truthful'
<1> SUFFICES ASSUME TypeOK, Ordered, FlagsOnly, Truthful, [Next]_vars PROVE Truthful'
  OBVIOUS
<1>1. ASSUME NEW s \in Specs, Edit(s) PROVE Truthful'
  <2>1. gen' = gen + 1 /\ conf.gen < gen' /\ conf.gen # gen'
    BY <1>1, SpecTypes DEF Edit, Truthful, Current
  <2>2. due' /\ UNCHANGED <<settings, charts, step, conf, result, broken>>
    BY <1>1 DEF Edit, cluster, history
  <2>3. Current'
    BY <2>1, <2>2, SpecTypes DEF Current
  <2>4. ~Settled'
    BY <2>2 DEF Settled
  <2>5. FlagsAsked' /\ GatesServed' /\ VersionKnown'
    BY <2>2, <2>4 DEF Truthful, FlagsAsked, GatesServed, Ends, VersionKnown
  <2> QED
    BY <2>3, <2>4, <2>5 DEF Truthful, Done, KeptVersionReported
<1>2. CASE UNCHANGED <<object, settings, charts, due, step, conf, result, broken>>
  BY <1>2 DEF object, Truthful, Current, Done, FlagsAsked, GatesServed, Ends, VersionKnown,
              KeptVersionReported, Settled
<1>3. CASE Start
  <2>1. /\ conf'.gen = gen /\ conf'.spec = spec /\ UNCHANGED <<spec, gen>>
        /\ step' = FirstStep(spec)
    BY <1>3 DEF Start, world, object
  <2>2. step' \in {"flags", "add"} /\ (step' = "flags" => conf'.spec.ref)
    BY <2>1 DEF FirstStep
  <2> QED
    BY <2>1, <2>2, SpecTypes
    DEF Truthful, Current, Done, FlagsAsked, GatesServed, Ends, VersionKnown,
        KeptVersionReported, Settled
<1>4. CASE SyncFlags
  <2>1. conf.spec.ref
    BY <1>4 DEF SyncFlags, Truthful, FlagsAsked
  <2>2. settings' = conf.spec.gates
    BY <1>4, SpecTypes DEF SyncFlags
  <2> QED
    BY <1>4, <2>1, <2>2, TruthfulEnd DEF SyncFlags, Finish, object
<1>5. CASE AddRepo
  BY <1>5, TruthfulUnderWay DEF AddRepo, world, object
<1>6. CASE UpdateRepo
  BY <1>6, TruthfulUpdate DEF UpdateRepo, world, object
<1>7. ASSUME step' = "publish", result' # "ok", UNCHANGED <<spec, gen, conf>>
      PROVE  Truthful'
  BY <1>7, TruthfulEnd
<1>8. CASE SearchFails \/ Fault \/ \E c \in Charts : RequeueLater(c)
  BY <1>7, <1>8 DEF SearchFails, Fault, RequeueLater, Finish, world, object
<1>9. CASE Publish
  <2>1. /\ step = "publish" /\ step' = "idle"
        /\ UNCHANGED <<spec, gen, settings, charts, conf, result, broken>>
    BY <1>9 DEF Publish, cluster
  <2>2. ~due' => gen = conf.gen /\ result = "ok" /\ status'.version = conf.version
    <3>1. CASE /\ gen = conf.gen /\ due' = (due \/ result # "ok")
               /\ status' = [version |-> conf.version, ready |-> result # "error",
                             gen |-> conf.gen]
      BY <3>1
    <3>2. CASE due' = (due \/ TRUE)
      BY <3>2
    <3> QED
      BY <1>9, <3>1, <3>2 DEF Publish, Requeues
  <2>3. Settled' => ~due'
    BY DEF Settled
  <2>4. Done'
    <3>1. result' = result /\ conf'.gen = conf.gen /\ gen' = gen
      BY <2>1
    <3> QED
      BY <2>2, <2>3, <3>1 DEF Done
  <2>5. Current' /\ FlagsAsked' /\ VersionKnown'
    BY <2>1 DEF Truthful, Current, FlagsAsked, VersionKnown
  <2>6. GatesServed'
    BY <2>1 DEF Truthful, GatesServed, Ends
  <2>7. Settled' => /\ result = "ok" /\ conf.spec = spec
                    /\ status'.version = conf.version
    BY <2>2, <2>3 DEF Truthful, Current
  <2>8. KeptVersionReported'
    BY <2>1, <2>7 DEF Truthful, VersionKnown, KeptVersionReported
  <2> QED
    BY <2>4, <2>5, <2>6, <2>8 DEF Truthful
<1>10. ASSUME NEW c \in Charts, Launch(c) PROVE Truthful'
  BY <1>10, TruthfulUnderWay DEF Launch, object, Charts
<1>11. ASSUME NEW c \in Charts, Refused(c) PROVE Truthful'
  BY <1>11, TruthfulNext DEF Refused, world, object
<1>12. ASSUME NEW c \in Charts, HelmEnds(c) PROVE Truthful'
  <2>1. charts[c].version = Target
    BY <1>12 DEF HelmEnds, Ordered, RunsTarget
  <2>2. charts'[c].version = charts[c].version
    <3>1. PICK s \in {"deployed", "failed"} : charts' = [charts EXCEPT ![c].state = s]
      BY <1>12 DEF HelmEnds
    <3> QED
      BY <3>1, VersionsAreNat DEF TypeOK, Release
  <2> QED
    BY <1>12, <2>1, <2>2, TruthfulNext DEF HelmEnds, object
<1>13. ASSUME NEW c \in Charts, Leave(c) PROVE Truthful'
  <2>1. conf.spec.install.kind = "keep" => KeptVersion = charts'["fleet"].version
    BY <1>13 DEF Leave, KeptVersion, world, cluster
  <2> QED
    BY <1>13, <2>1, TruthfulNext DEF Leave, world, object
<1>14. CASE RepoFails
  <2>1. CASE step = "add" /\ step' = "update"
    BY <1>14, <2>1, TruthfulUnderWay DEF RepoFails, world, object
  <2>2. CASE step = "update" /\ AfterUpdate
    BY <1>14, <2>2, TruthfulUpdate DEF RepoFails, world, object
  <2> QED
    BY <1>14, <2>1, <2>2 DEF RepoFails
<1>15. CASE Restart
  <2>1. step' = "idle" /\ due' /\ UNCHANGED <<spec, gen, conf>>
    BY <1>15 DEF Restart, world, object
  <2> QED
    BY <2>1 DEF Truthful, Current, Done, FlagsAsked, GatesServed, Ends, VersionKnown,
                KeptVersionReported, Settled
<1>16. PublishVersion \/ UNCHANGED vars =>
         UNCHANGED <<object, settings, charts, due, step, conf, result, broken>>
  BY DEF PublishVersion, vars, world, cluster, reconcile, history
<1> QED
  BY <1>1, <1>2, <1>3, <1>4, <1>5, <1>6, <1>8, <1>9, <1>10, <1>11, <1>12,
     <1>13, <1>14, <1>15, <1>16 DEF Next, Progress

LEMMA TruthfulAlways == Safety => [](TypeOK /\ Truthful)
<1>1. Init => TypeOK /\ Ordered /\ FlagsOnly /\ Truthful
  BY InitType, InitOrdered, InitTruthful DEF Init, FlagsOnly
<1>2. TypeOK /\ Ordered /\ FlagsOnly /\ Truthful /\ [Next]_vars =>
        (TypeOK /\ Ordered /\ FlagsOnly /\ Truthful)'
  BY StepType, StepOrdered, StepFlags, StepTruthful
<1> QED
  BY <1>1, <1>2, PTL DEF Safety

(***************************************************************************)
(* Settled under followLatest: false, and unless a helm command failed or  *)
(* was killed, the status shows the version that runs (install_fleet and   *)
(* the status patch of run_fleet_helm_controller).                         *)
(***************************************************************************)
THEOREM KeptVersionIsReported == Safety => []KeptVersionReported
<1>1. Truthful => KeptVersionReported
  BY DEF Truthful
<1> QED
  BY <1>1, TruthfulAlways, PTL

(***************************************************************************)
(* Settled with a referenced ConfigMap, the gates in it are those of the   *)
(* current spec: no edit is lost to a reconcile that began before it       *)
(* (update_flags and the conflict of the status patch).                    *)
(***************************************************************************)
THEOREM SettingsAreFollowed == Safety => []SettingsFollowGates
<1>1. Truthful => SettingsFollowGates
  BY DEF Truthful, Done, Current, GatesServed, Ends, SettingsFollowGates
<1> QED
  BY <1>1, TruthfulAlways, PTL
--------------------------------------------------------------------------------
(***************************************************************************)
(* What runs, and what the status says, once the controller is settled.    *)
(* A reconcile that is about to publish a success has left both charts as  *)
(* its object asks (Ordered tells of the CRDs), and nothing touches them   *)
(* before the next one; the object is the current one by Truthful.         *)
(***************************************************************************)
Served ==
    Ends /\ result = "ok" /\ ~broken /\ ~conf.spec.ref /\ conf.spec.install.kind # "none" =>
        Installed(conf.spec.install)

LEMMA ServedUnderWay ==
    ASSUME step' \notin {"idle", "publish"}
    PROVE  Served'
  BY DEF Served, Ends, Settled

(* The arm of a chart ends: the fleet chart's with what CrdsThrough says. *)
LEMMA ServedNext ==
    ASSUME TypeOK, Ordered, NEW c \in Charts, step = c, NEW v, NextChart(c, v),
           ~broken' => /\ ~broken
                       /\ charts'[c].state = "deployed"
                       /\ \A d \in Charts \ {c} : charts'[d] = charts[d],
           ~broken' /\ conf.spec.install.kind # "keep" => charts'[c].version = Target
    PROVE  Served'
<1>1. CASE c = "fleet-crd"
  BY <1>1, ServedUnderWay DEF NextChart
<1>2. CASE c = "fleet"
  <2> SUFFICES ASSUME ~broken' PROVE Installed(conf.spec.install)'
    <3>1. conf'.spec = conf.spec
      BY <1>2 DEF NextChart, TypeOK
    <3> QED
      BY <3>1 DEF Served, Installed
  <2>1. conf'.spec = conf.spec
    BY <1>2 DEF NextChart, TypeOK
  <2>2. /\ charts["fleet-crd"].state = "deployed"
        /\ conf.spec.install.kind # "keep" => charts["fleet-crd"].version = Target
    BY <1>2 DEF Ordered, CrdsThrough
  <2>3. charts'["fleet-crd"] = charts["fleet-crd"]
    BY <1>2 DEF Charts
  <2>4. \A d \in Charts : charts'[d].state = "deployed"
    BY <1>2, <2>2, <2>3 DEF Charts
  <2>5. conf.spec.install.kind # "keep" =>
          charts'["fleet"].version = Target /\ charts'["fleet-crd"].version = Target
    BY <1>2, <2>2, <2>3
  <2>6. conf.spec.install.kind = "pinned" => Target = conf.spec.install.version
    BY DEF Target
  <2> QED
    BY <2>1, <2>4, <2>5, <2>6 DEF Installed
<1> QED
  BY <1>1, <1>2 DEF Charts

(* update ends a reconcile only when there is nothing to install. *)
LEMMA ServedUpdate ==
    ASSUME AfterUpdate, UNCHANGED conf
    PROVE  Served'
<1>1. CASE conf.spec.install.kind = "none"
  BY <1>1 DEF Served
<1>2. CASE step' = "fleet-crd"
  BY <1>2, ServedUnderWay
<1> QED
  BY <1>1, <1>2 DEF AfterUpdate

LEMMA StepServed == TypeOK /\ Ordered /\ FlagsAsked /\ Served /\ [Next]_vars => Served'
<1> SUFFICES ASSUME TypeOK, Ordered, FlagsAsked, Served, [Next]_vars PROVE Served'
  OBVIOUS
<1>1. ASSUME NEW s \in Specs, Edit(s) PROVE Served'
  BY <1>1 DEF Edit, Served, Ends, Settled, Installed, cluster, history
<1>2. CASE UNCHANGED <<charts, due, step, conf, result, broken>>
  BY <1>2 DEF Served, Ends, Settled, Installed
<1>3. CASE step' \notin {"idle", "publish"}
  BY <1>3, ServedUnderWay
<1>4. CASE SyncFlags
  BY <1>4 DEF SyncFlags, FlagsAsked, Served
<1>5. CASE UpdateRepo
  BY <1>5, ServedUpdate DEF UpdateRepo
<1>6. CASE result' # "ok" /\ step' = "publish"
  BY <1>6 DEF Served
<1>7. CASE Publish
  BY <1>7 DEF Publish, Served, Ends, Settled, Installed, cluster
<1>8. ASSUME NEW c \in Charts, Refused(c) PROVE Served'
  BY <1>8 DEF Refused, Served
<1>9. ASSUME NEW c \in Charts, HelmEnds(c) PROVE Served'
  BY <1>9, EndsAsAsked, ServedNext DEF HelmEnds
<1>10. ASSUME NEW c \in Charts, Leave(c) PROVE Served'
  BY <1>10, LeftAsAsked, ServedNext DEF Leave, world, cluster, history
<1>11. CASE RepoFails
  BY <1>11, ServedUnderWay, ServedUpdate DEF RepoFails
<1>12. CASE Restart
  BY <1>12 DEF Restart, Served, Ends, Settled
<1>13. CASE Start
  BY <1>13, ServedUnderWay DEF Start, FirstStep
<1>14. SearchFails \/ Fault \/ (\E c \in Charts : RequeueLater(c)) =>
         result' # "ok" /\ step' = "publish"
  BY DEF SearchFails, Fault, RequeueLater, Finish
<1>15. AddRepo \/ (\E c \in Charts : Launch(c)) => step' \notin {"idle", "publish"}
  BY DEF AddRepo, Launch, Charts
<1>16. PublishVersion \/ UNCHANGED vars =>
         UNCHANGED <<charts, due, step, conf, result, broken>>
  BY DEF PublishVersion, vars, world, cluster, reconcile, history
<1> QED
  BY <1>1, <1>2, <1>3, <1>4, <1>5, <1>6, <1>7, <1>8, <1>9, <1>10, <1>11, <1>12, <1>13,
     <1>14, <1>15, <1>16 DEF Next, Progress

(* Only a status patch that carries a success settles the controller. *)
LEMMA StepReady == TypeOK /\ ReadyAtRest /\ [Next]_vars => ReadyAtRest'
<1> SUFFICES ASSUME TypeOK, ReadyAtRest, [Next]_vars, Settled'
             PROVE  status'.gen = gen' /\ status'.ready
  BY DEF ReadyAtRest
<1>1. CASE Publish
  <2>1. ~due' /\ gen' = gen
    BY <1>1 DEF Settled, Publish
  <2>2. /\ gen = conf.gen /\ result = "ok"
        /\ status' = [version |-> conf.version, ready |-> result # "error",
                      gen |-> conf.gen]
    BY <1>1, <2>1 DEF Publish, Requeues
  <2> QED
    BY <2>1, <2>2
<1>2. CASE UNCHANGED <<gen, status, due, step>>
  BY <1>2 DEF ReadyAtRest, Settled
<1>3. Publish \/ UNCHANGED <<gen, status, due, step>>
  BY DEF Settled, Next, Progress, Edit, PublishVersion, Start, FirstStep, SyncFlags, AddRepo,
         UpdateRepo, AfterUpdate, SearchFails, Launch, Refused, HelmEnds, Leave, NextChart,
         RequeueLater, RepoFails, Fault, Restart, Finish, vars, reconcile, world, object,
         Charts
<1> QED
  BY <1>1, <1>2, <1>3

LEMMA ServedAlways == Safety => [](Truthful /\ Served /\ ReadyAtRest)
<1> DEFINE I == TypeOK /\ Ordered /\ FlagsOnly /\ Truthful /\ Served /\ ReadyAtRest
<1>1. Init => I
  <2>1. Init => Served /\ ReadyAtRest
    BY DEF Init, Served, ReadyAtRest, Ends, Settled
  <2>2. Init => FlagsOnly
    BY DEF Init, FlagsOnly
  <2> QED
    BY <2>1, <2>2, InitType, InitOrdered, InitTruthful
<1>2. I /\ [Next]_vars => I'
  BY StepType, StepOrdered, StepFlags, StepTruthful, StepServed, StepReady DEF Truthful
<1> QED
  BY <1>1, <1>2, PTL DEF Safety

(***************************************************************************)
(* Settled, and unless a helm command failed or was killed, both charts    *)
(* run as the current spec asks (the arms of install_fleet, error_policy). *)
(***************************************************************************)
THEOREM InstalledWhenAtRest == Safety => []InstalledAtRest
<1>1. Truthful /\ Served => InstalledAtRest
  <2> SUFFICES ASSUME Truthful, Served, Settled PROVE InstalledAtRest
    BY DEF InstalledAtRest
  <2>1. result = "ok" /\ conf.spec = spec
    BY DEF Truthful, Done, Current
  <2> QED
    BY <2>1 DEF Served, Ends, InstalledAtRest
<1> QED
  BY <1>1, ServedAlways, PTL

(***************************************************************************)
(* Settled, the status says Ready for the current generation: no error and *)
(* no lost patch is the last word (error_policy, the status patch).        *)
(***************************************************************************)
THEOREM ReadyWhenAtRest == Safety => []ReadyAtRest
<1> QED
  BY ServedAlways, PTL
================================================================================
