--------------------------- MODULE ClusterController ---------------------------
(***************************************************************************)
(* The controller of CAPI clusters (src/controllers/cluster.rs, driven by  *)
(* src/controllers/controller.rs and src/controller.rs): how a CAPI        *)
(* Cluster is imported as a Fleet Cluster, with a ClusterGroup, a          *)
(* BundleNamespaceMapping and an annotation on its namespace, and how that *)
(* is undone when the Cluster is deleted.                                  *)
(*                                                                         *)
(* The API server is the shared state.  The controller works from a cache  *)
(* filled by watches that lag behind it, and one reconcile is a sequence   *)
(* of API calls that other reconciles, users, Cluster API and the garbage  *)
(* collector interleave with.  One action is one API call.  patch() and    *)
(* get_or_create() are a GET and a write: the write is idempotent, so the  *)
(* pair acts as if it happened at the write, or at the GET when the object *)
(* needs nothing.                                                          *)
(***************************************************************************)
EXTENDS Integers, Sequences, FiniteSets

CONSTANTS
    Clusters,    \* the CAPI Clusters, each a namespace and a name
    Namespaces,
    Classes,     \* the class references a topology may hold
    NsOf,        \* the namespace of a Cluster
    NameOf,      \* the name of a Cluster
    FleetName,   \* the name of its Fleet Cluster: NamingStrategy::apply of NameOf
    ClassNs,     \* the namespace a class reference names, or None
    ClassesOf,   \* those a Cluster may be created with; None is no topology
    Watches,     \* the watches whose selection covers the Clusters
    Configs,     \* the values FleetAddonConfig may take
    Starts,      \* those of them it may begin with
    Mortal,      \* the Clusters that users may delete
    Foreign,     \* may a new Cluster have other finalizers: {TRUE}, {FALSE}, BOOLEAN
    MaxUid,      \* bound: how often a Cluster of one name is created
    Kinds,       \* the disturbances that may happen
    Budget,      \* bound: how many of them happen
    None

Disturbances == {"fault", "restart", "drop", "rebase", "reconfigure", "remove"}

Config == [enabled : BOOLEAN, applyClassGroup : BOOLEAN,
           patchResource : BOOLEAN, setOwnerReferences : BOOLEAN]

ASSUME ConstantsAssumption ==
    /\ NsOf \in [Clusters -> Namespaces]
    /\ ClassNs \in [Classes -> Namespaces \cup {None}]
    /\ ClassesOf \in [Clusters -> SUBSET (Classes \cup {None})]
    /\ Configs \subseteq Config
    /\ Starts \subseteq Configs
    /\ Mortal \subseteq Clusters
    /\ Foreign \subseteq BOOLEAN
    /\ MaxUid \in Nat
    /\ Kinds \subseteq Disturbances
    /\ Budget \in Nat

Uids == 1 .. MaxUid

(***************************************************************************)
(* What the controller reads of a Cluster.  foreign: other finalizers come *)
(* before ours in the list (Cluster API puts its own there first).         *)
(***************************************************************************)
Object == [uid : Uids, class : Classes \cup {None}, ready : BOOLEAN,
           deleting : BOOLEAN, finalizer : BOOLEAN, foreign : BOOLEAN]

Event == [type : {"Apply", "Delete"}, object : Object]

SyncSteps == {"mapping", "fleet", "group", "namespace"}
CleanupSteps == {"references", "unmap", "others", "unannotate", "removeFinalizer"}
Steps == {"addFinalizer", "config"} \cup SyncSteps \cup CleanupSteps

Reconcile == [step : Steps, object : Object, config : Configs \cup {None}]

FleetCluster == [owner : Uids \cup {None}, class : Classes \cup {None}]

ASSUME NoneAssumption ==
    /\ None \notin Namespaces \cup Classes \cup Uids
    /\ None \notin Object \cup Reconcile \cup FleetCluster

VARIABLES
    \* The API server
    capi,           \* the Clusters
    lastUid,        \* the uid last given to a Cluster of this name
    fleet,          \* the Fleet Clusters, by the Cluster they import
    group,          \* the owners of the ClusterGroup of a <<namespace, class>>
    mapping,        \* the BundleNamespaceMappings: <<class namespace, namespace>>
    annotated,      \* the namespaces with the fleet workspace annotation
    config,         \* the FleetAddonConfig
    \* The controller
    synced,         \* the watches that have listed
    watch,          \* events between a watch and the store, in order
    cache,          \* the store of the cluster controller
    queue,          \* the Clusters due for a reconcile
    rec,            \* the reconcile in progress of a Cluster, or None
    mappingEvents,  \* class namespaces whose mappings have changed
    rewatch,        \* FleetAddonConfig changed: the watches are to be replaced
    \* Bounds
    budget

server == <<capi, lastUid, fleet, group, mapping, annotated, config>>
controller == <<synced, watch, cache, queue, rec, mappingEvents, rewatch>>
vars == <<capi, lastUid, fleet, group, mapping, annotated, config,
          synced, watch, cache, queue, rec, mappingEvents, rewatch, budget>>

Init ==
    /\ capi = [c \in Clusters |-> None]
    /\ lastUid = [c \in Clusters |-> 0]
    /\ fleet = [c \in Clusters |-> None]
    /\ group = [g \in Namespaces \X Classes |-> {}]
    /\ mapping = {}
    /\ annotated = {}
    /\ config \in Starts
    /\ synced = {}
    /\ watch = [w \in Watches |-> [c \in Clusters |-> <<>>]]
    /\ cache = [c \in Clusters |-> None]
    /\ queue = {}
    /\ rec = [c \in Clusters |-> None]
    /\ mappingEvents = {}
    /\ rewatch = FALSE
    /\ budget = Budget

(***************************************************************************)
(* Shorthands.                                                             *)
(***************************************************************************)

\* cluster_class_namespace()
ClassNamespace(class) == IF class = None THEN None ELSE ClassNs[class]

\* to_bundle_ns_mapping() and to_group() give an object under one condition:
\* classes are applied and the reference names its namespace.
Grouped(c) ==
    /\ rec[c].config.applyClassGroup
    /\ ClassNamespace(rec[c].object.class) # None

\* Mutant of MappingOf: the name of the class instead of its namespace.
MappingOfClass(c) == <<rec[c].object.class, NsOf[c]>>

MappingOf(c) == <<ClassNamespace(rec[c].object.class), NsOf[c]>>

GroupOf(c) == <<NsOf[c], rec[c].object.class>>

Exists(c, uid) == capi[c] # None /\ capi[c].uid = uid

At(c, step) == rec[c] # None /\ rec[c].step = step

Goto(c, step) == rec' = [rec EXCEPT ![c].step = step]

Finish(c) == rec' = [rec EXCEPT ![c] = None]

\* Mutant of Retry: an error ends the reconcile for good.
RetryNever(c) == Finish(c) /\ UNCHANGED queue

\* error_policy: the Cluster is reconciled again.
Retry(c) == Finish(c) /\ queue' = queue \cup {c}

Spend(d) == d \in Kinds /\ budget > 0 /\ budget' = budget - 1

\* The API server stores a Cluster and tells the watches.  A Cluster being
\* deleted is gone with its last finalizer.
Gone(o) == o.deleting /\ ~o.finalizer /\ ~o.foreign

Notify(c, e) ==
    watch' = [w \in Watches |->
                IF w \in synced THEN [watch[w] EXCEPT ![c] = Append(@, e)]
                ELSE watch[w]]

Write(c, o) ==
    /\ capi' = [capi EXCEPT ![c] = IF Gone(o) THEN None ELSE o]
    /\ Notify(c, [type |-> IF Gone(o) THEN "Delete" ELSE "Apply", object |-> o])

\* A change of the mappings reaches the controller as an event that names
\* their namespace.
SetMapping(m) ==
    /\ mapping' = m
    /\ mappingEvents' = mappingEvents \cup
            {x[1] : x \in (m \ mapping) \cup (mapping \ m)}

(***************************************************************************)
(* Cluster API and its users.                                              *)
(***************************************************************************)
CreateCluster(c) ==
    /\ capi[c] = None
    /\ lastUid[c] < MaxUid
    /\ lastUid' = [lastUid EXCEPT ![c] = @ + 1]
    /\ \E class \in ClassesOf[c], foreign \in Foreign :
            Write(c, [uid |-> lastUid[c] + 1, class |-> class, ready |-> FALSE,
                      deleting |-> FALSE, finalizer |-> FALSE, foreign |-> foreign])
    /\ UNCHANGED <<fleet, group, mapping, annotated, config, synced, cache,
                   queue, rec, mappingEvents, rewatch, budget>>

\* status.initialization.controlPlaneInitialized becomes true
InitializeControlPlane(c) ==
    /\ capi[c] # None
    /\ ~capi[c].ready
    /\ Write(c, [capi[c] EXCEPT !.ready = TRUE])
    /\ UNCHANGED <<lastUid, fleet, group, mapping, annotated, config, synced,
                   cache, queue, rec, mappingEvents, rewatch, budget>>

DeleteCluster(c) ==
    /\ c \in Mortal
    /\ capi[c] # None
    /\ ~capi[c].deleting
    /\ Write(c, [capi[c] EXCEPT !.deleting = TRUE])
    /\ UNCHANGED <<lastUid, fleet, group, mapping, annotated, config, synced,
                   cache, queue, rec, mappingEvents, rewatch, budget>>

\* Cluster API has torn the cluster down and drops its own finalizer.
ReleaseCluster(c) ==
    /\ capi[c] # None
    /\ capi[c].deleting
    /\ capi[c].foreign
    /\ Write(c, [capi[c] EXCEPT !.foreign = FALSE])
    /\ UNCHANGED <<lastUid, fleet, group, mapping, annotated, config, synced,
                   cache, queue, rec, mappingEvents, rewatch, budget>>

\* The topology moves to another class.
Rebase(c) ==
    /\ capi[c] # None
    /\ Spend("rebase")
    /\ \E class \in Classes \ {capi[c].class} :
            Write(c, [capi[c] EXCEPT !.class = class])
    /\ UNCHANGED <<lastUid, fleet, group, mapping, annotated, config, synced,
                   cache, queue, rec, mappingEvents, rewatch>>

Reconfigure ==
    /\ Spend("reconfigure")
    /\ config' \in Configs \ {config}
    /\ rewatch' = TRUE
    /\ UNCHANGED <<capi, lastUid, fleet, group, mapping, annotated, synced,
                   watch, cache, queue, rec, mappingEvents>>

\* A user deletes what the controller made.  The controller hears of it
\* through the owners of the object, or the namespace of the mapping.
RemoveFleet(c) ==
    /\ fleet[c] # None
    /\ Spend("remove")
    /\ fleet' = [fleet EXCEPT ![c] = None]
    /\ queue' = IF fleet[c].owner = None THEN queue ELSE queue \cup {c}
    /\ UNCHANGED <<capi, lastUid, group, mapping, annotated, config, synced,
                   watch, cache, rec, mappingEvents, rewatch>>

RemoveGroup(g) ==
    /\ group[g] # {}
    /\ Spend("remove")
    /\ group' = [group EXCEPT ![g] = {}]
    /\ queue' = queue \cup {o[1] : o \in group[g]}
    /\ UNCHANGED <<capi, lastUid, fleet, mapping, annotated, config, synced,
                   watch, cache, rec, mappingEvents, rewatch>>

RemoveMapping(m) ==
    /\ m \in mapping
    /\ Spend("remove")
    /\ SetMapping(mapping \ {m})
    /\ UNCHANGED <<capi, lastUid, fleet, group, annotated, config, synced,
                   watch, cache, queue, rec, rewatch>>

(***************************************************************************)
(* The garbage collector: an object goes when all its owners are gone.     *)
(***************************************************************************)
CollectFleet(c) ==
    /\ fleet[c] # None
    /\ fleet[c].owner # None
    /\ ~Exists(c, fleet[c].owner)
    /\ fleet' = [fleet EXCEPT ![c] = None]
    /\ queue' = queue \cup {c}
    /\ UNCHANGED <<capi, lastUid, group, mapping, annotated, config, synced,
                   watch, cache, rec, mappingEvents, rewatch, budget>>

CollectGroup(g) ==
    LET live == {o \in group[g] : Exists(o[1], o[2])}
        told == IF live = {} THEN group[g] ELSE live
    IN  /\ live # group[g]
        /\ group' = [group EXCEPT ![g] = live]
        /\ queue' = queue \cup {o[1] : o \in told}
        /\ UNCHANGED <<capi, lastUid, fleet, mapping, annotated, config, synced,
                       watch, cache, rec, mappingEvents, rewatch, budget>>

(***************************************************************************)
(* The watches and the store (multi_dispatcher.rs).                        *)
(***************************************************************************)

\* The initial list of a watch: an InitApply for every Cluster.
List(w) ==
    /\ w \notin synced
    /\ synced' = synced \cup {w}
    /\ watch' = [watch EXCEPT ![w] = [c \in Clusters |->
                    IF capi[c] = None THEN watch[w][c]
                    ELSE Append(watch[w][c], [type |-> "Apply", object |-> capi[c]])]]
    /\ UNCHANGED <<server, cache, queue, rec, mappingEvents, rewatch, budget>>

\* A watch ends: it is to list again.
Drop(w) ==
    /\ w \in synced
    /\ Spend("drop")
    /\ synced' = synced \ {w}
    /\ UNCHANGED <<server, watch, cache, queue, rec, mappingEvents, rewatch>>

\* Mutant of UpdateWatches: the new watches do not list.
UpdateWatchesQuietly ==
    /\ rewatch
    /\ rewatch' = FALSE
    /\ UNCHANGED <<server, synced, watch, cache, queue, rec, mappingEvents, budget>>

\* update_watches: the shared stream is cleared and filled with new watches.
UpdateWatches ==
    /\ rewatch
    /\ rewatch' = FALSE
    /\ synced' = {}
    /\ UNCHANGED <<server, watch, cache, queue, rec, mappingEvents, budget>>

\* An event that was not broadcast yet is lost with its watch.
Lose(w, c) ==
    /\ w \notin synced
    /\ watch[w][c] # <<>>
    /\ watch' = [watch EXCEPT ![w][c] = SubSeq(@, 1, Len(@) - 1)]
    /\ UNCHANGED <<server, synced, cache, queue, rec, mappingEvents, rewatch, budget>>

\* Mutant of Deliver: the newest event of the watch comes first.
DeliverLate(w, c) ==
    /\ watch[w][c] # <<>>
    /\ LET n == Len(watch[w][c])
           e == watch[w][c][n]
       IN  /\ cache' = [cache EXCEPT ![c] = IF e.type = "Delete" THEN None ELSE e.object]
           /\ watch' = [watch EXCEPT ![w][c] = SubSeq(@, 1, n - 1)]
    /\ queue' = queue \cup {c}
    /\ UNCHANGED <<server, synced, rec, mappingEvents, rewatch, budget>>

\* TypedReflectHandle::poll_next: an event updates the store and the touched
\* Cluster is queued.
Deliver(w, c) ==
    /\ watch[w][c] # <<>>
    /\ LET e == Head(watch[w][c])
       IN  cache' = [cache EXCEPT ![c] = IF e.type = "Delete" THEN None ELSE e.object]
    /\ watch' = [watch EXCEPT ![w][c] = Tail(@)]
    /\ queue' = queue \cup {c}
    /\ UNCHANGED <<server, synced, rec, mappingEvents, rewatch, budget>>

\* Mutant of DeliverMapping: the mapping finds no Cluster.
DeliverMappingUnheard(n) ==
    /\ n \in mappingEvents
    /\ mappingEvents' = mappingEvents \ {n}
    /\ UNCHANGED <<server, synced, watch, cache, queue, rec, rewatch, budget>>

\* A mapping changed: the cached Clusters whose class is in its namespace.
DeliverMapping(n) ==
    /\ n \in mappingEvents
    /\ mappingEvents' = mappingEvents \ {n}
    /\ queue' = queue \cup
            {c \in Clusters : cache[c] # None /\ ClassNamespace(cache[c].class) = n}
    /\ UNCHANGED <<server, synced, watch, cache, rec, rewatch, budget>>

\* The pod is replaced.  The first lists of the other watches touch every
\* Fleet Cluster, group and mapping.
Restart ==
    /\ Spend("restart")
    /\ rec' = [c \in Clusters |-> None]
    /\ cache' = [c \in Clusters |-> None]
    /\ queue' = {c \in Clusters : fleet[c] # None /\ fleet[c].owner # None} \cup
                UNION {{o[1] : o \in group[g]} : g \in Namespaces \X Classes}
    /\ synced' = {}
    /\ watch' = [w \in Watches |-> [c \in Clusters |-> <<>>]]
    /\ mappingEvents' = {m[1] : m \in mapping}
    /\ rewatch' = FALSE
    /\ UNCHANGED server

(***************************************************************************)
(* A reconcile: FleetController::reconcile under the finalizer helper.     *)
(***************************************************************************)

\* Mutant of FirstStep: a reconcile without the finalizer.
FirstStepUnguarded(o) == "config"

\* The finalizer helper: the finalizer comes before anything else.
FirstStep(o) == IF o.finalizer THEN "config" ELSE "addFinalizer"

\* The reconcile works on the Cluster in the store; without one it is dropped.
\* A Cluster being deleted that does not have the finalizer is left alone.
Start(c) ==
    /\ c \in queue
    /\ rec[c] = None
    /\ queue' = queue \ {c}
    /\ IF cache[c] = None \/ (cache[c].deleting /\ ~cache[c].finalizer)
       THEN UNCHANGED rec
       ELSE rec' = [rec EXCEPT ![c] =
                        [step |-> FirstStep(cache[c]), object |-> cache[c], config |-> None]]
    /\ UNCHANGED <<server, synced, watch, cache, mappingEvents, rewatch, budget>>

\* A JSON patch that tests the list of finalizers it was computed from, and
\* not the uid.  The API server adds no finalizer to an object being deleted.
AddFinalizer(c) ==
    /\ At(c, "addFinalizer")
    /\ IF /\ capi[c] # None
          /\ ~capi[c].deleting
          /\ ~capi[c].finalizer
          /\ capi[c].foreign = rec[c].object.foreign
       THEN /\ Write(c, [capi[c] EXCEPT !.finalizer = TRUE])
            /\ Finish(c)
            /\ UNCHANGED queue
       ELSE Retry(c) /\ UNCHANGED <<capi, watch>>
    /\ UNCHANGED <<lastUid, fleet, group, mapping, annotated, config, synced,
                   cache, mappingEvents, rewatch, budget>>

\* to_bundle: nothing to do when cluster operations are disabled or the
\* control plane is not initialized; a cleanup then only drops the finalizer.
Bundled(o, conf) == conf.enabled /\ o.ready

AfterConfig(o, conf) ==
    CASE ~o.deleting -> "mapping"
      [] o.deleting /\ ~Bundled(o, conf) -> "removeFinalizer"
      [] OTHER -> IF conf.applyClassGroup /\ ClassNamespace(o.class) # None
                  THEN "references" ELSE "others"

\* Mutant of ReadConfig: without a bundle a deletion is left alone too.
ReadConfigSkips(c) ==
    /\ At(c, "config")
    /\ IF Bundled(rec[c].object, config)
       THEN rec' = [rec EXCEPT ![c].config = config,
                               ![c].step = AfterConfig(rec[c].object, config)]
       ELSE Finish(c)
    /\ UNCHANGED <<server, synced, watch, cache, queue, mappingEvents, rewatch, budget>>

\* Mutant of ReadConfig: without a bundle the finalizer goes, deletion or not.
ReadConfigReleases(c) ==
    /\ At(c, "config")
    /\ rec' = [rec EXCEPT ![c].config = config,
                          ![c].step = IF Bundled(rec[c].object, config)
                                      THEN AfterConfig(rec[c].object, config)
                                      ELSE "removeFinalizer"]
    /\ UNCHANGED <<server, synced, watch, cache, queue, mappingEvents, rewatch, budget>>

ReadConfig(c) ==
    /\ At(c, "config")
    /\ IF rec[c].object.deleting \/ Bundled(rec[c].object, config)
       THEN rec' = [rec EXCEPT ![c].config = config,
                               ![c].step = AfterConfig(rec[c].object, config)]
       ELSE Finish(c)
    /\ UNCHANGED <<server, synced, watch, cache, queue, mappingEvents, rewatch, budget>>

PatchMapping(c) ==
    /\ At(c, "mapping")
    /\ IF Grouped(c) /\ rec[c].config.patchResource
       THEN SetMapping(mapping \cup {MappingOf(c)})
       ELSE UNCHANGED <<mapping, mappingEvents>>
    /\ Goto(c, "fleet")
    /\ UNCHANGED <<capi, lastUid, fleet, group, annotated, config, synced, watch,
                   cache, queue, rewatch, budget>>

\* The Fleet Cluster lacks the owner reference or the class label, or it
\* differs in what is not modelled (its status, the template values, agent
\* settings): ResourceDiff for fleet_cluster::Cluster.
FleetDiffers(c) ==
    \/ fleet[c] = None
    \/ rec[c].config.setOwnerReferences /\ fleet[c].owner # rec[c].object.uid
    \/ rec[c].object.class # None /\ fleet[c].class # rec[c].object.class

\* to_cluster
DesiredFleet(c) ==
    [owner |-> IF rec[c].config.setOwnerReferences THEN rec[c].object.uid ELSE None,
     class |-> rec[c].object.class]

\* patch() or, with patchResource off, get_or_create().  A change that leaves
\* or removes an owner queues the Cluster.
SyncFleet(c) ==
    /\ At(c, "fleet")
    /\ \E other \in BOOLEAN :
         IF IF rec[c].config.patchResource THEN FleetDiffers(c) \/ other
            ELSE fleet[c] = None
         THEN fleet' = [fleet EXCEPT ![c] = DesiredFleet(c)]
         ELSE UNCHANGED fleet
    /\ queue' = IF fleet'[c] # fleet[c] /\ fleet'[c].owner # None
                THEN queue \cup {c} ELSE queue
    /\ Goto(c, "group")
    /\ UNCHANGED <<capi, lastUid, group, mapping, annotated, config, synced, watch,
                   cache, mappingEvents, rewatch, budget>>

\* Every Cluster patches the group under its own field manager, so the owner
\* references of several Clusters add up.
PatchGroup(c) ==
    /\ At(c, "group")
    /\ LET owners == group[GroupOf(c)] \cup {<<c, rec[c].object.uid>>}
       IN  IF Grouped(c) /\ rec[c].config.patchResource /\ owners # group[GroupOf(c)]
           THEN /\ group' = [group EXCEPT ![GroupOf(c)] = owners]
                /\ queue' = queue \cup {o[1] : o \in owners}
           ELSE UNCHANGED <<group, queue>>
    /\ Goto(c, "namespace")
    /\ UNCHANGED <<capi, lastUid, fleet, mapping, annotated, config, synced, watch,
                   cache, mappingEvents, rewatch, budget>>

AnnotateNamespace(c) ==
    /\ At(c, "namespace")
    /\ annotated' = annotated \cup {NsOf[c]}
    /\ Finish(c)
    /\ UNCHANGED <<capi, lastUid, fleet, group, mapping, config, synced, watch,
                   cache, queue, mappingEvents, rewatch, budget>>

\* Mutant of References: the Clusters beside c, those being deleted included.
ReferencesDeleting(c) ==
    {d \in Clusters \ {c} :
        /\ NsOf[d] = NsOf[c]
        /\ capi[d] # None
        /\ ClassNamespace(capi[d].class) = ClassNamespace(rec[c].object.class)}

\* The Clusters that keep the mapping: those listed in the namespace of the class.
References(c) ==
    LET n == ClassNamespace(rec[c].object.class)
    IN  {d \in Clusters :
            /\ NsOf[d] = n
            /\ capi[d] # None
            /\ ClassNamespace(capi[d].class) = n
            /\ NameOf[d] # FleetName[c]
            /\ ~capi[d].deleting}

ListReferences(c) ==
    /\ At(c, "references")
    /\ Goto(c, IF References(c) # {} THEN "removeFinalizer" ELSE "unmap")
    /\ UNCHANGED <<server, synced, watch, cache, queue, mappingEvents, rewatch, budget>>

DeleteMapping(c) ==
    /\ At(c, "unmap")
    /\ SetMapping(mapping \ {MappingOf(c)})
    /\ Goto(c, "others")
    /\ UNCHANGED <<capi, lastUid, fleet, group, annotated, config, synced, watch,
                   cache, queue, rewatch, budget>>

\* The other Clusters of the namespace: those not named like the Fleet Cluster.
Others(c) ==
    {d \in Clusters : NsOf[d] = NsOf[c] /\ capi[d] # None /\ NameOf[d] # FleetName[c]}

ListOthers(c) ==
    /\ At(c, "others")
    /\ Goto(c, IF Others(c) = {} THEN "unannotate" ELSE "removeFinalizer")
    /\ UNCHANGED <<server, synced, watch, cache, queue, mappingEvents, rewatch, budget>>

RemoveAnnotation(c) ==
    /\ At(c, "unannotate")
    /\ annotated' = annotated \ {NsOf[c]}
    /\ Goto(c, "removeFinalizer")
    /\ UNCHANGED <<capi, lastUid, fleet, group, mapping, config, synced, watch,
                   cache, queue, mappingEvents, rewatch, budget>>

\* A JSON patch that tests that the finalizer is where the cached list had it,
\* and not the uid.
RemoveFinalizer(c) ==
    /\ At(c, "removeFinalizer")
    /\ IF /\ capi[c] # None
          /\ capi[c].finalizer
          /\ capi[c].foreign = rec[c].object.foreign
       THEN /\ Write(c, [capi[c] EXCEPT !.finalizer = FALSE])
            /\ Finish(c)
            /\ UNCHANGED queue
       ELSE Retry(c) /\ UNCHANGED <<capi, watch>>
    /\ UNCHANGED <<lastUid, fleet, group, mapping, annotated, config, synced,
                   cache, mappingEvents, rewatch, budget>>

\* An API call fails, or the event that announces the last change is refused:
\* the rest of the reconcile is skipped.
Fault(c) ==
    /\ rec[c] # None
    /\ Spend("fault")
    /\ Retry(c)
    /\ UNCHANGED <<server, synced, watch, cache, mappingEvents, rewatch>>

(***************************************************************************)
(* The specification.                                                      *)
(***************************************************************************)
Environment ==
    \/ \E c \in Clusters :
         \/ CreateCluster(c)
         \/ InitializeControlPlane(c)
         \/ DeleteCluster(c)
         \/ ReleaseCluster(c)
         \/ Rebase(c)
         \/ RemoveFleet(c)
         \/ CollectFleet(c)
    \/ \E g \in Namespaces \X Classes : RemoveGroup(g) \/ CollectGroup(g)
    \/ \E m \in mapping : RemoveMapping(m)
    \/ Reconfigure

Informer ==
    \/ \E w \in Watches :
         \/ List(w)
         \/ Drop(w)
         \/ \E c \in Clusters : Lose(w, c) \/ Deliver(w, c)
    \/ \E n \in Namespaces : DeliverMapping(n)
    \/ UpdateWatches
    \/ Restart

Sync(c) ==
    \/ PatchMapping(c)
    \/ SyncFleet(c)
    \/ PatchGroup(c)
    \/ AnnotateNamespace(c)

Cleanup(c) ==
    \/ ListReferences(c)
    \/ DeleteMapping(c)
    \/ ListOthers(c)
    \/ RemoveAnnotation(c)
    \/ RemoveFinalizer(c)

Progress(c) ==
    \/ Start(c)
    \/ AddFinalizer(c)
    \/ ReadConfig(c)
    \/ Sync(c)
    \/ Cleanup(c)

Next ==
    \/ Environment
    \/ Informer
    \/ \E c \in Clusters : Progress(c) \/ Fault(c)

Spec == Init /\ [][Next]_vars

\* Reconciles run as tasks of their own and are polled to their end, watches
\* list and deliver, the garbage collector runs and Cluster API finishes a
\* deletion.  Users and failures owe nothing.
Fairness ==
    /\ \A c \in Clusters :
         /\ WF_vars(Progress(c))
         /\ WF_vars(ReleaseCluster(c))
         /\ WF_vars(CollectFleet(c))
         /\ \A w \in Watches : WF_vars(Deliver(w, c))
    /\ \A g \in Namespaces \X Classes : WF_vars(CollectGroup(g))
    /\ \A n \in Namespaces : WF_vars(DeliverMapping(n))
    /\ \A w \in Watches : WF_vars(List(w))
    /\ WF_vars(UpdateWatches)

FairSpec == Spec /\ Fairness

(***************************************************************************)
(* Properties.                                                             *)
(***************************************************************************)

\* Type invariant: the stores, the reconciles in progress and what they made.
TypeOK ==
    /\ capi \in [Clusters -> Object \cup {None}]
    /\ lastUid \in [Clusters -> 0 .. MaxUid]
    /\ fleet \in [Clusters -> FleetCluster \cup {None}]
    /\ group \in [Namespaces \X Classes -> SUBSET (Clusters \X Uids)]
    /\ mapping \subseteq Namespaces \X Namespaces
    /\ annotated \subseteq Namespaces
    /\ config \in Configs
    /\ synced \subseteq Watches
    /\ watch \in [Watches -> [Clusters -> Seq(Event)]]
    /\ cache \in [Clusters -> Object \cup {None}]
    /\ queue \subseteq Clusters
    /\ rec \in [Clusters -> Reconcile \cup {None}]
    /\ mappingEvents \subseteq Namespaces
    /\ rewatch \in BOOLEAN
    /\ budget \in Nat

\* The first time a name is used, nothing is made for the Cluster before our
\* finalizer holds it, so that a cleanup comes after everything sync() makes, a
\* mapping included, which no owner reference would remove: for any number of
\* watches, each as far behind as it likes.  A later Cluster of the name may
\* have lost the finalizer to a cleanup of an earlier one, and one that is gone
\* may still be synced: both take a watch that lags behind another.
ApplyUnderFinalizer ==
    \A c \in Clusters :
        /\ rec[c] # None /\ rec[c].step \in SyncSteps
        /\ Exists(c, rec[c].object.uid)
        /\ lastUid[c] = 1
        => capi[c].finalizer \/ capi[c].deleting

\* The finalizer is taken only from a Cluster that is being deleted, or by a
\* cleanup of an earlier Cluster of the name: the patch tests the place of the
\* finalizer in the list and not the uid.  A cleanup never strips the Cluster it
\* was started for, however many watches put older states back into the store.
FinalizerKept ==
    [][\A c \in Clusters :
         capi[c] # None /\ capi[c].finalizer =>
            \/ capi'[c] # None /\ capi'[c].finalizer
            \/ capi[c].deleting
            \/ /\ rec[c] # None /\ rec[c].object.deleting
               /\ rec[c].object.uid < capi[c].uid]_vars

\* However the streams of the watches are merged, the store has the Cluster as
\* the API server has it once they are all delivered; until then the last event
\* of every watch that has listed is that state.
StoreConverges ==
    \A c \in Clusters : capi[c] # None =>
        /\ \A w \in synced : watch[w][c] # <<>> =>
              watch[w][c][Len(watch[w][c])] = [type |-> "Apply", object |-> capi[c]]
        /\ synced = Watches /\ (\A w \in Watches : watch[w][c] = <<>>) =>
              cache[c] = capi[c]

\* Every mapping still has a Cluster of its namespace, with a class in its
\* class namespace, whose finalizer will make the controller clean up: no
\* mapping outlives the Clusters that need it, as long as one watch covers them
\* and their classes and the settings stay as they are.
NoLeakedMapping ==
    \A m \in mapping : \E c \in Clusters :
        /\ NsOf[c] = m[2]
        /\ capi[c] # None
        /\ capi[c].finalizer
        /\ ClassNamespace(capi[c].class) = m[1]

Live(c) == capi[c] # None /\ capi[c].ready /\ ~capi[c].deleting

\* A Cluster that stays ready, under settings that ask for all there is.
Managed(c) ==
    /\ Live(c)
    /\ config.enabled /\ config.applyClassGroup
    /\ config.patchResource /\ config.setOwnerReferences

\* No other Cluster has its name in the namespace of c.
Alone(c) == \A d \in Clusters \ {c} : NsOf[d] # NsOf[c]

\* The annotation is asked of a Cluster alone in its namespace: the cleanup of
\* another takes it away, and nothing makes the controller look.
Imported(c) ==
    /\ fleet[c] # None
    /\ fleet[c].class = capi[c].class
    /\ fleet[c].owner = capi[c].uid
    /\ ClassNamespace(capi[c].class) # None =>
        /\ <<ClassNamespace(capi[c].class), NsOf[c]>> \in mapping
        /\ <<c, capi[c].uid>> \in group[<<NsOf[c], capi[c].class>>]
    /\ Alone(c) => NsOf[c] \in annotated

\* Nothing is on its way that would start a reconcile of the Cluster.
Unprompted(c) ==
    /\ ~rewatch
    /\ synced = Watches
    /\ \A w \in Watches : watch[w][c] = <<>>
    /\ capi[c] # None => ClassNamespace(capi[c].class) \notin mappingEvents
    /\ c \notin queue

AtRest(c) == Unprompted(c) /\ rec[c] = None

\* A Cluster that the controller is through with has the finalizer unless it is
\* being deleted: neither its import nor its deletion is ever forgotten, whichever
\* calls failed, watches ended, patches were refused or settings changed, and
\* however many watches tell of it.
HeldAtRest ==
    \A c \in Clusters :
        AtRest(c) /\ capi[c] # None => capi[c].finalizer = ~capi[c].deleting

\* And it is imported as its class and the settings ask at this moment: what users
\* or the cleanup of another Cluster removed, a class or a setting that changed
\* during a reconcile, always leaves something that makes the controller look again.
ImportedAtRest ==
    \A c \in Clusters : AtRest(c) /\ Managed(c) => Imported(c)

\* A Cluster that stays ready ends up imported and stays so, with its current
\* class, whatever the controller was at before and whoever deletes what it made:
\* a Cluster of the same namespace that is deleted takes the mapping along.
EventuallyImported ==
    \A c \in Clusters : <>[]Managed(c) => <>[](Live(c) /\ Imported(c))

Refers(c, n) == capi[c] # None /\ ClassNamespace(capi[c].class) = n

Homes == {NsOf[c] : c \in Clusters}

\* A mapping goes, for good, once no Cluster of its namespace refers to a
\* class of its class namespace any more: "When all CAPI Cluster resources
\* referencing the same ClusterClass are removed, [the] BundleNamespaceMapping
\* [is] cleaned up".
EventuallyUnmapped ==
    \A m \in {ClassNs[class] : class \in Classes} \X Homes :
        [](config.enabled /\ config.applyClassGroup)
            /\ <>[](\A c \in Clusters : NsOf[c] = m[2] => ~Refers(c, m[1])) =>
                <>[](m \notin mapping)

\* A Cluster that stays ready ends up with the mapping to the namespace of its
\* class: "a BundleNamespaceMapping is created in the ClusterClass namespace".
EventuallyMapped ==
    \A c \in Clusters : \A n \in Namespaces :
        <>[](Managed(c) /\ Refers(c, n)) => <>[](<<n, NsOf[c]>> \in mapping)
================================================================================
