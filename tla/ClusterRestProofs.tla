--------------------------- MODULE ClusterRestProofs ---------------------------
(***************************************************************************)
(* StoreConverges, HeldAtRest and ImportedAtRest: the controller forgets   *)
(* nothing.  However many watches tell of the Clusters, whatever is not as *)
(* it should be has left something that will make the controller look: an  *)
(* event on its way, a Cluster in the queue, or a reconcile that will come *)
(* to it.                                                                  *)
(***************************************************************************)
EXTENDS ClusterProofs

(***************************************************************************)
(* What is right with a Cluster that nothing prompts the controller to     *)
(* look at.                                                                *)
(***************************************************************************)

\* The last event of a watch that has listed tells of the Cluster as it is, and
\* so does the store when no watch has anything left to tell.
UpToDate(c) ==
    capi[c] # None =>
        /\ \A w \in synced : watch[w][c] # <<>> =>
              watch[w][c][Len(watch[w][c])] = [type |-> "Apply", object |-> capi[c]]
        /\ synced = Watches /\ (\A w \in Watches : watch[w][c] = <<>>) =>
              cache[c] = capi[c]

MappedNow(c) ==
    ClassNamespace(capi[c].class) # None =>
        <<ClassNamespace(capi[c].class), NsOf[c]>> \in mapping

FleetNow(c) ==
    /\ fleet[c] # None
    /\ fleet[c].class = capi[c].class
    /\ fleet[c].owner = capi[c].uid

GroupedNow(c) ==
    ClassNamespace(capi[c].class) # None =>
        <<c, capi[c].uid>> \in group[<<NsOf[c], capi[c].class>>]

AnnotatedNow(c) == Alone(c) => NsOf[c] \in annotated

\* A reconcile works on the Cluster as it is, with the settings as they are,
\* and what it made before is still there.
Working(c) ==
    /\ rec[c].object = capi[c]
    /\ rec[c].step \notin {"addFinalizer", "config"} => rec[c].config = config
    /\ Managed(c) =>
        /\ rec[c].step \in {"fleet", "group", "namespace"} => MappedNow(c)
        /\ rec[c].step \in {"group", "namespace"} => FleetNow(c)
        /\ rec[c].step = "namespace" => GroupedNow(c)

\* Without one, all that is asked for is there.
Through(c) ==
    /\ capi[c].finalizer = ~capi[c].deleting
    /\ Managed(c) => MappedNow(c) /\ FleetNow(c) /\ GroupedNow(c) /\ AnnotatedNow(c)

Attends(c) ==
    Unprompted(c) /\ capi[c] # None => IF rec[c] = None THEN Through(c) ELSE Working(c)

Attended == \A c \in Clusters : UpToDate(c) /\ Attends(c)

(***************************************************************************)
(* The comparison of a Fleet Cluster does not look for a class label that  *)
(* should not be there.  It is never there: a Cluster without a topology   *)
(* never had one.                                                          *)
(***************************************************************************)
Classless(c) ==
    /\ fleet[c] # None /\ fleet[c].owner # None => fleet[c].owner <= lastUid[c]
    /\ capi[c] # None /\ capi[c].class = None =>
        /\ \A a \in Views(c) : a.uid = capi[c].uid => a.class = None
        /\ fleet[c] # None /\ fleet[c].owner = capi[c].uid => fleet[c].class = None

ClassesKept == \A c \in Clusters : Classless(c)

(***************************************************************************)
(* The classes: steps of the specification.                                *)
(***************************************************************************)

LEMMA ViewsLast ==
    ASSUME TypeOK, PastViews, NEW c \in Clusters, NEW a \in Views(c)
    PROVE  a.uid \in Nat /\ a.uid <= lastUid[c]
  BY Numbers DEF PastViews, Known, Past, Views, Object

\* Nothing of the Cluster changes.
LEMMA ClassRests ==
    ASSUME NEW c \in Clusters, Classless(c), capi'[c] = capi[c] \/ capi'[c] = None,
           lastUid'[c] = lastUid[c], fleet'[c] = fleet[c] \/ fleet'[c] = None,
           capi[c] # None => \A a \in Views(c)' : a \in Views(c) \/ a = capi[c]
    PROVE  Classless(c)'
  BY DEF Classless

\* The API server stores a new state of the same Cluster, whose class does not go.
LEMMA WriteClasses ==
    ASSUME TypeOK, ClassesKept, NEW d \in Clusters, NEW o \in Object, Write(d, o),
           capi[d] # None, o.uid = capi[d].uid, o.class = None => capi[d].class = None,
           UNCHANGED <<cache, fleet, lastUid>>,
           \A c \in Clusters : rec'[c] = rec[c] \/ rec'[c] = None
    PROVE  ClassesKept'
<1> SUFFICES ASSUME NEW c \in Clusters PROVE Classless(c)'
  BY DEF ClassesKept
<1>1. Classless(c)
  BY DEF ClassesKept
<1>2. /\ \A a \in Views(c)' : a \in Views(c) \/ (d = c /\ a = o)
      /\ d # c => capi'[c] = capi[c]
  BY WriteViews
<1>3. CASE d # c
  BY <1>1, <1>2, <1>3, ClassRests
<1>4. CASE d = c
  <2>1. capi'[c] = None \/ capi'[c] = o
    BY <1>4 DEF Write, TypeOK
  <2> QED
    BY <1>1, <1>2, <1>4, <2>1 DEF Classless
<1> QED
  BY <1>3, <1>4

LEMMA CreateClasses ==
    ASSUME TypeOK, PastViews, ClassesKept, NEW d \in Clusters, CreateCluster(d)
    PROVE  ClassesKept'
<1> SUFFICES ASSUME NEW c \in Clusters PROVE Classless(c)'
  BY DEF ClassesKept
<1>1. Classless(c)
  BY DEF ClassesKept
<1>2. PICK class \in ClassesOf[d], foreign \in Foreign :
          Write(d, [uid |-> lastUid[d] + 1, class |-> class, ready |-> FALSE,
                    deleting |-> FALSE, finalizer |-> FALSE, foreign |-> foreign])
  BY DEF CreateCluster
<1>3. PICK o : o = [uid |-> lastUid[d] + 1, class |-> class, ready |-> FALSE,
                    deleting |-> FALSE, finalizer |-> FALSE, foreign |-> foreign]
  OBVIOUS
<1>4. lastUid[d] \in Nat /\ lastUid[d] + 1 \in Uids
  BY Numbers DEF CreateCluster, Uids, TypeOK
<1>5. o \in Object
  BY <1>3, <1>4, ConstantsAssumption DEF Object
<1>6. UNCHANGED <<cache, rec, fleet>> /\ lastUid' = [lastUid EXCEPT ![d] = @ + 1]
  BY DEF CreateCluster
<1>7. /\ \A a \in Views(c)' : a \in Views(c) \/ (d = c /\ a = o)
      /\ d # c => capi'[c] = capi[c]
  BY <1>2, <1>3, <1>5, <1>6, WriteViews
<1>8. CASE d # c
  BY <1>1, <1>6, <1>7, <1>8, ClassRests DEF TypeOK
<1>9. CASE d = c
  <2>1. capi'[c] = o /\ o.uid = lastUid[c] + 1 /\ lastUid'[c] = lastUid[c] + 1
    BY <1>2, <1>3, <1>6, <1>9 DEF Write, Gone, TypeOK
  <2>2. \A a \in Views(c) : a.uid \in Nat /\ a.uid <= lastUid[c]
    BY ViewsLast
  <2>3. fleet[c] # None /\ fleet[c].owner # None =>
            fleet[c].owner \in Nat /\ fleet[c].owner <= lastUid[c]
    BY <1>1, Numbers DEF Classless, TypeOK, FleetCluster
  <2>4. o.uid # None
    BY <1>5, NoneAssumption DEF Object
  <2> QED
    BY <1>4, <1>6, <1>7, <1>9, <2>1, <2>2, <2>3, <2>4 DEF Classless
<1> QED
  BY <1>8, <1>9

LEMMA EnvironmentClasses ==
    TypeOK /\ PastViews /\ ClassesKept /\ Environment => ClassesKept'
<1> SUFFICES ASSUME TypeOK, PastViews, ClassesKept, Environment PROVE ClassesKept'
  OBVIOUS
<1>1. ASSUME NEW d \in Clusters,
             \/ InitializeControlPlane(d) \/ DeleteCluster(d) \/ ReleaseCluster(d) \/ Rebase(d)
      PROVE  ClassesKept'
  <2>1. capi[d] \in Object /\ capi[d] # None /\ UNCHANGED <<cache, rec, fleet, lastUid>>
    BY <1>1, ObjectType DEF InitializeControlPlane, DeleteCluster, ReleaseCluster, Rebase
  <2>2. \/ Write(d, [capi[d] EXCEPT !.ready = TRUE])
        \/ Write(d, [capi[d] EXCEPT !.deleting = TRUE])
        \/ Write(d, [capi[d] EXCEPT !.foreign = FALSE])
        \/ \E class \in Classes : Write(d, [capi[d] EXCEPT !.class = class])
    BY <1>1 DEF InitializeControlPlane, DeleteCluster, ReleaseCluster, Rebase
  <2>3. PICK o :
            /\ Write(d, o)
            /\ \/ o = [capi[d] EXCEPT !.ready = TRUE]
               \/ o = [capi[d] EXCEPT !.deleting = TRUE]
               \/ o = [capi[d] EXCEPT !.foreign = FALSE]
               \/ \E class \in Classes : o = [capi[d] EXCEPT !.class = class]
    BY <2>2
  <2>4. o \in Object /\ o.uid = capi[d].uid /\ (o.class = None => capi[d].class = None)
    BY <2>1, <2>3, NoneAssumption DEF Object
  <2> QED
    BY <2>1, <2>3, <2>4, WriteClasses
<1>2. ASSUME UNCHANGED <<capi, lastUid, watch, cache, rec>>,
             \A c \in Clusters : fleet'[c] = fleet[c] \/ fleet'[c] = None
      PROVE  ClassesKept'
  BY <1>2, ClassRests DEF ClassesKept, Views
<1>3. ASSUME NEW d \in Clusters, RemoveFleet(d) \/ CollectFleet(d) PROVE ClassesKept'
  BY <1>2, <1>3 DEF RemoveFleet, CollectFleet, TypeOK
<1> QED
  BY <1>1, <1>2, <1>3, CreateClasses
  DEF Environment, RemoveGroup, CollectGroup, RemoveMapping, Reconfigure

LEMMA InformerClasses == TypeOK /\ ClassesKept /\ Informer => ClassesKept'
<1> SUFFICES ASSUME TypeOK, ClassesKept, Informer, NEW c \in Clusters PROVE Classless(c)'
  BY DEF ClassesKept
<1>1. UNCHANGED <<capi, lastUid, fleet>>
  BY DEF Informer, List, Drop, Lose, Deliver, DeliverMapping, UpdateWatches, Restart, server
<1> QED
  BY <1>1, InformerViews, ClassRests DEF ClassesKept

\* A reconcile whose step writes no Cluster.
LEMMA StepClasses ==
    ASSUME TypeOK, ClassesKept, NEW d \in Clusters, rec[d] # None,
           UNCHANGED <<capi, lastUid, watch, cache, fleet>>,
           \A c \in Clusters \ {d} : rec'[c] = rec[c],
           rec'[d] = None \/ rec'[d].object = rec[d].object
    PROVE  ClassesKept'
<1> SUFFICES ASSUME NEW c \in Clusters PROVE Classless(c)'
  BY DEF ClassesKept
<1>1. Views(c)' \subseteq Views(c)
  <2>1. CASE c = d
    BY <2>1, SameViews
  <2>2. CASE c # d
    BY <2>2 DEF Views
  <2> QED
    BY <2>1, <2>2
<1> QED
  BY <1>1, ClassRests DEF ClassesKept

\* What a reconcile knows of a Cluster without a topology is that it has none.
LEMMA SyncClasses ==
    ASSUME TypeOK, PastViews, ClassesKept, NEW d \in Clusters, SyncFleet(d)
    PROVE  ClassesKept'
<1> SUFFICES ASSUME NEW c \in Clusters PROVE Classless(c)'
  BY DEF ClassesKept
<1>0. Classless(c)
  BY DEF ClassesKept
<1>1. /\ rec[d] \in Reconcile /\ rec[d] # None
      /\ UNCHANGED <<capi, lastUid, watch, cache>>
      /\ fleet' = [fleet EXCEPT ![d] = DesiredFleet(d)] \/ fleet' = fleet
      /\ rec' = [rec EXCEPT ![d].step = "group"]
  BY DEF SyncFleet, At, Goto, TypeOK
<1>2. Views(c)' \subseteq Views(c)
  <2>1. rec'[c] = rec[c] \/ (c = d /\ rec'[c].object = rec[c].object)
    BY <1>1 DEF TypeOK, Reconcile
  <2> QED
    BY <1>1, <2>1, SameViews DEF Views
<1>3. CASE fleet'[c] = fleet[c]
  BY <1>0, <1>1, <1>2, <1>3, ClassRests
<1>4. CASE fleet'[c] # fleet[c]
  <2>1. /\ c = d
        /\ fleet'[c] = [owner |-> IF rec[c].config.setOwnerReferences
                                 THEN rec[c].object.uid ELSE None,
                        class |-> rec[c].object.class]
    BY <1>1, <1>4 DEF TypeOK, DesiredFleet
  <2>2. rec[c].object \in Views(c)
    BY <1>1, <2>1, HeldViews
  <2>3. rec[c].object.uid <= lastUid[c]
    BY <2>2, ViewsLast
  <2>4. fleet'[c].owner # None => fleet'[c].owner = rec[c].object.uid
    BY <2>1
  <2>5. fleet'[c].class = rec[c].object.class
    BY <2>1
  <2>6. capi[c] # None => capi[c].uid # None
    BY NoneAssumption DEF TypeOK, Object
  <2> QED
    BY <1>0, <1>1, <1>2, <2>2, <2>3, <2>4, <2>5, <2>6 DEF Classless
<1> QED
  BY <1>3, <1>4

LEMMA ProgressClasses ==
    ASSUME TypeOK, PastViews, ClassesKept, NEW d \in Clusters, Progress(d) \/ Fault(d)
    PROVE  ClassesKept'
<1>1. CASE Start(d)
  <2> SUFFICES ASSUME NEW c \in Clusters PROVE Classless(c)'
    BY DEF ClassesKept
  <2>1. /\ UNCHANGED <<capi, lastUid, fleet, watch, cache>>
        /\ rec'[c] = rec[c] \/ (rec'[c].object = cache[c] /\ cache[c] # None)
    BY <1>1 DEF Start, server, TypeOK
  <2>2. Views(c)' \subseteq Views(c)
    BY <2>1, HeldViews DEF Views
  <2> QED
    BY <2>1, <2>2, ClassRests DEF ClassesKept
<1>2. CASE AddFinalizer(d) \/ RemoveFinalizer(d)
  <2>1. /\ \A c \in Clusters : rec'[c] = rec[c] \/ rec'[c] = None
        /\ UNCHANGED <<cache, fleet, lastUid>>
        /\ rec[d] # None
        /\ \A c \in Clusters \ {d} : rec'[c] = rec[c]
        /\ rec'[d] = None
    BY <1>2 DEF AddFinalizer, RemoveFinalizer, Retry, Finish, At, TypeOK
  <2>2. CASE UNCHANGED <<capi, watch>>
    BY <2>1, <2>2, StepClasses
  <2>3. CASE ~UNCHANGED <<capi, watch>>
    <3>1. /\ capi[d] # None
          /\ \/ Write(d, [capi[d] EXCEPT !.finalizer = TRUE])
             \/ Write(d, [capi[d] EXCEPT !.finalizer = FALSE])
      BY <1>2, <2>3 DEF AddFinalizer, RemoveFinalizer
    <3>2. PICK o :
              /\ Write(d, o)
              /\ \/ o = [capi[d] EXCEPT !.finalizer = TRUE]
                 \/ o = [capi[d] EXCEPT !.finalizer = FALSE]
      BY <3>1
    <3>3. o \in Object /\ o.uid = capi[d].uid /\ o.class = capi[d].class
      BY <3>1, <3>2, ObjectType DEF Object
    <3> QED
      BY <2>1, <3>1, <3>2, <3>3, WriteClasses
  <2> QED
    BY <2>2, <2>3
<1>3. ASSUME rec[d] # None, UNCHANGED <<capi, lastUid, watch, cache, fleet>>,
             \/ Finish(d)
             \/ \E step : Goto(d, step)
             \/ \E step : rec' = [rec EXCEPT ![d].config = config, ![d].step = step]
      PROVE  ClassesKept'
  <2>1. rec[d] \in Reconcile
    BY <1>3 DEF TypeOK
  <2>2. /\ \A c \in Clusters \ {d} : rec'[c] = rec[c]
        /\ rec'[d] = None \/ rec'[d].object = rec[d].object
    BY <1>3, <2>1 DEF Finish, Goto, TypeOK, Reconcile
  <2> QED
    BY <1>3, <2>2, StepClasses
<1>4. CASE PatchMapping(d) \/ PatchGroup(d) \/ AnnotateNamespace(d)
  BY <1>3, <1>4 DEF PatchMapping, PatchGroup, AnnotateNamespace, At
<1>5. CASE ListReferences(d) \/ DeleteMapping(d) \/ ListOthers(d) \/ RemoveAnnotation(d)
  BY <1>3, <1>5 DEF ListReferences, DeleteMapping, ListOthers, RemoveAnnotation, At, server
<1>6. CASE ReadConfig(d) \/ Fault(d)
  BY <1>3, <1>6 DEF ReadConfig, Fault, Retry, At, server
<1> QED
  BY <1>1, <1>2, <1>4, <1>5, <1>6, SyncClasses DEF Progress, Sync, Cleanup

LEMMA NextClasses == TypeOK /\ PastViews /\ ClassesKept /\ [Next]_vars => ClassesKept'
<1> SUFFICES ASSUME TypeOK, PastViews, ClassesKept, [Next]_vars PROVE ClassesKept'
  OBVIOUS
<1>1. CASE UNCHANGED vars
  BY <1>1 DEF vars, ClassesKept, Classless, Views
<1> QED
  BY <1>1, EnvironmentClasses, InformerClasses, ProgressClasses DEF Next

LEMMA InitClasses == Init => ClassesKept
  BY NoneNotObject DEF Init, ClassesKept, Classless

(***************************************************************************)
(* Attended: lemmas.                                                       *)
(***************************************************************************)

\* The watches and the store know as much of the Cluster as before.
LEMMA StillUpToDate ==
    ASSUME NEW c \in Clusters, UpToDate(c), synced' \subseteq synced, synced \subseteq Watches,
           capi'[c] = capi[c], cache'[c] = cache[c],
           \A w \in synced : watch'[w][c] = watch[w][c]
    PROVE  UpToDate(c)'
  BY DEF UpToDate

\* What is right with the Cluster stays right: nothing it depends on changes
\* for the worse, or something is left that will make the controller look.
LEMMA StillAttends ==
    ASSUME NEW c \in Clusters, Attends(c), Unprompted(c)' => Unprompted(c),
           capi'[c] = capi[c], config' = config, rec'[c] = rec[c],
           Unprompted(c)' /\ capi[c] # None /\ MappedNow(c) => MappedNow(c)',
           Unprompted(c)' /\ capi[c] # None /\ FleetNow(c) => FleetNow(c)',
           Unprompted(c)' /\ capi[c] # None /\ GroupedNow(c) => GroupedNow(c)',
           AnnotatedNow(c) => AnnotatedNow(c)'
    PROVE  Attends(c)'
<1>1. Managed(c)' <=> Managed(c)
  BY DEF Managed, Live
<1> QED
  BY <1>1 DEF Attends, Through, Working

\* Only the queue, the events of mappings and other reconciles change, and
\* nothing is taken from them.
LEMMA SameObjects ==
    ASSUME NEW c \in Clusters, capi'[c] = capi[c], fleet'[c] = fleet[c],
           mapping' = mapping, group' = group, annotated \subseteq annotated'
    PROVE  /\ MappedNow(c) => MappedNow(c)'
           /\ FleetNow(c) => FleetNow(c)'
           /\ GroupedNow(c) => GroupedNow(c)'
           /\ AnnotatedNow(c) => AnnotatedNow(c)'
  BY DEF MappedNow, FleetNow, GroupedNow, AnnotatedNow, ClassNamespace

LEMMA StillUnprompted ==
    ASSUME NEW c \in Clusters, UNCHANGED <<rewatch, synced>>, capi'[c] = capi[c],
           \A w \in Watches : watch'[w][c] = watch[w][c],
           mappingEvents \subseteq mappingEvents', c \in queue => c \in queue'
    PROVE  Unprompted(c)' => Unprompted(c)
  BY DEF Unprompted, ClassNamespace

\* The API server stores a new state: a watch that has listed tells of it.
LEMMA WriteAttends ==
    ASSUME TypeOK, Attended, Watches # {}, NEW d \in Clusters, NEW o \in Object, Write(d, o),
           UNCHANGED <<fleet, group, mapping, annotated, config, synced, cache, mappingEvents,
                       rewatch, queue>>,
           \A c \in Clusters \ {d} : rec'[c] = rec[c]
    PROVE  Attended'
<1> SUFFICES ASSUME NEW c \in Clusters PROVE UpToDate(c)' /\ Attends(c)'
  BY DEF Attended
<1>0. UpToDate(c) /\ Attends(c)
  BY DEF Attended
<1> DEFINE e == [type |-> IF Gone(o) THEN "Delete" ELSE "Apply", object |-> o]
<1>1. ASSUME NEW w \in Watches
      PROVE  watch'[w][c] = IF w \in synced /\ d = c THEN Append(watch[w][c], e)
                            ELSE watch[w][c]
  <2>1. watch' = [x \in Watches |->
                    IF x \in synced THEN [watch[x] EXCEPT ![d] = Append(@, e)]
                    ELSE watch[x]]
    BY DEF Write, Notify
  <2>2. watch[w] \in [Clusters -> Seq(Event)]
    BY DEF TypeOK
  <2> HIDE DEF e
  <2> QED
    BY <2>1, <2>2
<1>2. synced \subseteq Watches
  BY DEF TypeOK
<1>3. CASE d # c
  <2>1. capi'[c] = capi[c] /\ \A w \in Watches : watch'[w][c] = watch[w][c]
    BY <1>1, <1>3 DEF Write, TypeOK
  <2> QED
    BY <1>0, <1>2, <1>3, <2>1, StillUpToDate, StillAttends, SameObjects, StillUnprompted
<1>4. CASE d = c
  <2>1. e \in Event
    BY DEF Event
  <2>2. ASSUME NEW w \in synced
        PROVE  watch'[w][c] # <<>> /\ watch'[w][c][Len(watch'[w][c])] = e
    <3>1. watch[w][c] \in Seq(Event) /\ watch'[w][c] = Append(watch[w][c], e)
      BY <1>1, <1>2, <1>4 DEF TypeOK
    <3> HIDE DEF e
    <3> QED
      BY <2>1, <3>1
  <2>3. capi'[c] # None => capi'[c] = o /\ ~Gone(o)
    BY <1>4 DEF Write, TypeOK
  <2>4. UpToDate(c)'
    BY <1>2, <2>2, <2>3, Watches # {} DEF UpToDate
  <2>5. ~Unprompted(c)'
    BY <1>2, <2>2, Watches # {} DEF Unprompted
  <2> QED
    BY <2>4, <2>5 DEF Attends
<1> QED
  BY <1>3, <1>4

(***************************************************************************)
(* Attended: steps of the specification.                                   *)
(***************************************************************************)

LEMMA EnvironmentAttends ==
    ASSUME TypeOK, Attended, Watches # {}, Environment
    PROVE  Attended'
<1>1. ASSUME NEW d \in Clusters,
             \/ CreateCluster(d) \/ InitializeControlPlane(d) \/ DeleteCluster(d)
             \/ ReleaseCluster(d) \/ Rebase(d)
      PROVE  Attended'
  <2>1. UNCHANGED <<fleet, group, mapping, annotated, config, synced, cache, queue, rec,
                    mappingEvents, rewatch>>
    BY <1>1 DEF CreateCluster, InitializeControlPlane, DeleteCluster, ReleaseCluster, Rebase
  <2>2. CASE CreateCluster(d)
    <3>1. PICK class \in ClassesOf[d], foreign \in Foreign :
              Write(d, [uid |-> lastUid[d] + 1, class |-> class, ready |-> FALSE,
                        deleting |-> FALSE, finalizer |-> FALSE, foreign |-> foreign])
      BY <2>2 DEF CreateCluster
    <3>2. lastUid[d] + 1 \in Uids
      BY <2>2, Numbers DEF CreateCluster, Uids, TypeOK
    <3>3. [uid |-> lastUid[d] + 1, class |-> class, ready |-> FALSE,
           deleting |-> FALSE, finalizer |-> FALSE, foreign |-> foreign] \in Object
      BY <3>2, ConstantsAssumption DEF Object
    <3> QED
      BY <2>1, <3>1, <3>3, WriteAttends
  <2>3. CASE ~CreateCluster(d)
    <3>1. capi[d] \in Object
      BY <1>1, <2>3, ObjectType
      DEF InitializeControlPlane, DeleteCluster, ReleaseCluster, Rebase
    <3>2. \/ Write(d, [capi[d] EXCEPT !.ready = TRUE])
          \/ Write(d, [capi[d] EXCEPT !.deleting = TRUE])
          \/ Write(d, [capi[d] EXCEPT !.foreign = FALSE])
          \/ \E class \in Classes : Write(d, [capi[d] EXCEPT !.class = class])
      BY <1>1, <2>3 DEF InitializeControlPlane, DeleteCluster, ReleaseCluster, Rebase
    <3>3. /\ [capi[d] EXCEPT !.ready = TRUE] \in Object
          /\ [capi[d] EXCEPT !.deleting = TRUE] \in Object
          /\ [capi[d] EXCEPT !.foreign = FALSE] \in Object
          /\ \A class \in Classes : [capi[d] EXCEPT !.class = class] \in Object
      BY <3>1 DEF Object
    <3> QED
      BY <2>1, <3>2, <3>3, WriteAttends
  <2> QED
    BY <2>2, <2>3
<1> USE DEF Attended
<1>2. ASSUME UNCHANGED <<capi, annotated, config, synced, watch, cache, rec, rewatch>>,
             mappingEvents \subseteq mappingEvents', queue \subseteq queue',
             \A c \in Clusters : Unprompted(c)' /\ capi[c] # None =>
                /\ MappedNow(c) => MappedNow(c)'
                /\ FleetNow(c) => FleetNow(c)'
                /\ GroupedNow(c) => GroupedNow(c)'
      PROVE  Attended'
  BY <1>2, StillUpToDate, StillAttends, StillUnprompted DEF AnnotatedNow, TypeOK
<1>3. ASSUME Reconfigure PROVE Attended'
  BY <1>3, StillUpToDate DEF Reconfigure, Attends, Unprompted, TypeOK
<1>4. ASSUME NEW d \in Clusters, RemoveFleet(d) \/ CollectFleet(d) PROVE Attended'
  <2>1. /\ UNCHANGED <<capi, annotated, config, synced, watch, cache, rec, rewatch, mappingEvents,
                       mapping, group>>
        /\ queue \subseteq queue'
        /\ \A c \in Clusters : c # d => fleet'[c] = fleet[c]
        /\ fleet[d].owner # None => d \in queue'
    BY <1>4 DEF RemoveFleet, CollectFleet, TypeOK
  <2>2. ASSUME NEW c \in Clusters, capi[c] # None
        PROVE  MappedNow(c)' = MappedNow(c) /\ GroupedNow(c)' = GroupedNow(c)
    BY <2>1 DEF MappedNow, GroupedNow, ClassNamespace
  <2>3. ASSUME NEW c \in Clusters, capi[c] # None, Unprompted(c)', FleetNow(c)
        PROVE  FleetNow(c)'
    <3>1. capi[c].uid # None
      BY <2>3, NoneAssumption DEF TypeOK, Object
    <3>2. c # d
      BY <2>1, <2>3, <3>1 DEF FleetNow, Unprompted
    <3> QED
      BY <2>1, <2>3, <3>2 DEF FleetNow
  <2> QED
    BY <1>2, <2>1, <2>2, <2>3
<1>5. ASSUME NEW g \in Namespaces \X Classes, RemoveGroup(g) \/ CollectGroup(g)
      PROVE  Attended'
  <2>1. /\ UNCHANGED <<capi, annotated, config, synced, watch, cache, rec, rewatch, mappingEvents,
                       mapping, fleet>>
        /\ queue \subseteq queue'
        /\ \A h \in Namespaces \X Classes : h # g => group'[h] = group[h]
        /\ \A o \in group[g] : o \in group'[g] \/ o[1] \in queue' \/ ~Exists(o[1], o[2])
    BY <1>5 DEF RemoveGroup, CollectGroup, TypeOK
  <2>2. ASSUME NEW c \in Clusters, capi[c] # None
        PROVE  MappedNow(c)' = MappedNow(c) /\ FleetNow(c)' = FleetNow(c)
    BY <2>1 DEF MappedNow, FleetNow, ClassNamespace
  <2>3. ASSUME NEW c \in Clusters, capi[c] # None, Unprompted(c)', GroupedNow(c)
        PROVE  GroupedNow(c)'
    <3>1. CASE ClassNamespace(capi[c].class) = None
      BY <2>1, <3>1 DEF GroupedNow, ClassNamespace
    <3>2. CASE ClassNamespace(capi[c].class) # None
      <4>1. <<NsOf[c], capi[c].class>> \in Namespaces \X Classes
        BY <2>3, <3>2, ConstantsAssumption DEF ClassNamespace, TypeOK, Object
      <4>2. <<c, capi[c].uid>> \in group[<<NsOf[c], capi[c].class>>]
        BY <2>3, <3>2 DEF GroupedNow
      <4>3. c \notin queue' /\ Exists(c, capi[c].uid)
        BY <2>3 DEF Unprompted, Exists
      <4>4. <<c, capi[c].uid>> \in group'[<<NsOf[c], capi[c].class>>]
        BY <2>1, <4>1, <4>2, <4>3
      <4> QED
        BY <2>1, <4>4 DEF GroupedNow
    <3> QED
      BY <3>1, <3>2
  <2> QED
    BY <1>2, <2>1, <2>2, <2>3
<1>6. ASSUME NEW m \in mapping, RemoveMapping(m) PROVE Attended'
  <2>1. /\ UNCHANGED <<capi, annotated, config, synced, watch, cache, rec, rewatch, queue,
                       group, fleet>>
        /\ mappingEvents \subseteq mappingEvents'
        /\ mapping' = mapping \ {m} /\ m[1] \in mappingEvents'
    BY <1>6 DEF RemoveMapping, SetMapping
  <2>2. ASSUME NEW c \in Clusters, capi[c] # None
        PROVE  FleetNow(c)' = FleetNow(c) /\ GroupedNow(c)' = GroupedNow(c)
    BY <2>1 DEF FleetNow, GroupedNow, ClassNamespace
  <2>3. ASSUME NEW c \in Clusters, capi[c] # None, Unprompted(c)', MappedNow(c)
        PROVE  MappedNow(c)'
    BY <2>1, <2>3 DEF MappedNow, Unprompted, ClassNamespace
  <2> QED
    BY <1>2, <2>1, <2>2, <2>3
<1> QED
  BY <1>1, <1>3, <1>4, <1>5, <1>6 DEF Environment

\* A list ends with the state of the API server; every other watch that ends or
\* begins is on its way to a list.
LEMMA ListAttends ==
    ASSUME TypeOK, Attended, Watches # {}, NEW w \in Watches, List(w)
    PROVE  Attended'
<1> SUFFICES ASSUME NEW c \in Clusters PROVE UpToDate(c)' /\ Attends(c)'
  BY DEF Attended
<1>0. UpToDate(c)
  BY DEF Attended
<1>1. /\ UNCHANGED <<capi, cache>>
      /\ synced' = synced \cup {w} /\ synced \subseteq Watches
      /\ capi[c] # None =>
            \A v \in Watches : watch'[v][c] =
                IF v = w THEN Append(watch[w][c], [type |-> "Apply", object |-> capi[c]])
                ELSE watch[v][c]
  BY DEF List, server, TypeOK
<1>2. ASSUME capi[c] # None
      PROVE  /\ watch'[w][c] # <<>>
             /\ watch'[w][c][Len(watch'[w][c])] = [type |-> "Apply", object |-> capi[c]]
  <2>1. PICK e \in Event : e = [type |-> "Apply", object |-> capi[c]]
    BY <1>2, ObjectType DEF Event
  <2>2. watch[w][c] \in Seq(Event) /\ watch'[w][c] = Append(watch[w][c], e)
    BY <1>1, <1>2, <2>1 DEF TypeOK
  <2> QED
    BY <2>1, <2>2
<1>3. UpToDate(c)'
  <2>1. ASSUME capi[c] # None, NEW v \in synced', watch'[v][c] # <<>>
        PROVE  watch'[v][c][Len(watch'[v][c])] = [type |-> "Apply", object |-> capi[c]]
    <3>1. CASE v = w
      BY <1>2, <2>1, <3>1
    <3>2. CASE v # w
      BY <1>0, <1>1, <2>1, <3>2 DEF UpToDate
    <3> QED
      BY <3>1, <3>2
  <2> QED
    BY <1>1, <1>2, <2>1 DEF UpToDate
<1>4. capi'[c] # None => ~Unprompted(c)'
  BY <1>1, <1>2 DEF Unprompted
<1> QED
  BY <1>3, <1>4 DEF Attends

\* The first of several events leaves the last one last.
LEMMA LastStays ==
    ASSUME NEW q \in Seq(Event), q # <<>>
    PROVE  IF Len(q) = 1 THEN Tail(q) = <<>> /\ Head(q) = q[Len(q)]
           ELSE Tail(q) # <<>> /\ Tail(q)[Len(Tail(q))] = q[Len(q)]
<1>1. PICK n \in Nat \ {0}, r \in Seq(Event) :
        /\ n = Len(q) /\ Head(q) = q[1]
        /\ r = Tail(q) /\ Len(r) = n - 1 /\ \A i \in 1 .. n - 1 : r[i] = q[i + 1]
  <2>1. /\ Len(q) \in Nat \ {0} /\ Head(q) = q[1]
        /\ Tail(q) \in Seq(Event) /\ Len(Tail(q)) = Len(q) - 1
        /\ \A i \in 1 .. Len(q) - 1 : Tail(q)[i] = q[i + 1]
    OBVIOUS
  <2> QED
    BY <2>1, Zenon
<1>2. CASE n = 1
  <2>1. \A t \in Seq(Event) : Len(t) = 0 => t = <<>>
    BY EmptySeq
  <2>2. r = <<>>
    BY <1>1, <1>2, <2>1
  <2> QED
    BY <1>1, <1>2, <2>2
<1>3. CASE n # 1
  <2>1. n - 1 \in 1 .. n - 1 /\ (n - 1) + 1 = n
    BY <1>3
  <2>2. r[n - 1] = q[n]
    BY <1>1, <2>1
  <2>3. r # <<>>
    BY <1>1, <1>3
  <2> QED
    BY <1>1, <1>3, <2>2, <2>3
<1> QED
  BY <1>2, <1>3

LEMMA DeliverAttends ==
    ASSUME TypeOK, Attended, NEW w \in Watches, NEW d \in Clusters, Deliver(w, d)
    PROVE  Attended'
<1> SUFFICES ASSUME NEW c \in Clusters PROVE UpToDate(c)' /\ Attends(c)'
  BY DEF Attended
<1>0. UpToDate(c) /\ Attends(c) /\ synced \subseteq Watches
  BY DEF Attended, TypeOK
<1>1. /\ UNCHANGED <<capi, config, fleet, mapping, group, annotated, synced, rec,
                     mappingEvents, rewatch>>
      /\ watch[w][d] # <<>>
      /\ queue' = queue \cup {d}
  BY DEF Deliver, server
<1>2. CASE c # d
  <2>1. cache'[c] = cache[c] /\ \A v \in Watches : watch'[v][c] = watch[v][c]
    BY <1>2 DEF Deliver, TypeOK
  <2> QED
    BY <1>0, <1>1, <1>2, <2>1, StillUpToDate, StillAttends, SameObjects, StillUnprompted
<1>3. CASE c = d
  <2>1. /\ watch[w][c] \in Seq(Event)
        /\ watch'[w][c] = Tail(watch[w][c])
        /\ cache'[c] = IF Head(watch[w][c]).type = "Delete" THEN None
                       ELSE Head(watch[w][c]).object
    BY <1>3 DEF Deliver, TypeOK
  <2>2. \A v \in Watches \ {w} : watch'[v][c] = watch[v][c]
    BY DEF Deliver, TypeOK
  <2>3. CASE Len(watch[w][c]) = 1
    <3>1. Tail(watch[w][c]) = <<>> /\ Head(watch[w][c]) = watch[w][c][Len(watch[w][c])]
      BY <1>1, <1>3, <2>1, <2>3, LastStays
    <3>2. capi[c] # None /\ w \in synced => cache'[c] = capi[c]
      BY <1>0, <1>1, <1>3, <2>1, <3>1 DEF UpToDate
    <3>3. UpToDate(c)'
      BY <1>0, <1>1, <2>1, <2>2, <3>1, <3>2 DEF UpToDate
    <3> QED
      BY <1>1, <1>3, <3>3 DEF Attends, Unprompted
  <2>4. CASE Len(watch[w][c]) # 1
    <3>1. /\ Tail(watch[w][c]) # <<>>
          /\ Tail(watch[w][c])[Len(Tail(watch[w][c]))] = watch[w][c][Len(watch[w][c])]
      BY <1>1, <1>3, <2>1, <2>4, LastStays
    <3>2. capi[c] # None /\ w \in synced =>
              watch[w][c][Len(watch[w][c])] = [type |-> "Apply", object |-> capi[c]]
      BY <1>0, <1>1, <1>3 DEF UpToDate
    <3>3. PICK q : q = Tail(watch[w][c])
      OBVIOUS
    <3>4. /\ watch'[w][c] = q /\ q # <<>>
          /\ capi[c] # None /\ w \in synced => q[Len(q)] = [type |-> "Apply", object |-> capi[c]]
      BY <2>1, <3>1, <3>2, <3>3
    <3>5. ASSUME capi[c] # None, NEW v \in synced, watch'[v][c] # <<>>
          PROVE  watch'[v][c][Len(watch'[v][c])] = [type |-> "Apply", object |-> capi[c]]
      <4>1. CASE v = w
        BY <3>4, <3>5, <4>1
      <4>2. CASE v # w
        <5>1. watch'[v][c] = watch[v][c]
          BY <1>0, <2>2, <4>2
        <5> QED
          BY <1>0, <3>5, <5>1 DEF UpToDate
      <4> QED
        BY <4>1, <4>2
    <3>6. UpToDate(c)'
      BY <1>1, <3>4, <3>5 DEF UpToDate
    <3> QED
      BY <1>1, <1>3, <3>6 DEF Attends, Unprompted
  <2> QED
    BY <2>3, <2>4
<1> QED
  BY <1>2, <1>3

LEMMA InformerAttends ==
    ASSUME TypeOK, Attended, Watches # {}, Informer
    PROVE  Attended'
<1>0. \A c \in Clusters : UpToDate(c) /\ Attends(c)
  BY DEF Attended
<1>1. ASSUME UNCHANGED <<capi, watch, cache>>, synced' \subseteq synced,
             synced' # Watches
      PROVE  Attended'
  BY <1>0, <1>1, StillUpToDate DEF Attended, Attends, Unprompted, TypeOK
<1>2. ASSUME NEW w \in Watches, Drop(w) PROVE Attended'
  BY <1>1, <1>2 DEF Drop, server
<1>3. CASE UpdateWatches
  BY <1>1, <1>3, Watches # {} DEF UpdateWatches, server
<1>4. ASSUME NEW w \in Watches, NEW d \in Clusters, Lose(w, d) PROVE Attended'
  <2>1. /\ UNCHANGED <<capi, synced, cache>> /\ synced # Watches
        /\ \A v \in Watches, c \in Clusters : v \in synced => watch'[v][c] = watch[v][c]
    BY <1>4 DEF Lose, server, TypeOK
  <2> QED
    BY <1>0, <2>1, StillUpToDate DEF Attended, Attends, Unprompted, TypeOK
<1>5. CASE Restart
  BY <1>5, Watches # {} DEF Restart, Attended, UpToDate, Attends, Unprompted
<1>6. ASSUME NEW n \in Namespaces, DeliverMapping(n) PROVE Attended'
  <2> SUFFICES ASSUME NEW c \in Clusters PROVE UpToDate(c)' /\ Attends(c)'
    BY DEF Attended
  <2>1. UNCHANGED <<capi, config, fleet, mapping, group, annotated, synced, watch, cache,
                    rec, rewatch>>
    BY <1>6 DEF DeliverMapping, server
  <2>2. ASSUME Unprompted(c)', capi[c] # None PROVE Unprompted(c)
    <3>1. /\ ~rewatch /\ synced = Watches /\ c \notin queue
          /\ \A w \in Watches : watch[w][c] = <<>>
          /\ ClassNamespace(capi[c].class) \notin mappingEvents \/ ClassNamespace(capi[c].class) = n
      BY <1>6, <2>1, <2>2 DEF DeliverMapping, Unprompted, ClassNamespace
    <3>2. cache[c] = capi[c]
      BY <1>0, <2>2, <3>1, Watches # {} DEF UpToDate
    <3>3. ClassNamespace(capi[c].class) # n
      BY <1>6, <2>1, <2>2, <3>2 DEF DeliverMapping, Unprompted
    <3> QED
      BY <3>1, <3>3 DEF Unprompted
  <2>3. Attends(c)'
    <3>1. CASE capi[c] = None
      BY <2>1, <3>1 DEF Attends
    <3>2. CASE capi[c] # None
      BY <1>0, <2>1, <2>2, <3>2, StillAttends, SameObjects
    <3> QED
      BY <3>1, <3>2
  <2> QED
    BY <1>0, <2>1, <2>3, StillUpToDate DEF TypeOK
<1> QED
  BY <1>2, <1>3, <1>4, <1>5, <1>6, ListAttends, DeliverAttends DEF Informer

\* Steps of a reconcile that write no object.
LEMMA StepAttends ==
    ASSUME TypeOK, Attended, NEW d \in Clusters,
           UNCHANGED <<capi, fleet, mapping, group, config, synced, watch, cache,
                       mappingEvents, rewatch>>,
           annotated \subseteq annotated',
           \A c \in Clusters \ {d} : rec'[c] = rec[c] /\ (c \in queue => c \in queue'),
           Attends(d)'
    PROVE  Attended'
<1> SUFFICES ASSUME NEW c \in Clusters PROVE UpToDate(c)' /\ Attends(c)'
  BY DEF Attended
<1>0. UpToDate(c) /\ Attends(c)
  BY DEF Attended
<1>1. UpToDate(c)'
  BY <1>0, StillUpToDate DEF TypeOK
<1>2. CASE c # d
  BY <1>0, <1>1, <1>2, StillAttends, SameObjects, StillUnprompted
<1> QED
  BY <1>1, <1>2

\* A reconcile of a Cluster that nothing prompts, before its step.
LEMMA AtWork ==
    ASSUME TypeOK, PastViews, Attended, NEW c \in Clusters, rec[c] # None,
           capi[c] # None, Unprompted(c)
    PROVE  /\ Working(c) /\ rec[c] \in Reconcile /\ capi[c] \in Object
           /\ capi[c].finalizer = (rec[c].step # "addFinalizer")
           /\ rec[c].step \in SyncSteps => ~capi[c].deleting
           /\ rec[c].step \in CleanupSteps => capi[c].deleting
<1>1. Working(c) /\ rec[c] \in Reconcile /\ capi[c] \in Object
  BY DEF Attended, Attends, TypeOK
<1> QED
  BY <1>1 DEF Working, PastViews, Known, RecShape

LEMMA StartAttends ==
    ASSUME TypeOK, Attended, Watches # {}, NEW d \in Clusters, Start(d)
    PROVE  Attended'
<1>1. /\ UNCHANGED <<capi, fleet, mapping, group, annotated, config, synced, watch, cache,
                     mappingEvents, rewatch>>
      /\ \A c \in Clusters \ {d} : rec'[c] = rec[c] /\ (c \in queue => c \in queue')
      /\ rec[d] = None
  BY DEF Start, server, TypeOK
<1>2. ASSUME Unprompted(d)', capi[d] # None
      PROVE  IF rec'[d] = None THEN Through(d)' ELSE Working(d)'
  <2>1. cache[d] = capi[d]
    BY <1>1, <1>2, Watches # {} DEF Attended, UpToDate, Unprompted
  <2>2. CASE cache[d].deleting /\ ~cache[d].finalizer
    <3>1. capi[d] \in Object /\ capi'[d] = capi[d] /\ rec'[d] = None
      BY <1>1, <1>2, <2>1, <2>2, ObjectType DEF Start
    <3> QED
      BY <2>1, <2>2, <3>1 DEF Through, Managed, Live, Object
  <2>3. CASE ~(cache[d].deleting /\ ~cache[d].finalizer)
    <3>1. /\ rec'[d].step \in {"addFinalizer", "config"}
          /\ rec'[d].object = capi[d] /\ rec'[d] # None
      <4>1. rec'[d] = [step |-> FirstStep(capi[d]), object |-> capi[d], config |-> None]
        BY <1>2, <2>1, <2>3 DEF Start, TypeOK
      <4>2. rec'[d] \in Reconcile
        BY <1>2, <4>1 DEF Reconcile, FirstStep, Steps, TypeOK
      <4> QED
        BY <4>1, <4>2, NoneAssumption DEF FirstStep
    <3> QED
      BY <1>1, <3>1 DEF Working
  <2> QED
    BY <2>2, <2>3
<1>3. Attends(d)'
  BY <1>1, <1>2 DEF Attends
<1> QED
  BY <1>1, <1>3, StepAttends

\* A patch of the finalizers is accepted, or the Cluster is looked at again.
LEMMA PatchAttends ==
    ASSUME TypeOK, Attended, Watches # {}, NEW d \in Clusters,
           AddFinalizer(d) \/ RemoveFinalizer(d) \/ Fault(d)
    PROVE  Attended'
<1>1. /\ UNCHANGED <<fleet, group, mapping, annotated, config, synced, cache, mappingEvents,
                     rewatch>>
      /\ \A c \in Clusters \ {d} : rec'[c] = rec[c]
  BY DEF AddFinalizer, RemoveFinalizer, Fault, Retry, Finish, server, TypeOK
<1>2. CASE d \in queue' /\ UNCHANGED <<capi, watch>> /\ queue' = queue \cup {d}
  <2>1. Attends(d)'
    BY <1>2 DEF Attends, Unprompted
  <2> QED
    BY <1>1, <1>2, <2>1, StepAttends
<1>3. CASE UNCHANGED queue /\ capi[d] # None /\
           \/ Write(d, [capi[d] EXCEPT !.finalizer = TRUE])
           \/ Write(d, [capi[d] EXCEPT !.finalizer = FALSE])
  <2>1. /\ [capi[d] EXCEPT !.finalizer = TRUE] \in Object
        /\ [capi[d] EXCEPT !.finalizer = FALSE] \in Object
    BY <1>3, ObjectType DEF Object
  <2> QED
    BY <1>1, <1>3, <2>1, WriteAttends
<1> QED
  BY <1>2, <1>3 DEF AddFinalizer, RemoveFinalizer, Fault, Retry, server

LEMMA ConfigAttends ==
    ASSUME TypeOK, PastViews, Attended, NEW d \in Clusters, ReadConfig(d)
    PROVE  Attended'
<1>1. /\ UNCHANGED <<capi, fleet, mapping, group, annotated, config, synced, watch, cache,
                     queue, mappingEvents, rewatch>>
      /\ \A c \in Clusters \ {d} : rec'[c] = rec[c]
      /\ rec[d] # None /\ rec[d].step = "config"
  BY DEF ReadConfig, At, Finish, server, TypeOK
<1>2. ASSUME Unprompted(d)', capi[d] # None
      PROVE  IF rec'[d] = None THEN Through(d)' ELSE Working(d)'
  <2>1. Unprompted(d)
    BY <1>1, <1>2, StillUnprompted
  <2>2. /\ rec[d].object = capi[d] /\ rec[d] \in Reconcile /\ capi[d] \in Object
        /\ capi[d].finalizer
    BY <1>1, <1>2, <2>1, AtWork DEF Working
  <2>3. CASE capi[d].deleting \/ Bundled(capi[d], config)
    <3>1. rec' = [rec EXCEPT ![d].config = config,
                             ![d].step = AfterConfig(rec[d].object, config)]
      BY <2>2, <2>3 DEF ReadConfig
    <3>2. /\ rec'[d].object = capi[d] /\ rec'[d].config = config
          /\ rec'[d].step = AfterConfig(capi[d], config)
      BY <2>2, <3>1 DEF TypeOK, Reconcile
    <3>3. rec'[d] # None
      <4>1. rec'[d] = [step |-> AfterConfig(capi[d], config), object |-> capi[d], config |-> config]
        BY <2>2, <3>1 DEF TypeOK, Reconcile
      <4>2. AfterConfig(capi[d], config) \in Steps
        BY <2>2 DEF AfterConfig, Steps, SyncSteps, CleanupSteps, Object
      <4>3. rec'[d] \in Reconcile
        BY <2>2, <4>1, <4>2 DEF Reconcile, TypeOK
      <4> QED
        BY <4>3, NoneAssumption
    <3>4. AfterConfig(capi[d], config) \notin {"fleet", "group", "namespace"}
      BY <2>2 DEF AfterConfig, Object
    <3> QED
      BY <1>1, <3>2, <3>3, <3>4 DEF Working
  <2>4. CASE ~(capi[d].deleting \/ Bundled(capi[d], config))
    <3>1. rec'[d] = None
      BY <2>2, <2>4 DEF ReadConfig, Finish, TypeOK
    <3>2. ~Managed(d)'
      BY <1>1, <2>4 DEF Managed, Live, Bundled
    <3> QED
      BY <1>1, <2>2, <2>4, <3>1, <3>2 DEF Through, Object
  <2> QED
    BY <2>3, <2>4
<1>3. Attends(d)'
  BY <1>1, <1>2 DEF Attends
<1> QED
  BY <1>1, <1>3, StepAttends

LEMMA MappingAttends ==
    ASSUME TypeOK, PastViews, Attended, NEW d \in Clusters, PatchMapping(d)
    PROVE  Attended'
<1>1. /\ UNCHANGED <<capi, fleet, group, annotated, config, synced, watch, cache, queue,
                     rewatch>>
      /\ rec[d] # None /\ rec[d].step = "mapping"
      /\ rec' = [rec EXCEPT ![d].step = "fleet"]
      /\ mapping \subseteq mapping' /\ mappingEvents \subseteq mappingEvents'
  BY DEF PatchMapping, SetMapping, At, Goto
<1> SUFFICES ASSUME NEW c \in Clusters PROVE UpToDate(c)' /\ Attends(c)'
  BY DEF Attended
<1>2. UpToDate(c) /\ Attends(c)
  BY DEF Attended
<1>3. UpToDate(c)'
  BY <1>1, <1>2, StillUpToDate DEF TypeOK
<1>4. Unprompted(c)' => Unprompted(c)
  BY <1>1, StillUnprompted
<1>5. /\ MappedNow(c) => MappedNow(c)'
      /\ FleetNow(c)' = FleetNow(c) /\ GroupedNow(c)' = GroupedNow(c)
      /\ AnnotatedNow(c)' = AnnotatedNow(c)
  BY <1>1 DEF MappedNow, FleetNow, GroupedNow, AnnotatedNow, ClassNamespace
<1>6. CASE c # d
  <2>1. rec'[c] = rec[c]
    BY <1>1, <1>6 DEF TypeOK
  <2> QED
    BY <1>1, <1>2, <1>3, <1>4, <1>5, <2>1, StillAttends
<1>7. CASE c = d
  <2>1. ASSUME Unprompted(c)', capi[c] # None PROVE rec'[c] # None /\ Working(c)'
    <3>1. /\ rec[c].object = capi[c] /\ rec[c].config = config /\ rec[c] \in Reconcile
      BY <1>1, <1>4, <1>7, <2>1, AtWork DEF Working
    <3>2. rec'[c] = [rec[c] EXCEPT !.step = "fleet"]
      BY <1>1, <1>7 DEF TypeOK
    <3>3. /\ rec'[c] # None /\ rec'[c].step = "fleet"
          /\ rec'[c].object = capi[c] /\ rec'[c].config = config
      <4>1. rec'[c] \in Reconcile
        BY <3>1, <3>2 DEF Reconcile, Steps, SyncSteps
      <4> QED
        BY <3>1, <3>2, <4>1, NoneAssumption DEF Reconcile
    <3>4. Managed(c)' => MappedNow(c)'
      BY <1>1, <1>7, <3>1
      DEF Managed, PatchMapping, Grouped, SetMapping, MappedNow, MappingOf, ClassNamespace
    <3> QED
      BY <1>1, <3>3, <3>4 DEF Working
  <2> QED
    BY <1>1, <1>3, <2>1 DEF Attends
<1> QED
  BY <1>6, <1>7

LEMMA FleetAttends ==
    ASSUME TypeOK, PastViews, ClassesKept, Attended, NEW d \in Clusters, SyncFleet(d)
    PROVE  Attended'
<1>1. /\ UNCHANGED <<capi, mapping, group, annotated, config, synced, watch, cache,
                     mappingEvents, rewatch>>
      /\ rec[d] # None /\ rec[d].step = "fleet"
      /\ rec' = [rec EXCEPT ![d].step = "group"]
      /\ queue \subseteq queue'
      /\ fleet'[d] # fleet[d] /\ fleet'[d].owner # None => d \in queue'
      /\ \/ fleet' = [fleet EXCEPT ![d] = DesiredFleet(d)]
         \/ fleet' = fleet /\ (rec[d].config.patchResource => ~FleetDiffers(d))
  BY DEF SyncFleet, At, Goto
<1> SUFFICES ASSUME NEW c \in Clusters PROVE UpToDate(c)' /\ Attends(c)'
  BY DEF Attended
<1>2. UpToDate(c) /\ Attends(c)
  BY DEF Attended
<1>3. UpToDate(c)'
  BY <1>1, <1>2, StillUpToDate DEF TypeOK
<1>4. Unprompted(c)' => Unprompted(c)
  BY <1>1, StillUnprompted
<1>5. /\ MappedNow(c)' = MappedNow(c) /\ GroupedNow(c)' = GroupedNow(c)
      /\ AnnotatedNow(c)' = AnnotatedNow(c)
  BY <1>1 DEF MappedNow, GroupedNow, AnnotatedNow, ClassNamespace
<1>6. CASE c # d
  <2>1. rec'[c] = rec[c] /\ fleet'[c] = fleet[c]
    BY <1>1, <1>6 DEF TypeOK
  <2>2. FleetNow(c) => FleetNow(c)'
    BY <1>1, <2>1 DEF FleetNow
  <2> QED
    BY <1>1, <1>2, <1>3, <1>4, <1>5, <2>1, <2>2, StillAttends
<1>7. CASE c = d
  <2>1. ASSUME Unprompted(c)', capi[c] # None PROVE rec'[c] # None /\ Working(c)'
    <3>1. /\ rec[c].object = capi[c] /\ rec[c].config = config /\ rec[c] \in Reconcile
          /\ capi[c] \in Object
          /\ Managed(c) => MappedNow(c)
      BY <1>1, <1>4, <1>7, <2>1, AtWork DEF Working
    <3>2. rec'[c] = [rec[c] EXCEPT !.step = "group"]
      BY <1>1, <1>7 DEF TypeOK
    <3>3. /\ rec'[c] # None /\ rec'[c].step = "group"
          /\ rec'[c].object = capi[c] /\ rec'[c].config = config
      <4>1. rec'[c] \in Reconcile
        BY <3>1, <3>2 DEF Reconcile, Steps, SyncSteps
      <4> QED
        BY <3>1, <3>2, <4>1, NoneAssumption DEF Reconcile
    <3>4. ASSUME Managed(c) PROVE FleetNow(c)'
      <4>1. config.patchResource /\ config.setOwnerReferences
        BY <3>4 DEF Managed
      <4>2. CASE fleet' = [fleet EXCEPT ![d] = DesiredFleet(d)]
        <5>1. fleet'[c] = [owner |-> capi[c].uid, class |-> capi[c].class]
          BY <1>7, <3>1, <4>1, <4>2 DEF DesiredFleet, TypeOK
        <5>2. fleet'[c] \in FleetCluster
          BY <3>1, <5>1 DEF FleetCluster, Object
        <5> QED
          BY <1>1, <5>1, <5>2, NoneAssumption DEF FleetNow
      <4>3. CASE fleet' = fleet /\ ~FleetDiffers(d)
        <5>1. /\ fleet[c] # None /\ fleet[c].owner = capi[c].uid
              /\ capi[c].class # None => fleet[c].class = capi[c].class
          BY <1>7, <3>1, <4>1, <4>3 DEF FleetDiffers
        <5>2. capi[c].class = None => fleet[c].class = None
          BY <2>1, <5>1 DEF ClassesKept, Classless
        <5> QED
          BY <1>1, <4>3, <5>1, <5>2 DEF FleetNow
      <4> QED
        BY <1>1, <1>7, <3>1, <4>1, <4>2, <4>3
    <3>5. Managed(c)' = Managed(c)
      BY <1>1 DEF Managed, Live
    <3> QED
      BY <1>1, <1>5, <3>1, <3>3, <3>4, <3>5 DEF Working
  <2> QED
    BY <1>1, <1>3, <2>1 DEF Attends
<1> QED
  BY <1>6, <1>7

LEMMA GroupAttends ==
    ASSUME TypeOK, PastViews, Attended, NEW d \in Clusters, PatchGroup(d)
    PROVE  Attended'
<1>1. /\ UNCHANGED <<capi, fleet, mapping, annotated, config, synced, watch, cache,
                     mappingEvents, rewatch>>
      /\ rec[d] # None /\ rec[d].step = "group"
      /\ rec' = [rec EXCEPT ![d].step = "namespace"]
      /\ queue \subseteq queue'
  BY DEF PatchGroup, At, Goto
<1>2. \A g \in Namespaces \X Classes : group[g] \subseteq group'[g]
  BY DEF PatchGroup, TypeOK
<1> SUFFICES ASSUME NEW c \in Clusters PROVE UpToDate(c)' /\ Attends(c)'
  BY DEF Attended
<1>3. UpToDate(c) /\ Attends(c)
  BY DEF Attended
<1>4. UpToDate(c)'
  BY <1>1, <1>3, StillUpToDate DEF TypeOK
<1>5. Unprompted(c)' => Unprompted(c)
  BY <1>1, StillUnprompted
<1>6. capi[c] # None =>
        /\ MappedNow(c)' = MappedNow(c) /\ FleetNow(c)' = FleetNow(c)
        /\ GroupedNow(c) => GroupedNow(c)'
        /\ AnnotatedNow(c)' = AnnotatedNow(c)
  <2>1. ASSUME capi[c] # None, ClassNamespace(capi[c].class) # None
        PROVE  <<NsOf[c], capi[c].class>> \in Namespaces \X Classes
    BY <2>1, ConstantsAssumption DEF ClassNamespace, TypeOK, Object
  <2> QED
    BY <1>1, <1>2, <2>1 DEF MappedNow, FleetNow, GroupedNow, AnnotatedNow, ClassNamespace
<1>7. CASE c # d
  <2>1. rec'[c] = rec[c]
    BY <1>1, <1>7 DEF TypeOK
  <2>2. AnnotatedNow(c)' = AnnotatedNow(c)
    BY <1>1 DEF AnnotatedNow
  <2>3. capi[c] # None => (GroupedNow(c) => GroupedNow(c)')
    BY <1>6
  <2>4. capi[c] # None => MappedNow(c)' = MappedNow(c) /\ FleetNow(c)' = FleetNow(c)
    BY <1>6
  <2>5. Attends(c)'
    BY <1>1, <1>3, <1>5, <2>1, <2>2, <2>3, <2>4, StillAttends
  <2> QED
    BY <1>4, <2>5
<1>8. CASE c = d
  <2>1. ASSUME Unprompted(c)', capi[c] # None PROVE rec'[c] # None /\ Working(c)'
    <3>1. /\ rec[c].object = capi[c] /\ rec[c].config = config /\ rec[c] \in Reconcile
          /\ capi[c] \in Object
          /\ Managed(c) => MappedNow(c) /\ FleetNow(c)
      BY <1>1, <1>5, <1>8, <2>1, AtWork DEF Working
    <3>2. rec'[c] = [rec[c] EXCEPT !.step = "namespace"]
      BY <1>1, <1>8 DEF TypeOK
    <3>3. /\ rec'[c] # None /\ rec'[c].step = "namespace"
          /\ rec'[c].object = capi[c] /\ rec'[c].config = config
      <4>1. rec'[c] \in Reconcile
        BY <3>1, <3>2 DEF Reconcile, Steps, SyncSteps
      <4> QED
        BY <3>1, <3>2, <4>1, NoneAssumption DEF Reconcile
    <3>4. ASSUME Managed(c), ClassNamespace(capi[c].class) # None
          PROVE  <<c, capi[c].uid>> \in group'[<<NsOf[c], capi[c].class>>]
      <4>1. Grouped(c) /\ rec[c].config.patchResource
        BY <3>1, <3>4 DEF Managed, Grouped
      <4>2. GroupOf(c) = <<NsOf[c], capi[c].class>> /\ GroupOf(c) \in Namespaces \X Classes
        BY <1>1, <1>8, <3>1, <4>1, GroupedType DEF GroupOf
      <4>3. <<c, capi[c].uid>> \in group'[GroupOf(c)]
        <5> DEFINE owners == group[GroupOf(c)] \cup {<<c, rec[c].object.uid>>}
        <5>1. \/ group' = [group EXCEPT ![GroupOf(c)] = owners]
              \/ group' = group /\ owners = group[GroupOf(c)]
          BY <1>8, <4>1 DEF PatchGroup
        <5>2. <<c, capi[c].uid>> \in owners
          BY <3>1
        <5>3. group'[GroupOf(c)] = owners
          <6> HIDE DEF owners
          <6> QED
            BY <4>2, <5>1 DEF TypeOK
        <5> QED
          BY <5>2, <5>3
      <4> QED
        BY <4>2, <4>3
    <3>5. Managed(c)' = Managed(c) /\ (Managed(c) => GroupedNow(c)')
      BY <1>1, <3>4 DEF Managed, Live, GroupedNow, ClassNamespace
    <3> QED
      BY <1>1, <1>6, <2>1, <3>1, <3>3, <3>5 DEF Working
  <2> QED
    BY <1>1, <1>4, <2>1 DEF Attends
<1> QED
  BY <1>7, <1>8

LEMMA NamespaceAttends ==
    ASSUME TypeOK, PastViews, Attended, NEW d \in Clusters, AnnotateNamespace(d)
    PROVE  Attended'
<1>1. /\ UNCHANGED <<capi, fleet, mapping, group, config, synced, watch, cache, queue,
                     mappingEvents, rewatch>>
      /\ rec[d] # None /\ rec[d].step = "namespace"
      /\ rec' = [rec EXCEPT ![d] = None]
      /\ annotated' = annotated \cup {NsOf[d]}
  BY DEF AnnotateNamespace, At, Finish
<1>2. \A c \in Clusters \ {d} : rec'[c] = rec[c]
  BY <1>1 DEF TypeOK
<1>3. ASSUME Unprompted(d)', capi[d] # None PROVE rec'[d] = None /\ Through(d)'
  <2>1. Unprompted(d)
    BY <1>1, <1>3, StillUnprompted
  <2>2. /\ capi[d] \in Object /\ capi[d].finalizer /\ ~capi[d].deleting
        /\ Managed(d) => MappedNow(d) /\ FleetNow(d) /\ GroupedNow(d)
    BY <1>1, <1>3, <2>1, AtWork DEF Working, SyncSteps
  <2>3. Managed(d)' = Managed(d) /\ AnnotatedNow(d)'
    BY <1>1 DEF Managed, Live, AnnotatedNow
  <2>4. rec'[d] = None
    BY <1>1 DEF TypeOK
  <2> QED
    BY <1>1, <2>2, <2>3, <2>4, SameObjects DEF Through
<1>4. Attends(d)'
  BY <1>1, <1>3 DEF Attends
<1> QED
  BY <1>1, <1>2, <1>4, StepAttends

\* A cleanup goes on; what it takes from another Cluster, it leaves an event of.
LEMMA CleanupAttends ==
    ASSUME TypeOK, PastViews, Attended, NEW d \in Clusters,
           \/ ListReferences(d) \/ DeleteMapping(d) \/ ListOthers(d) \/ RemoveAnnotation(d)
    PROVE  Attended'
<1>1. /\ UNCHANGED <<capi, fleet, group, config, synced, watch, cache, queue, rewatch>>
      /\ mappingEvents \subseteq mappingEvents'
      /\ \A m \in mapping : m \in mapping' \/ m[1] \in mappingEvents'
      /\ rec[d] # None /\ rec[d].step \in CleanupSteps
  BY DEF ListReferences, DeleteMapping, ListOthers, RemoveAnnotation, SetMapping, At,
         CleanupSteps, server
<1>9. \A n \in annotated : n \in annotated' \/ n = NsOf[d]
  BY DEF ListReferences, DeleteMapping, ListOthers, RemoveAnnotation, server
<1>2. PICK step \in CleanupSteps : rec' = [rec EXCEPT ![d].step = step]
  BY DEF ListReferences, DeleteMapping, ListOthers, RemoveAnnotation, Goto, CleanupSteps
<1> SUFFICES ASSUME NEW c \in Clusters PROVE UpToDate(c)' /\ Attends(c)'
  BY DEF Attended
<1>3. UpToDate(c) /\ Attends(c)
  BY DEF Attended
<1>4. UpToDate(c)'
  BY <1>1, <1>3, StillUpToDate DEF TypeOK
<1>5. Unprompted(c)' => Unprompted(c)
  BY <1>1, StillUnprompted
<1>6. /\ Unprompted(c)' /\ capi[c] # None /\ MappedNow(c) => MappedNow(c)'
      /\ FleetNow(c)' = FleetNow(c) /\ GroupedNow(c)' = GroupedNow(c)
      /\ c # d /\ AnnotatedNow(c) => AnnotatedNow(c)'
  BY <1>1, <1>9 DEF MappedNow, FleetNow, GroupedNow, AnnotatedNow, Alone, ClassNamespace, Unprompted
<1>7. CASE c # d
  <2>1. rec'[c] = rec[c]
    BY <1>2, <1>7 DEF TypeOK
  <2>2. AnnotatedNow(c) => AnnotatedNow(c)'
    BY <1>6, <1>7
  <2>3. Attends(c)'
    BY <1>1, <1>3, <1>5, <1>6, <2>1, <2>2, StillAttends
  <2> QED
    BY <1>4, <2>3
<1>8. CASE c = d
  <2>1. ASSUME Unprompted(c)', capi[c] # None PROVE rec'[c] # None /\ Working(c)'
    <3>1. rec[c].object = capi[c] /\ rec[c].config = config /\ rec[c] \in Reconcile
      BY <1>1, <1>5, <1>8, <2>1, AtWork DEF Working, CleanupSteps
    <3>2. rec'[c] = [rec[c] EXCEPT !.step = step]
      BY <1>2, <1>8 DEF TypeOK
    <3>3. rec'[c] \in Reconcile
      BY <3>1, <3>2 DEF Reconcile, Steps
    <3>4. /\ rec'[c] # None /\ rec'[c].step = step
          /\ rec'[c].object = capi[c] /\ rec'[c].config = config
      BY <3>1, <3>2, <3>3, NoneAssumption DEF Reconcile
    <3>5. step \notin {"fleet", "group", "namespace"}
      BY DEF CleanupSteps
    <3> QED
      BY <1>1, <3>4, <3>5 DEF Working
  <2> QED
    BY <1>1, <1>4, <2>1 DEF Attends
<1> QED
  BY <1>7, <1>8

LEMMA InitAttends == Init => Attended
  BY DEF Init, Attended, UpToDate, Attends

LEMMA NextAttends ==
    ASSUME Watches # {}, TypeOK, PastViews, ClassesKept, Attended, [Next]_vars
    PROVE  Attended'
<1>1. CASE UNCHANGED vars
  <2> SUFFICES ASSUME NEW c \in Clusters PROVE UpToDate(c)' /\ Attends(c)'
    BY DEF Attended
  <2>1. UNCHANGED <<capi, fleet, mapping, group, annotated, config, synced, watch, cache,
                    queue, rec, mappingEvents, rewatch>>
    BY <1>1 DEF vars
  <2> QED
    BY <2>1, StillUpToDate, StillAttends, SameObjects, StillUnprompted DEF Attended, TypeOK
<1>2. ASSUME NEW d \in Clusters, Progress(d) \/ Fault(d) PROVE Attended'
  BY <1>2, StartAttends, PatchAttends, ConfigAttends, MappingAttends, FleetAttends,
     GroupAttends, NamespaceAttends, CleanupAttends
  DEF Progress, Sync, Cleanup
<1> QED
  BY <1>1, <1>2, EnvironmentAttends, InformerAttends DEF Next

(***************************************************************************)
(* The theorems.                                                           *)
(***************************************************************************)

\* Every Cluster is attended to in every reachable state: that it is not as it
\* should be always shows in an event, in the queue or in a reconcile to come
\* (the stores and streams of run_cluster_controller, error_policy).
THEOREM AttendedAlways ==
    ASSUME Watches # {}
    PROVE  Spec => []Attended
<1>1. Init => ClassesKept /\ Attended
  BY InitClasses, InitAttends
<1>2. TypeOK /\ PastViews /\ ClassesKept /\ Attended /\ [Next]_vars
        => ClassesKept' /\ Attended'
  BY Watches # {}, NextClasses, NextAttends
<1> QED
  BY <1>1, <1>2, TypeCorrect, ViewsArePast, PTL DEF Spec

\* Merged as they come (multi_dispatcher.rs), the streams of any number of watches
\* leave the store with the Cluster as it is once they are all delivered.
THEOREM StoreIsCurrent ==
    ASSUME Watches # {}
    PROVE  Spec => []StoreConverges
<1>1. Attended => StoreConverges
  BY DEF Attended, UpToDate, StoreConverges
<1> QED
  BY <1>1, AttendedAlways, PTL

\* A Cluster that nothing prompts the controller to look at, and that it is not
\* at work on, has the finalizer unless it is being deleted: no import and no
\* deletion is forgotten (finalizer() of kube, error_policy, controller.rs).
THEOREM HeldWhenAtRest ==
    ASSUME Watches # {}
    PROVE  Spec => []HeldAtRest
<1>1. Attended => HeldAtRest
  BY DEF Attended, Attends, HeldAtRest, AtRest, Through
<1> QED
  BY <1>1, AttendedAlways, PTL

\* And it is imported as its class and the settings ask at this moment, through
\* faults, restarts, dropped watches, new settings, classes moved to, and what
\* users, the garbage collector and the cleanup of other Clusters remove.
THEOREM ImportedWhenAtRest ==
    ASSUME Watches # {}
    PROVE  Spec => []ImportedAtRest
<1>1. ASSUME Attended, NEW c \in Clusters, AtRest(c), Managed(c) PROVE Imported(c)
  <2>1. Through(c)
    BY <1>1 DEF Attended, Attends, AtRest, Managed, Live
  <2> QED
    BY <1>1, <2>1 DEF Through, MappedNow, FleetNow, GroupedNow, AnnotatedNow, Imported
<1>2. Attended => ImportedAtRest
  BY <1>1 DEF ImportedAtRest
<1> QED
  BY <1>2, AttendedAlways, PTL
================================================================================
