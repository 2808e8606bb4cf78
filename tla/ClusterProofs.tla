------------------------------ MODULE ClusterProofs -----------------------------
(***************************************************************************)
(* Theorems about ClusterController, for every set of Clusters, classes,   *)
(* watches, configurations and bounds.  TypeOK is inductive.  So is        *)
(* PastViews: however many watches tell of a Cluster, and however late,    *)
(* what the controller acts on is a state the Cluster had.  Hence          *)
(* ApplyUnderFinalizer and FinalizerKept.                                  *)
(***************************************************************************)
EXTENDS ClusterController, TLAPS, SequenceTheorems

(***************************************************************************)
(* Types.                                                                  *)
(***************************************************************************)

\* The API server's answer to a write, and the event it causes.
LEMMA WriteType ==
    ASSUME NEW c \in Clusters, NEW o \in Object, TypeOK, Write(c, o)
    PROVE  /\ capi' \in [Clusters -> Object \cup {None}]
           /\ watch' \in [Watches -> [Clusters -> Seq(Event)]]
<1> DEFINE e == [type |-> IF Gone(o) THEN "Delete" ELSE "Apply", object |-> o]
<1>1. capi' \in [Clusters -> Object \cup {None}]
  BY DEF TypeOK, Write
<1>2. e \in Event
  BY DEF Event
<1>3. ASSUME NEW w \in Watches
      PROVE  [watch[w] EXCEPT ![c] = Append(@, e)] \in [Clusters -> Seq(Event)]
  <2>1. watch[w] \in [Clusters -> Seq(Event)]
    BY DEF TypeOK
  <2>2. Append(watch[w][c], e) \in Seq(Event)
    BY <1>2, <2>1
  <2> QED
    BY <2>1, <2>2
<1>4. watch' = [w \in Watches |->
                  IF w \in synced THEN [watch[w] EXCEPT ![c] = Append(@, e)]
                  ELSE watch[w]]
  BY DEF Write, Notify
<1>5. watch' \in [Watches -> [Clusters -> Seq(Event)]]
  <2>1. \A w \in Watches : watch[w] \in [Clusters -> Seq(Event)]
    BY DEF TypeOK
  <2> HIDE DEF e
  <2> QED
    BY <1>3, <1>4, <2>1
<1> QED
  BY <1>1, <1>5

LEMMA MappingType ==
    ASSUME NEW m \in SUBSET (Namespaces \X Namespaces), TypeOK, SetMapping(m)
    PROVE  mapping' \subseteq Namespaces \X Namespaces /\ mappingEvents' \subseteq Namespaces
  BY DEF TypeOK, SetMapping

LEMMA GroupedType ==
    ASSUME NEW c \in Clusters, TypeOK, rec[c] # None, Grouped(c)
    PROVE  MappingOf(c) \in Namespaces \X Namespaces /\ GroupOf(c) \in Namespaces \X Classes
<1>1. rec[c].object.class \in Classes \cup {None}
  BY DEF TypeOK, Reconcile, Object
<1>2. rec[c].object.class \in Classes /\ ClassNs[rec[c].object.class] \in Namespaces
  BY <1>1, ConstantsAssumption DEF Grouped, ClassNamespace
<1>3. NsOf[c] \in Namespaces
  BY ConstantsAssumption
<1> QED
  BY <1>2, <1>3, NoneAssumption DEF MappingOf, GroupOf, ClassNamespace

LEMMA SpendType ==
    ASSUME NEW d, TypeOK, Spend(d)
    PROVE  budget' \in Nat
  BY DEF TypeOK, Spend

LEMMA GotoType ==
    ASSUME NEW c \in Clusters, NEW s \in Steps, TypeOK, rec[c] # None, Goto(c, s)
    PROVE  rec' \in [Clusters -> Reconcile \cup {None}]
<1>1. rec[c] \in Reconcile
  BY DEF TypeOK
<1>2. [rec[c] EXCEPT !.step = s] \in Reconcile
  BY <1>1 DEF Reconcile
<1> QED
  BY <1>2 DEF TypeOK, Goto

LEMMA FinishType ==
    ASSUME NEW c \in Clusters, TypeOK, Finish(c)
    PROVE  rec' \in [Clusters -> Reconcile \cup {None}]
  BY DEF TypeOK, Finish

LEMMA ObjectType ==
    ASSUME NEW c \in Clusters, TypeOK, capi[c] # None
    PROVE  capi[c] \in Object
  BY DEF TypeOK

LEMMA InitType == Init => TypeOK
<1> SUFFICES ASSUME Init PROVE TypeOK
  OBVIOUS
<1>1. watch \in [Watches -> [Clusters -> Seq(Event)]]
  BY DEF Init
<1>2. budget \in Nat
  BY ConstantsAssumption DEF Init
<1>3. lastUid \in [Clusters -> 0 .. MaxUid] /\ config \in Configs
  BY ConstantsAssumption DEF Init
<1>4. group \in [Namespaces \X Classes -> SUBSET (Clusters \X Uids)]
  BY DEF Init
<1>5. /\ capi \in [Clusters -> Object \cup {None}]
      /\ fleet \in [Clusters -> FleetCluster \cup {None}]
      /\ cache \in [Clusters -> Object \cup {None}]
      /\ rec \in [Clusters -> Reconcile \cup {None}]
  BY DEF Init
<1> QED
  BY <1>1, <1>2, <1>3, <1>4, <1>5 DEF Init, TypeOK

\* A step that changes nothing but what the API server and the watches know of
\* one Cluster, and the uid, the reconcile and the queue.
LEMMA WriteKeepsType ==
    ASSUME NEW c \in Clusters, NEW o \in Object, TypeOK, Write(c, o),
           lastUid' \in [Clusters -> 0 .. MaxUid],
           rec' \in [Clusters -> Reconcile \cup {None}],
           queue' \subseteq Clusters,
           budget' \in Nat,
           UNCHANGED <<fleet, group, mapping, annotated, config, synced, cache,
                       mappingEvents, rewatch>>
    PROVE  TypeOK'
<1>1. /\ capi' \in [Clusters -> Object \cup {None}]
      /\ watch' \in [Watches -> [Clusters -> Seq(Event)]]
  BY WriteType
<1> QED
  BY <1>1 DEF TypeOK

LEMMA EnvironmentType == TypeOK /\ Environment => TypeOK'
<1> SUFFICES ASSUME TypeOK, Environment PROVE TypeOK'
  OBVIOUS
<1>0. rec \in [Clusters -> Reconcile \cup {None}] /\ queue \subseteq Clusters
      /\ budget \in Nat /\ lastUid \in [Clusters -> 0 .. MaxUid]
  BY DEF TypeOK
<1>1. ASSUME NEW c \in Clusters, CreateCluster(c) PROVE TypeOK'
  <2>1. PICK class \in ClassesOf[c], foreign \in Foreign :
            Write(c, [uid |-> lastUid[c] + 1, class |-> class, ready |-> FALSE,
                      deleting |-> FALSE, finalizer |-> FALSE, foreign |-> foreign])
    BY <1>1 DEF CreateCluster
  <2>2. lastUid[c] + 1 \in Uids
    BY <1>0, <1>1, ConstantsAssumption DEF CreateCluster, Uids
  <2>3. class \in Classes \cup {None} /\ foreign \in BOOLEAN
    BY ConstantsAssumption
  <2>4. lastUid' \in [Clusters -> 0 .. MaxUid]
    BY <1>0, <1>1, <2>2 DEF CreateCluster, Uids
  <2>5. [uid |-> lastUid[c] + 1, class |-> class, ready |-> FALSE,
         deleting |-> FALSE, finalizer |-> FALSE, foreign |-> foreign] \in Object
    BY <2>2, <2>3 DEF Object
  <2> QED
    BY <1>0, <1>1, <2>1, <2>4, <2>5, WriteKeepsType DEF CreateCluster
<1>2. ASSUME NEW c \in Clusters, InitializeControlPlane(c) PROVE TypeOK'
  <2>1. [capi[c] EXCEPT !.ready = TRUE] \in Object
    BY <1>2, ObjectType DEF InitializeControlPlane, Object
  <2> QED
    BY <1>0, <1>2, <2>1, WriteKeepsType DEF InitializeControlPlane
<1>3. ASSUME NEW c \in Clusters, DeleteCluster(c) PROVE TypeOK'
  <2>1. [capi[c] EXCEPT !.deleting = TRUE] \in Object
    BY <1>3, ObjectType DEF DeleteCluster, Object
  <2> QED
    BY <1>0, <1>3, <2>1, WriteKeepsType DEF DeleteCluster
<1>4. ASSUME NEW c \in Clusters, ReleaseCluster(c) PROVE TypeOK'
  <2>1. [capi[c] EXCEPT !.foreign = FALSE] \in Object
    BY <1>4, ObjectType DEF ReleaseCluster, Object
  <2> QED
    BY <1>0, <1>4, <2>1, WriteKeepsType DEF ReleaseCluster
<1>5. ASSUME NEW c \in Clusters, Rebase(c) PROVE TypeOK'
  <2>1. PICK class \in Classes \ {capi[c].class} :
            Write(c, [capi[c] EXCEPT !.class = class])
    BY <1>5 DEF Rebase
  <2>2. class \in Classes \cup {None}
    OBVIOUS
  <2>3. [capi[c] EXCEPT !.class = class] \in Object
    BY <1>5, <2>2, ObjectType DEF Rebase, Object
  <2>4. budget' \in Nat
    BY <1>5, SpendType DEF Rebase
  <2> QED
    BY <1>0, <1>5, <2>1, <2>3, <2>4, WriteKeepsType DEF Rebase
<1>6. ASSUME NEW c \in Clusters, RemoveFleet(c) PROVE TypeOK'
  <2>1. budget' \in Nat
    BY <1>6, SpendType DEF RemoveFleet
  <2>2. fleet' \in [Clusters -> FleetCluster \cup {None}] /\ queue' \subseteq Clusters
    BY <1>6 DEF RemoveFleet, TypeOK
  <2> QED
    BY <1>6, <2>1, <2>2 DEF RemoveFleet, TypeOK
<1>7. ASSUME NEW c \in Clusters, CollectFleet(c) PROVE TypeOK'
  <2>1. fleet' \in [Clusters -> FleetCluster \cup {None}] /\ queue' \subseteq Clusters
    BY <1>7 DEF CollectFleet, TypeOK
  <2> QED
    BY <1>7, <2>1 DEF CollectFleet, TypeOK
<1>8. ASSUME NEW g \in Namespaces \X Classes, RemoveGroup(g) PROVE TypeOK'
  <2>1. budget' \in Nat
    BY <1>8, SpendType DEF RemoveGroup
  <2>2. group' \in [Namespaces \X Classes -> SUBSET (Clusters \X Uids)]
    BY <1>8 DEF RemoveGroup, TypeOK
  <2>3. queue' \subseteq Clusters
    BY <1>8 DEF RemoveGroup, TypeOK
  <2> QED
    BY <1>8, <2>1, <2>2, <2>3 DEF RemoveGroup, TypeOK
<1>9. ASSUME NEW g \in Namespaces \X Classes, CollectGroup(g) PROVE TypeOK'
  <2> DEFINE live == {o \in group[g] : Exists(o[1], o[2])}
  <2>1. group[g] \subseteq Clusters \X Uids
    BY DEF TypeOK
  <2>2. group' \in [Namespaces \X Classes -> SUBSET (Clusters \X Uids)]
    BY <1>9, <2>1 DEF CollectGroup, TypeOK
  <2>3. queue' \subseteq Clusters
    BY <1>9, <2>1 DEF CollectGroup, TypeOK
  <2> QED
    BY <1>9, <2>2, <2>3 DEF CollectGroup, TypeOK
<1>10. ASSUME NEW m \in mapping, RemoveMapping(m) PROVE TypeOK'
  <2>1. budget' \in Nat
    BY <1>10, SpendType DEF RemoveMapping
  <2>2. mapping' \subseteq Namespaces \X Namespaces /\ mappingEvents' \subseteq Namespaces
    <3>1. mapping \ {m} \in SUBSET (Namespaces \X Namespaces)
      BY DEF TypeOK
    <3> QED
      BY <1>10, <3>1, MappingType DEF RemoveMapping
  <2> QED
    BY <1>10, <2>1, <2>2 DEF RemoveMapping, TypeOK
<1>11. ASSUME Reconfigure PROVE TypeOK'
  <2>1. budget' \in Nat
    BY <1>11, SpendType DEF Reconfigure
  <2> QED
    BY <1>11, <2>1 DEF Reconfigure, TypeOK
<1> QED
  BY <1>1, <1>2, <1>3, <1>4, <1>5, <1>6, <1>7, <1>8, <1>9, <1>10, <1>11 DEF Environment

LEMMA InformerType == TypeOK /\ Informer => TypeOK'
<1> SUFFICES ASSUME TypeOK, Informer PROVE TypeOK'
  OBVIOUS
<1> USE DEF server
<1>0. watch \in [Watches -> [Clusters -> Seq(Event)]]
  BY DEF TypeOK
<1>1. ASSUME NEW w \in Watches, List(w) PROVE TypeOK'
  <2>1. ASSUME NEW c \in Clusters
        PROVE  IF capi[c] = None THEN watch[w][c] \in Seq(Event)
               ELSE Append(watch[w][c], [type |-> "Apply", object |-> capi[c]]) \in Seq(Event)
    <3>1. watch[w][c] \in Seq(Event)
      BY <1>0
    <3>2. capi[c] # None => [type |-> "Apply", object |-> capi[c]] \in Event
      BY ObjectType DEF Event
    <3> QED
      BY <3>1, <3>2
  <2>2. [c \in Clusters |->
           IF capi[c] = None THEN watch[w][c]
           ELSE Append(watch[w][c], [type |-> "Apply", object |-> capi[c]])]
        \in [Clusters -> Seq(Event)]
    BY <2>1
  <2>3. watch' \in [Watches -> [Clusters -> Seq(Event)]]
    BY <1>0, <1>1, <2>2 DEF List
  <2> QED
    BY <1>1, <2>3 DEF List, TypeOK
<1>2. ASSUME NEW w \in Watches, Drop(w) PROVE TypeOK'
  <2>1. budget' \in Nat
    BY <1>2, SpendType DEF Drop
  <2> QED
    BY <1>2, <2>1 DEF Drop, TypeOK
<1>3. ASSUME NEW w \in Watches, NEW c \in Clusters, Lose(w, c) PROVE TypeOK'
  <2>1. watch[w] \in [Clusters -> Seq(Event)] /\ watch[w][c] \in Seq(Event)
    BY <1>0
  <2>2. SubSeq(watch[w][c], 1, Len(watch[w][c]) - 1) \in Seq(Event)
    BY <1>3, <2>1 DEF Lose
  <2>3. watch' = [watch EXCEPT ![w] = [watch[w] EXCEPT ![c] =
                      SubSeq(watch[w][c], 1, Len(watch[w][c]) - 1)]]
    BY <1>0, <1>3 DEF Lose
  <2>4. watch' \in [Watches -> [Clusters -> Seq(Event)]]
    BY <1>0, <2>1, <2>2, <2>3
  <2> QED
    BY <1>3, <2>4 DEF Lose, TypeOK
<1>4. ASSUME NEW w \in Watches, NEW c \in Clusters, Deliver(w, c) PROVE TypeOK'
  <2>1. watch[w] \in [Clusters -> Seq(Event)] /\ watch[w][c] \in Seq(Event)
    BY <1>0
  <2>2. watch[w][c] # <<>>
    BY <1>4 DEF Deliver
  <2>3. Tail(watch[w][c]) \in Seq(Event) /\ Head(watch[w][c]) \in Event
    BY <2>1, <2>2
  <2>4. Head(watch[w][c]).object \in Object
    BY <2>3 DEF Event
  <2>5. cache' \in [Clusters -> Object \cup {None}]
    BY <1>4, <2>4 DEF Deliver, TypeOK
  <2>6. watch' = [watch EXCEPT ![w] = [watch[w] EXCEPT ![c] = Tail(watch[w][c])]]
    BY <1>0, <1>4 DEF Deliver
  <2>7. watch' \in [Watches -> [Clusters -> Seq(Event)]]
    BY <1>0, <2>1, <2>3, <2>6
  <2> QED
    BY <1>4, <2>5, <2>7 DEF Deliver, TypeOK
<1>5. ASSUME NEW n \in Namespaces, DeliverMapping(n) PROVE TypeOK'
  BY <1>5 DEF DeliverMapping, TypeOK
<1>6. ASSUME UpdateWatches PROVE TypeOK'
  BY <1>6 DEF UpdateWatches, TypeOK
<1>7. ASSUME Restart PROVE TypeOK'
  <2>1. budget' \in Nat
    BY <1>7, SpendType DEF Restart
  <2>2. queue' \subseteq Clusters
    <3>1. \A g \in Namespaces \X Classes : group[g] \subseteq Clusters \X Uids
      BY DEF TypeOK
    <3>2. UNION {{o[1] : o \in group[g]} : g \in Namespaces \X Classes} \subseteq Clusters
      BY <3>1
    <3> QED
      BY <1>7, <3>2 DEF Restart
  <2>3. mappingEvents' \subseteq Namespaces
    BY <1>7 DEF Restart, TypeOK
  <2>4. watch' \in [Watches -> [Clusters -> Seq(Event)]]
    BY <1>7 DEF Restart
  <2> QED
    BY <1>7, <2>1, <2>2, <2>3, <2>4 DEF Restart, TypeOK
<1> QED
  BY <1>1, <1>2, <1>3, <1>4, <1>5, <1>6, <1>7 DEF Informer

LEMMA RetryType ==
    ASSUME NEW c \in Clusters, TypeOK, Retry(c)
    PROVE  rec' \in [Clusters -> Reconcile \cup {None}] /\ queue' \subseteq Clusters
  BY FinishType DEF Retry, TypeOK

LEMMA ProgressType ==
    ASSUME TypeOK, NEW c \in Clusters, Progress(c) \/ Fault(c)
    PROVE  TypeOK'
<1> USE DEF server
<1>0. rec \in [Clusters -> Reconcile \cup {None}] /\ queue \subseteq Clusters
      /\ budget \in Nat /\ lastUid \in [Clusters -> 0 .. MaxUid]
  BY DEF TypeOK
<1>1. CASE Start(c)
  <2>1. ASSUME cache[c] # None, ~(cache[c].deleting /\ ~cache[c].finalizer)
        PROVE  [step |-> IF cache[c].finalizer THEN "config" ELSE "addFinalizer",
                object |-> cache[c], config |-> None] \in Reconcile
    BY <2>1 DEF TypeOK, Reconcile, Steps
  <2>2. rec' \in [Clusters -> Reconcile \cup {None}]
    BY <1>0, <1>1, <2>1 DEF Start, FirstStep
  <2> QED
    BY <1>1, <2>2 DEF Start, TypeOK
<1>2. CASE AddFinalizer(c)
  <2>1. CASE Write(c, [capi[c] EXCEPT !.finalizer = TRUE]) /\ Finish(c)
             /\ UNCHANGED queue /\ capi[c] # None
    <3>1. [capi[c] EXCEPT !.finalizer = TRUE] \in Object
      BY <2>1, ObjectType DEF Object
    <3>2. rec' \in [Clusters -> Reconcile \cup {None}]
      BY <2>1, FinishType
    <3> QED
      BY <1>0, <1>2, <2>1, <3>1, <3>2, WriteKeepsType DEF AddFinalizer
  <2>2. CASE Retry(c) /\ UNCHANGED <<capi, watch>>
    BY <1>2, <2>2, RetryType DEF AddFinalizer, TypeOK
  <2> QED
    BY <1>2, <2>1, <2>2 DEF AddFinalizer
<1>3. CASE ReadConfig(c)
  <2>1. rec[c] \in Reconcile
    BY <1>0, <1>3 DEF ReadConfig, At
  <2>2. \A s \in Steps : [rec[c] EXCEPT !.config = config, !.step = s] \in Reconcile
    BY <2>1 DEF TypeOK, Reconcile
  <2>3. \/ Finish(c)
        \/ \E s \in Steps :
                rec' = [rec EXCEPT ![c] = [rec[c] EXCEPT !.config = config, !.step = s]]
    <3>1. AfterConfig(rec[c].object, config) \in Steps
      BY DEF AfterConfig, Steps, SyncSteps, CleanupSteps
    <3> QED
      BY <1>3, <3>1 DEF ReadConfig
  <2>4. rec' \in [Clusters -> Reconcile \cup {None}]
    BY <1>0, <2>2, <2>3, FinishType
  <2> QED
    BY <1>3, <2>4 DEF ReadConfig, TypeOK
<1>4. CASE PatchMapping(c)
  <2>1. rec' \in [Clusters -> Reconcile \cup {None}]
    BY <1>4, GotoType DEF PatchMapping, At, Steps, SyncSteps
  <2>2. mapping' \subseteq Namespaces \X Namespaces /\ mappingEvents' \subseteq Namespaces
    <3>1. CASE Grouped(c) /\ rec[c].config.patchResource
      <4>1. mapping \cup {MappingOf(c)} \in SUBSET (Namespaces \X Namespaces)
        BY <1>4, <3>1, GroupedType DEF PatchMapping, At, TypeOK
      <4> QED
        BY <1>4, <3>1, <4>1, MappingType DEF PatchMapping
    <3>2. CASE ~(Grouped(c) /\ rec[c].config.patchResource)
      BY <1>4, <3>2 DEF PatchMapping, TypeOK
    <3> QED
      BY <3>1, <3>2
  <2> QED
    BY <1>4, <2>1, <2>2 DEF PatchMapping, TypeOK
<1>5. CASE SyncFleet(c)
  <2>1. rec' \in [Clusters -> Reconcile \cup {None}]
    BY <1>5, GotoType DEF SyncFleet, At, Steps, SyncSteps
  <2>2. DesiredFleet(c) \in FleetCluster
    BY <1>0, <1>5 DEF SyncFleet, At, DesiredFleet, FleetCluster, Reconcile, Object
  <2>3. fleet' \in [Clusters -> FleetCluster \cup {None}]
    BY <1>5, <2>2 DEF SyncFleet, TypeOK
  <2>4. queue' \subseteq Clusters
    BY <1>0, <1>5 DEF SyncFleet
  <2> QED
    BY <1>5, <2>1, <2>3, <2>4 DEF SyncFleet, TypeOK
<1>6. CASE PatchGroup(c)
  <2> DEFINE owners == group[GroupOf(c)] \cup {<<c, rec[c].object.uid>>}
  <2>1. rec' \in [Clusters -> Reconcile \cup {None}]
    BY <1>6, GotoType DEF PatchGroup, At, Steps, SyncSteps
  <2>2. group' \in [Namespaces \X Classes -> SUBSET (Clusters \X Uids)]
        /\ queue' \subseteq Clusters
    <3>1. CASE Grouped(c) /\ rec[c].config.patchResource /\ owners # group[GroupOf(c)]
      <4>1. GroupOf(c) \in Namespaces \X Classes
        BY <1>6, <3>1, GroupedType DEF PatchGroup, At
      <4>2. rec[c].object.uid \in Uids
        BY <1>0, <1>6 DEF PatchGroup, At, Reconcile, Object
      <4>3. owners \subseteq Clusters \X Uids
        BY <4>1, <4>2 DEF TypeOK
      <4>4. group' = [group EXCEPT ![GroupOf(c)] = owners]
            /\ queue' = queue \cup {o[1] : o \in owners}
        BY <1>6, <3>1 DEF PatchGroup
      <4> HIDE DEF owners
      <4>5. group' \in [Namespaces \X Classes -> SUBSET (Clusters \X Uids)]
        BY <4>1, <4>3, <4>4 DEF TypeOK
      <4>6. queue' \subseteq Clusters
        BY <1>0, <4>3, <4>4
      <4> QED
        BY <4>5, <4>6
    <3>2. CASE ~(Grouped(c) /\ rec[c].config.patchResource /\ owners # group[GroupOf(c)])
      BY <1>6, <3>2 DEF PatchGroup, TypeOK
    <3> QED
      BY <3>1, <3>2
  <2> QED
    BY <1>6, <2>1, <2>2 DEF PatchGroup, TypeOK
<1>7. CASE AnnotateNamespace(c)
  <2>1. NsOf[c] \in Namespaces
    BY ConstantsAssumption
  <2> QED
    BY <1>7, <2>1, FinishType DEF AnnotateNamespace, TypeOK
<1>8. CASE ListReferences(c)
  BY <1>8, GotoType DEF ListReferences, At, Steps, CleanupSteps, TypeOK
<1>9. CASE DeleteMapping(c)
  <2>1. rec' \in [Clusters -> Reconcile \cup {None}]
    BY <1>9, GotoType DEF DeleteMapping, At, Steps, CleanupSteps
  <2>2. mapping \ {MappingOf(c)} \in SUBSET (Namespaces \X Namespaces)
    BY DEF TypeOK
  <2>3. mapping' \subseteq Namespaces \X Namespaces /\ mappingEvents' \subseteq Namespaces
    BY <1>9, <2>2, MappingType DEF DeleteMapping
  <2> QED
    BY <1>9, <2>1, <2>3 DEF DeleteMapping, TypeOK
<1>10. CASE ListOthers(c)
  BY <1>10, GotoType DEF ListOthers, At, Steps, CleanupSteps, TypeOK
<1>11. CASE RemoveAnnotation(c)
  BY <1>11, GotoType DEF RemoveAnnotation, At, Steps, CleanupSteps, TypeOK
<1>12. CASE RemoveFinalizer(c)
  <2>1. CASE Write(c, [capi[c] EXCEPT !.finalizer = FALSE]) /\ Finish(c)
             /\ UNCHANGED queue /\ capi[c] # None
    <3>1. [capi[c] EXCEPT !.finalizer = FALSE] \in Object
      BY <2>1, ObjectType DEF Object
    <3>2. rec' \in [Clusters -> Reconcile \cup {None}]
      BY <2>1, FinishType
    <3> QED
      BY <1>0, <1>12, <2>1, <3>1, <3>2, WriteKeepsType DEF RemoveFinalizer
  <2>2. CASE Retry(c) /\ UNCHANGED <<capi, watch>>
    BY <1>12, <2>2, RetryType DEF RemoveFinalizer, TypeOK
  <2> QED
    BY <1>12, <2>1, <2>2 DEF RemoveFinalizer
<1>13. CASE Fault(c)
  <2>1. budget' \in Nat
    BY <1>13, SpendType DEF Fault
  <2> QED
    BY <1>13, <2>1, RetryType DEF Fault, TypeOK
<1> QED
  BY <1>1, <1>2, <1>3, <1>4, <1>5, <1>6, <1>7, <1>8, <1>9, <1>10, <1>11, <1>12, <1>13
  DEF Progress, Sync, Cleanup

\* The type invariant holds for every value of the constants: the stores, the
\* reconciles in progress and what they make are what the code can hold, and
\* no Cluster without a class namespace ever gets a mapping or a group.
THEOREM TypeCorrect == Spec => []TypeOK
<1>1. Init => TypeOK
  BY InitType
<1>2. TypeOK /\ [Next]_vars => TypeOK'
  <2> SUFFICES ASSUME TypeOK, [Next]_vars PROVE TypeOK'
    OBVIOUS
  <2>1. CASE Environment
    BY <2>1, EnvironmentType
  <2>2. CASE Informer
    BY <2>2, InformerType
  <2>3. ASSUME NEW c \in Clusters, Progress(c) \/ Fault(c) PROVE TypeOK'
    BY <2>3, ProgressType
  <2>4. CASE UNCHANGED vars
    BY <2>4 DEF vars, TypeOK
  <2> QED
    BY <2>1, <2>2, <2>3, <2>4 DEF Next
<1> QED
  BY <1>1, <1>2, PTL DEF Spec

(***************************************************************************)
(* The views of a Cluster: all that the controller holds of it, in the     *)
(* object of a reconcile, in the store and in events on their way.         *)
(***************************************************************************)

Views(c) ==
    {a \in Object :
        \/ a = cache[c]
        \/ rec[c] # None /\ a = rec[c].object
        \/ \E w \in Watches : \E i \in 1 .. Len(watch[w][c]) : a = watch[w][c][i].object}

\* What the API server has after a write.
Stored(o) == IF Gone(o) THEN None ELSE o

LEMMA NoneNotObject == None \notin Object
  BY NoneAssumption

LEMMA Numbers == Uids \subseteq Nat /\ MaxUid \in Nat
  BY ConstantsAssumption DEF Uids

LEMMA Appended ==
    ASSUME NEW q \in Seq(Event), NEW e \in Event, NEW i \in 1 .. Len(Append(q, e))
    PROVE  (i \in 1 .. Len(q) /\ Append(q, e)[i] = q[i]) \/ Append(q, e)[i] = e
<1>1. /\ Len(Append(q, e)) = Len(q) + 1
      /\ \A j \in 1 .. Len(q) : Append(q, e)[j] = q[j]
      /\ Append(q, e)[Len(q) + 1] = e
      /\ Len(q) \in Nat
  OBVIOUS
<1>2. CASE i = Len(q) + 1
  BY <1>1, <1>2
<1>3. CASE i # Len(q) + 1
  <2>1. i \in 1 .. Len(q)
    BY <1>1, <1>3
  <2> QED
    BY <1>1, <2>1
<1> QED
  BY <1>2, <1>3

LEMMA ButLast ==
    ASSUME NEW q \in Seq(Event), q # <<>>
    PROVE  /\ Len(SubSeq(q, 1, Len(q) - 1)) = Len(q) - 1
           /\ \A i \in 1 .. Len(q) - 1 : SubSeq(q, 1, Len(q) - 1)[i] = q[i]
<1> DEFINE n == Len(q) - 1
<1>1. n \in Nat /\ \A i \in 1 .. n : q[i] \in Event
  OBVIOUS
<1>2. /\ Len(SubSeq(q, 1, n)) = IF 1 <= n THEN n - 1 + 1 ELSE 0
      /\ \A i \in 1 .. n - 1 + 1 : SubSeq(q, 1, n)[i] = q[1 + i - 1]
  <2> HIDE DEF n
  <2> QED
    BY <1>1, SubSeqProperties
<1> HIDE DEF n
<1>3. Len(SubSeq(q, 1, n)) = n /\ \A i \in 1 .. n : SubSeq(q, 1, n)[i] = q[i]
  BY <1>1, <1>2
<1> QED
  BY <1>3 DEF n

\* The events of a watch are views.
LEMMA QueueViews ==
    ASSUME TypeOK, NEW c \in Clusters, NEW w \in Watches, NEW i \in 1 .. Len(watch[w][c])
    PROVE  watch[w][c][i].object \in Views(c)
<1>1. watch[w][c] \in Seq(Event)
  BY DEF TypeOK
<1>2. watch[w][c][i] \in Event
  BY <1>1
<1> QED
  BY <1>2 DEF Views, Event

LEMMA HeldViews ==
    ASSUME TypeOK, NEW c \in Clusters
    PROVE  /\ cache[c] # None => cache[c] \in Views(c)
           /\ rec[c] # None => rec[c].object \in Views(c)
  BY DEF TypeOK, Views, Reconcile

LEMMA SameViews ==
    ASSUME NEW c \in Clusters, cache'[c] = cache[c],
           rec'[c] = None \/ (rec[c] # None /\ rec'[c].object = rec[c].object),
           \A w \in Watches : watch'[w][c] = watch[w][c]
    PROVE  Views(c)' \subseteq Views(c)
  BY DEF Views

\* A write adds what is written to the views of its Cluster.
LEMMA WriteViews ==
    ASSUME TypeOK, NEW d \in Clusters, NEW o \in Object, Write(d, o), UNCHANGED cache,
           NEW c \in Clusters, rec'[c] = rec[c] \/ rec'[c] = None
    PROVE  /\ \A a \in Views(c)' : a \in Views(c) \/ (d = c /\ a = o)
           /\ d # c => capi'[c] = capi[c]
<1>1. PICK e \in Event : /\ e.object = o
                         /\ e = [type |-> IF Gone(o) THEN "Delete" ELSE "Apply", object |-> o]
  <2>1. [type |-> IF Gone(o) THEN "Delete" ELSE "Apply", object |-> o] \in Event
    BY DEF Event
  <2> QED
    BY <2>1
<1>2. ASSUME NEW w \in Watches
      PROVE  watch'[w][c] = IF w \in synced /\ d = c THEN Append(watch[w][c], e)
                            ELSE watch[w][c]
  <2>1. watch' = [x \in Watches |->
                    IF x \in synced THEN [watch[x] EXCEPT ![d] = Append(@, e)]
                    ELSE watch[x]]
    BY <1>1 DEF Write, Notify
  <2>2. watch[w] \in [Clusters -> Seq(Event)]
    BY DEF TypeOK
  <2> QED
    BY <2>1, <2>2
<1>3. ASSUME NEW w \in Watches, NEW i \in 1 .. Len(watch'[w][c])
      PROVE  \/ i \in 1 .. Len(watch[w][c]) /\ watch'[w][c][i] = watch[w][c][i]
             \/ d = c /\ watch'[w][c][i] = e
  <2>1. watch[w][c] \in Seq(Event)
    BY DEF TypeOK
  <2>2. CASE watch'[w][c] = watch[w][c]
    BY <2>2
  <2>3. CASE d = c /\ watch'[w][c] = Append(watch[w][c], e)
    BY <2>1, <2>3, Appended
  <2> QED
    BY <1>2, <2>2, <2>3
<1>4. d # c => capi'[c] = capi[c]
  BY DEF Write, TypeOK
<1> QED
  BY <1>1, <1>3, <1>4 DEF Views

\* The watches add nothing but the state of the API server to the views.
LEMMA InformerViews ==
    ASSUME TypeOK, Informer, NEW c \in Clusters
    PROVE  /\ capi' = capi /\ lastUid' = lastUid
           /\ rec'[c] = rec[c] \/ rec'[c] = None
           /\ \A a \in Views(c)' : a \in Views(c) \/ a = capi[c]
<1> USE DEF server
<1>0. capi' = capi /\ lastUid' = lastUid
  BY DEF Informer, List, Drop, Lose, Deliver, DeliverMapping, UpdateWatches, Restart
<1>1. ASSUME UNCHANGED <<watch, cache, rec>> PROVE Views(c)' \subseteq Views(c)
  BY <1>1 DEF Views
<1>2. ASSUME NEW w \in Watches, List(w)
      PROVE  rec' = rec /\ \A a \in Views(c)' : a \in Views(c) \/ a = capi[c]
  <2>1. /\ UNCHANGED <<cache, rec>>
        /\ \A v \in Watches : watch'[v][c] =
              IF v = w /\ capi[c] # None
              THEN Append(watch[w][c], [type |-> "Apply", object |-> capi[c]])
              ELSE watch[v][c]
    BY <1>2 DEF List, TypeOK
  <2>2. CASE capi[c] = None
    BY <2>1, <2>2 DEF Views
  <2>3. CASE capi[c] # None
    <3>1. PICK e \in Event : e = [type |-> "Apply", object |-> capi[c]] /\ e.object = capi[c]
      <4>1. [type |-> "Apply", object |-> capi[c]] \in Event
        BY <2>3, ObjectType DEF Event
      <4> QED
        BY <4>1
    <3>2. ASSUME NEW v \in Watches, NEW i \in 1 .. Len(watch'[v][c])
          PROVE  \/ i \in 1 .. Len(watch[v][c]) /\ watch'[v][c][i] = watch[v][c][i]
                 \/ watch'[v][c][i] = e
      <4>1. watch[v][c] \in Seq(Event)
        BY DEF TypeOK
      <4>2. CASE watch'[v][c] = watch[v][c]
        BY <4>2
      <4>3. CASE watch'[v][c] = Append(watch[v][c], e)
        BY <4>1, <4>3, Appended
      <4> QED
        BY <2>1, <2>3, <3>1, <4>2, <4>3
    <3> QED
      BY <2>1, <3>1, <3>2 DEF Views
  <2> QED
    BY <2>1, <2>2, <2>3
<1>3. ASSUME NEW w \in Watches, NEW d \in Clusters, Lose(w, d) \/ Deliver(w, d)
      PROVE  rec' = rec /\ Views(c)' \subseteq Views(c)
  <2>1. /\ rec' = rec /\ watch[w][d] # <<>>
        /\ \A v \in Watches : \/ watch'[v][c] = watch[v][c]
                              \/ /\ v = w /\ d = c
                                 /\ \/ watch'[v][c] = Tail(watch[v][c])
                                    \/ watch'[v][c] = SubSeq(watch[v][c], 1, Len(watch[v][c]) - 1)
        /\ \/ cache'[c] = cache[c] \/ cache'[c] = None
           \/ d = c /\ cache'[c] = Head(watch[w][c]).object
    <3>1. CASE Lose(w, d)
      BY <3>1 DEF Lose, TypeOK
    <3>2. CASE Deliver(w, d)
      BY <3>2 DEF Deliver, TypeOK
    <3> QED
      BY <1>3, <3>1, <3>2
  <2>2. ASSUME NEW v \in Watches, NEW i \in 1 .. Len(watch'[v][c])
        PROVE  \E j \in 1 .. Len(watch[v][c]) : watch'[v][c][i] = watch[v][c][j]
    <3>1. watch[v][c] \in Seq(Event)
      BY DEF TypeOK
    <3>2. CASE watch'[v][c] = watch[v][c]
      BY <3>2
    <3>3. CASE v = w /\ d = c /\ watch'[v][c] = Tail(watch[v][c])
      <4>1. i + 1 \in 1 .. Len(watch[v][c]) /\ watch'[v][c][i] = watch[v][c][i + 1]
        BY <2>1, <3>1, <3>3
      <4> QED
        BY <4>1
    <3>4. CASE /\ v = w /\ d = c
               /\ watch'[v][c] = SubSeq(watch[v][c], 1, Len(watch[v][c]) - 1)
      <4>1. i \in 1 .. Len(watch[v][c]) /\ watch'[v][c][i] = watch[v][c][i]
        BY <2>1, <3>1, <3>4, ButLast
      <4> QED
        BY <4>1
    <3> QED
      BY <2>1, <3>2, <3>3, <3>4
  <2>3. d = c => Head(watch[w][c]).object \in Views(c)
    <3>1. watch[w][c] \in Seq(Event)
      BY DEF TypeOK
    <3>2. d = c => Head(watch[w][c]) = watch[w][c][1] /\ 1 \in 1 .. Len(watch[w][c])
      BY <2>1, <3>1
    <3> QED
      BY <3>2, QueueViews
  <2>4. ASSUME NEW a \in Views(c)' PROVE a \in Views(c)
    <3>1. CASE a = cache'[c]
      BY <2>1, <2>3, <2>4, <3>1, NoneNotObject DEF Views
    <3>2. CASE rec'[c] # None /\ a = rec'[c].object
      BY <2>1, <2>4, <3>2 DEF Views
    <3>3. ASSUME NEW v \in Watches, NEW i \in 1 .. Len(watch'[v][c]), a = watch'[v][c][i].object
          PROVE  a \in Views(c)
      BY <2>2, <3>3, QueueViews
    <3> QED
      BY <2>4, <3>1, <3>2, <3>3 DEF Views
  <2> QED
    BY <2>1, <2>4
<1>4. ASSUME Restart PROVE rec'[c] = None /\ Views(c)' \subseteq Views(c)
  <2>1. /\ cache'[c] = None /\ rec'[c] = None /\ \A w \in Watches : watch'[w][c] = <<>>
    BY <1>4 DEF Restart
  <2> QED
    BY <2>1, NoneNotObject DEF Views
<1> QED
  BY <1>0, <1>1, <1>2, <1>3, <1>4
  DEF Informer, Drop, DeliverMapping, UpdateWatches

(***************************************************************************)
(* What the views have in common.                                          *)
(***************************************************************************)

\* What a reconcile at each step was started for.
RecShape(c) ==
    rec[c] # None =>
        /\ rec[c].object.finalizer = (rec[c].step # "addFinalizer")
        /\ rec[c].step \in SyncSteps \cup {"addFinalizer"} => ~rec[c].object.deleting
        /\ rec[c].step \in CleanupSteps => rec[c].object.deleting

\* A view is of the last Cluster of its name or of an earlier one.  If it shows
\* the Cluster that exists being deleted, then it is; and if it shows the first
\* Cluster of the name with the finalizer, then it is held or being deleted.
Past(c, a) ==
    /\ a.uid <= lastUid[c]
    /\ Exists(c, a.uid) /\ a.deleting => capi[c].deleting
    /\ Exists(c, a.uid) /\ lastUid[c] = 1 /\ a.finalizer =>
            capi[c].finalizer \/ capi[c].deleting

\* The Cluster of a name is the last one created.
Known(c) ==
    /\ capi[c] # None => capi[c].uid = lastUid[c]
    /\ \A a \in Views(c) : Past(c, a)
    /\ RecShape(c)

PastViews == \A c \in Clusters : Known(c)

\* Nothing happens to the Cluster, and the controller learns nothing but its state.
LEMMA StillKnown ==
    ASSUME NEW c \in Clusters, Known(c), capi'[c] = capi[c], lastUid'[c] = lastUid[c],
           \A a \in Views(c)' : a \in Views(c) \/ a = capi[c], RecShape(c)',
           capi[c] # None => capi[c].uid \in Nat
    PROVE  Known(c)'
<1>1. ASSUME NEW a \in Views(c)' PROVE Past(c, a)'
  <2>1. a # None
    BY <1>1, NoneNotObject DEF Views
  <2>2. CASE a \in Views(c)
    BY <2>2 DEF Known, Past, Exists
  <2>3. CASE a = capi[c]
    BY <2>1, <2>3 DEF Known, Past, Exists
  <2> QED
    BY <1>1, <2>2, <2>3
<1> QED
  BY <1>1 DEF Known

\* The API server stores a new Cluster, or a new state of the one there is that
\* takes nothing back: not its deletion, nor the finalizer of the first of a name.
NewState(d, o) ==
    \/ /\ capi[d] = None /\ o.uid = lastUid[d] + 1
       /\ ~o.deleting /\ ~o.finalizer
    \/ /\ capi[d] # None /\ o.uid = capi[d].uid
       /\ capi[d].deleting => o.deleting
       /\ capi[d].finalizer => o.finalizer \/ o.deleting \/ lastUid[d] > 1

LEMMA WriteKnown ==
    ASSUME TypeOK, PastViews, NEW d \in Clusters, NEW o \in Object, Write(d, o),
           UNCHANGED cache, NewState(d, o),
           \A c \in Clusters : rec'[c] = rec[c] \/ rec'[c] = None,
           lastUid' = [lastUid EXCEPT ![d] = o.uid]
    PROVE  PastViews'
<1> SUFFICES ASSUME NEW c \in Clusters PROVE Known(c)'
  BY DEF PastViews
<1>0. Known(c)
  BY DEF PastViews
<1>1. /\ \A a \in Views(c)' : a \in Views(c) \/ (d = c /\ a = o)
      /\ d # c => capi'[c] = capi[c]
  BY WriteViews
<1>2. RecShape(c)'
  BY <1>0 DEF Known, RecShape
<1>3. /\ lastUid[c] \in Nat /\ lastUid'[c] = IF d = c THEN o.uid ELSE lastUid[c]
      /\ o.uid \in Nat
  <2>1. lastUid \in [Clusters -> 0 .. MaxUid] /\ MaxUid \in Nat
    BY Numbers DEF TypeOK
  <2>2. o.uid \in Nat
    BY Numbers DEF Object
  <2> QED
    BY <2>1, <2>2
<1>4. CASE d # c
  BY <1>0, <1>1, <1>2, <1>3, <1>4 DEF Known, Past, Exists
<1>5. CASE d = c
  <2>1. capi'[c] = IF Gone(o) THEN None ELSE o
    BY <1>5 DEF Write, TypeOK
  <2>2. ASSUME NEW a \in Views(c) PROVE a.uid \in Nat /\ Past(c, a)
    BY <1>0, Numbers DEF Known, Views, Object
  <2>3. ASSUME NEW a \in Views(c) PROVE Past(c, a)'
    <3>1. CASE capi[c] = None
      BY <1>3, <1>5, <2>1, <2>2, <3>1 DEF NewState, Past, Exists
    <3>2. CASE capi[c] # None
      BY <1>0, <1>3, <1>5, <2>1, <2>2, <3>2 DEF NewState, Past, Exists, Known
    <3> QED
      BY <3>1, <3>2
  <2>4. Past(c, o)'
    BY <1>3, <1>5, <2>1 DEF Past, Exists
  <2> QED
    BY <1>1, <1>2, <1>3, <1>5, <2>1, <2>3, <2>4 DEF Known
<1> QED
  BY <1>4, <1>5

(***************************************************************************)
(* PastViews: the steps of the specification.                              *)
(***************************************************************************)

LEMMA EnvironmentKnown == TypeOK /\ PastViews /\ Environment => PastViews'
<1> SUFFICES ASSUME TypeOK, PastViews, Environment PROVE PastViews'
  OBVIOUS
<1>1. ASSUME NEW d \in Clusters, CreateCluster(d) PROVE PastViews'
  <2>1. PICK class \in ClassesOf[d], foreign \in Foreign :
            Write(d, [uid |-> lastUid[d] + 1, class |-> class, ready |-> FALSE,
                      deleting |-> FALSE, finalizer |-> FALSE, foreign |-> foreign])
    BY <1>1 DEF CreateCluster
  <2>2. PICK o : o = [uid |-> lastUid[d] + 1, class |-> class, ready |-> FALSE,
                      deleting |-> FALSE, finalizer |-> FALSE, foreign |-> foreign]
    OBVIOUS
  <2>3. lastUid[d] + 1 \in Uids
    BY <1>1, Numbers DEF CreateCluster, Uids, TypeOK
  <2>4. /\ o \in Object /\ o.uid = lastUid[d] + 1 /\ ~o.deleting /\ ~o.finalizer
        /\ Write(d, o)
    BY <2>1, <2>2, <2>3, ConstantsAssumption DEF Object
  <2>5. NewState(d, o) /\ UNCHANGED <<cache, rec>> /\ lastUid' = [lastUid EXCEPT ![d] = o.uid]
    BY <1>1, <2>4 DEF CreateCluster, NewState
  <2> QED
    BY <2>4, <2>5, WriteKnown
<1>2. ASSUME NEW d \in Clusters,
             \/ InitializeControlPlane(d) \/ DeleteCluster(d) \/ ReleaseCluster(d) \/ Rebase(d)
      PROVE  PastViews'
  <2>1. /\ capi[d] \in Object /\ capi[d] # None
        /\ UNCHANGED <<cache, rec, lastUid>> /\ capi[d].uid = lastUid[d]
    BY <1>2, ObjectType
    DEF InitializeControlPlane, DeleteCluster, ReleaseCluster, Rebase, PastViews, Known
  <2>2. PICK o :
            /\ Write(d, o)
            /\ \/ o = [capi[d] EXCEPT !.ready = TRUE]
               \/ o = [capi[d] EXCEPT !.deleting = TRUE]
               \/ o = [capi[d] EXCEPT !.foreign = FALSE]
               \/ \E class \in Classes : o = [capi[d] EXCEPT !.class = class]
    BY <1>2 DEF InitializeControlPlane, DeleteCluster, ReleaseCluster, Rebase
  <2>3. /\ o \in Object /\ o.uid = capi[d].uid /\ (capi[d].deleting => o.deleting)
        /\ o.finalizer = capi[d].finalizer
    BY <2>1, <2>2 DEF Object
  <2>4. NewState(d, o) /\ lastUid' = [lastUid EXCEPT ![d] = o.uid]
    BY <2>1, <2>3 DEF NewState, TypeOK
  <2> QED
    BY <2>1, <2>2, <2>3, <2>4, WriteKnown
<1>3. ASSUME UNCHANGED <<capi, lastUid, watch, cache, rec>> PROVE PastViews'
  BY <1>3 DEF PastViews, Known, Past, Exists, Views, RecShape
<1> QED
  BY <1>1, <1>2, <1>3
  DEF Environment, RemoveFleet, CollectFleet, RemoveGroup, CollectGroup, RemoveMapping,
      Reconfigure

LEMMA InformerKnown == TypeOK /\ PastViews /\ Informer => PastViews'
<1> SUFFICES ASSUME TypeOK, PastViews, Informer, NEW c \in Clusters PROVE Known(c)'
  BY DEF PastViews
<1>1. RecShape(c)'
  BY InformerViews DEF PastViews, Known, RecShape
<1>2. capi[c] # None => capi[c].uid \in Nat
  BY Numbers DEF TypeOK, Object
<1> QED
  BY <1>1, <1>2, InformerViews, StillKnown DEF PastViews

\* A reconcile goes on, ends, or begins with what the store has.
LEMMA StepKnown ==
    ASSUME TypeOK, PastViews, NEW d \in Clusters,
           UNCHANGED <<capi, lastUid, watch, cache>>,
           \A c \in Clusters \ {d} : rec'[c] = rec[c],
           \/ rec'[d] = None
           \/ rec[d] # None /\ rec'[d].object = rec[d].object
           \/ cache[d] # None /\ rec'[d].object = cache[d],
           RecShape(d)'
    PROVE  PastViews'
<1> SUFFICES ASSUME NEW c \in Clusters PROVE Known(c)'
  BY DEF PastViews
<1>1. Views(c)' \subseteq Views(c)
  <2>1. CASE c = d
    BY <2>1, HeldViews DEF Views
  <2>2. CASE c # d
    BY <2>2 DEF Views
  <2> QED
    BY <2>1, <2>2
<1>2. RecShape(c)'
  <2>1. c # d => rec'[c] = rec[c] /\ RecShape(c)
    BY DEF PastViews, Known
  <2>2. c # d => RecShape(c)'
    BY <2>1 DEF RecShape
  <2> QED
    BY <2>2
<1>3. capi[c] # None => capi[c].uid \in Nat
  BY Numbers DEF TypeOK, Object
<1> QED
  BY <1>1, <1>2, <1>3, StillKnown DEF PastViews

LEMMA GotoKnown ==
    ASSUME TypeOK, PastViews, NEW c \in Clusters, rec[c] # None,
           UNCHANGED <<capi, lastUid, watch, cache>>, NEW step, Goto(c, step),
           \/ rec[c].step \in SyncSteps /\ step \in SyncSteps
           \/ rec[c].step \in CleanupSteps /\ step \in CleanupSteps
    PROVE  PastViews'
<1>1. rec[c] \in Reconcile
  BY DEF TypeOK
<1>2. rec'[c] = [rec[c] EXCEPT !.step = step] /\ \A d \in Clusters \ {c} : rec'[d] = rec[d]
  BY DEF Goto, TypeOK
<1>3. rec'[c].step = step /\ rec'[c].object = rec[c].object
  BY <1>1, <1>2 DEF Reconcile
<1>4. RecShape(c)
  BY DEF PastViews, Known
<1>5. RecShape(c)'
  BY <1>3, <1>4 DEF RecShape, SyncSteps, CleanupSteps
<1> QED
  BY <1>2, <1>3, <1>5, StepKnown

LEMMA EndKnown ==
    ASSUME TypeOK, PastViews, NEW c \in Clusters, Finish(c),
           UNCHANGED <<capi, lastUid, watch, cache>>
    PROVE  PastViews'
<1>1. rec'[c] = None /\ \A d \in Clusters \ {c} : rec'[d] = rec[d]
  BY DEF Finish, TypeOK
<1> QED
  BY <1>1, StepKnown DEF RecShape

LEMMA StartKnown ==
    ASSUME TypeOK, PastViews, NEW c \in Clusters, Start(c)
    PROVE  PastViews'
<1>1. /\ UNCHANGED <<capi, lastUid, watch, cache>> /\ rec[c] = None
      /\ \A d \in Clusters \ {c} : rec'[d] = rec[d]
  BY DEF Start, server, TypeOK
<1>2. CASE rec' = rec
  BY <1>1, <1>2, StepKnown DEF RecShape
<1>3. CASE rec' # rec
  <2>1. /\ cache[c] # None /\ ~(cache[c].deleting /\ ~cache[c].finalizer)
        /\ rec'[c] = [step |-> FirstStep(cache[c]), object |-> cache[c], config |-> None]
    BY <1>3 DEF Start, TypeOK
  <2>2. rec'[c].step = FirstStep(cache[c]) /\ rec'[c].object = cache[c] /\ cache[c] \in Object
    BY <2>1 DEF TypeOK
  <2>3. RecShape(c)'
    BY <2>1, <2>2 DEF RecShape, FirstStep, SyncSteps, CleanupSteps, Object
  <2> QED
    BY <1>1, <2>1, <2>2, <2>3, StepKnown
<1> QED
  BY <1>2, <1>3

LEMMA ConfigKnown ==
    ASSUME TypeOK, PastViews, NEW c \in Clusters, ReadConfig(c)
    PROVE  PastViews'
<1>1. /\ rec[c] # None /\ rec[c].step = "config" /\ rec[c] \in Reconcile
      /\ UNCHANGED <<capi, lastUid, watch, cache>>
  BY DEF ReadConfig, At, TypeOK, server
<1>2. RecShape(c)
  BY DEF PastViews, Known
<1>3. ASSUME ~Finish(c) PROVE PastViews'
  <2>1. PICK step \in CleanupSteps \cup {"mapping"} :
            /\ rec' = [rec EXCEPT ![c].config = config, ![c].step = step]
            /\ IF rec[c].object.deleting THEN step \in CleanupSteps ELSE step = "mapping"
    BY <1>3 DEF ReadConfig, AfterConfig, CleanupSteps
  <2>2. /\ rec'[c].step = step /\ rec'[c].object = rec[c].object
        /\ \A d \in Clusters \ {c} : rec'[d] = rec[d]
    BY <1>1, <2>1 DEF Reconcile, TypeOK
  <2>3. RecShape(c)'
    BY <1>1, <1>2, <2>1, <2>2 DEF RecShape, SyncSteps, CleanupSteps
  <2> QED
    BY <1>1, <2>2, <2>3, StepKnown
<1> QED
  BY <1>1, <1>3, EndKnown

LEMMA AddKnown ==
    ASSUME TypeOK, PastViews, NEW c \in Clusters, AddFinalizer(c)
    PROVE  PastViews'
<1>1. CASE UNCHANGED <<capi, watch>> /\ Finish(c)
  BY <1>1, EndKnown DEF AddFinalizer
<1>2. CASE /\ capi[c] # None /\ ~capi[c].deleting
           /\ Write(c, [capi[c] EXCEPT !.finalizer = TRUE]) /\ Finish(c)
  <2>1. capi[c] \in Object /\ capi[c].uid = lastUid[c]
    BY <1>2, ObjectType DEF PastViews, Known
  <2>2. PICK o : o = [capi[c] EXCEPT !.finalizer = TRUE]
    OBVIOUS
  <2>3. /\ o \in Object /\ o.uid = capi[c].uid /\ o.deleting = capi[c].deleting
        /\ o.finalizer /\ Write(c, o)
    BY <1>2, <2>1, <2>2 DEF Object
  <2>4. /\ NewState(c, o) /\ UNCHANGED <<cache, lastUid>>
        /\ lastUid' = [lastUid EXCEPT ![c] = o.uid]
        /\ \A d \in Clusters : rec'[d] = rec[d] \/ rec'[d] = None
    BY <1>2, <2>1, <2>3 DEF AddFinalizer, NewState, Finish, TypeOK
  <2> QED
    BY <2>3, <2>4, WriteKnown
<1> QED
  BY <1>1, <1>2 DEF AddFinalizer, Retry

\* A cleanup takes the finalizer from a Cluster being deleted, or from a later one.
LEMMA CleanedUp ==
    ASSUME TypeOK, PastViews, NEW c \in Clusters, RemoveFinalizer(c), capi[c] # None
    PROVE  /\ rec[c] # None /\ rec[c].object.deleting
           /\ capi[c].uid = lastUid[c] /\ capi[c] \in Object
           /\ capi[c].deleting \/ rec[c].object.uid < capi[c].uid
           /\ capi[c].deleting \/ lastUid[c] > 1
<1>1. /\ rec[c] # None /\ rec[c].step = "removeFinalizer" /\ rec[c] \in Reconcile
      /\ Known(c) /\ capi[c] \in Object
  BY DEF RemoveFinalizer, At, PastViews, TypeOK
<1>2. /\ rec[c].object.deleting /\ capi[c].uid = lastUid[c]
      /\ Past(c, rec[c].object)
  BY <1>1, HeldViews DEF Known, RecShape, CleanupSteps
<1>3. rec[c].object.uid \in 1 .. MaxUid /\ lastUid[c] \in Nat /\ MaxUid \in Nat
  BY <1>1, Numbers DEF Reconcile, Object, Uids, TypeOK
<1> QED
  BY <1>1, <1>2, <1>3 DEF Past, Exists

LEMMA RemoveKnown ==
    ASSUME TypeOK, PastViews, NEW c \in Clusters, RemoveFinalizer(c)
    PROVE  PastViews'
<1>1. CASE UNCHANGED <<capi, watch>> /\ Finish(c)
  BY <1>1, EndKnown DEF RemoveFinalizer
<1>2. CASE /\ capi[c] # None
           /\ Write(c, [capi[c] EXCEPT !.finalizer = FALSE]) /\ Finish(c)
  <2>1. /\ capi[c] \in Object /\ capi[c].uid = lastUid[c]
        /\ capi[c].deleting \/ lastUid[c] > 1
    BY <1>2, CleanedUp
  <2>2. PICK o : o = [capi[c] EXCEPT !.finalizer = FALSE]
    OBVIOUS
  <2>3. /\ o \in Object /\ o.uid = capi[c].uid /\ o.deleting = capi[c].deleting
        /\ Write(c, o)
    BY <1>2, <2>1, <2>2 DEF Object
  <2>4. /\ NewState(c, o) /\ UNCHANGED <<cache, lastUid>>
        /\ lastUid' = [lastUid EXCEPT ![c] = o.uid]
        /\ \A d \in Clusters : rec'[d] = rec[d] \/ rec'[d] = None
    BY <1>2, <2>1, <2>3 DEF RemoveFinalizer, NewState, Finish, TypeOK
  <2> QED
    BY <2>3, <2>4, WriteKnown
<1> QED
  BY <1>1, <1>2 DEF RemoveFinalizer, Retry

LEMMA ProgressKnown ==
    ASSUME TypeOK, PastViews, NEW c \in Clusters, Progress(c) \/ Fault(c)
    PROVE  PastViews'
<1>1. ASSUME Sync(c) PROVE PastViews'
  <2>1. /\ rec[c] # None /\ UNCHANGED <<capi, lastUid, watch, cache>>
        /\ rec[c].step \in SyncSteps
        /\ Finish(c) \/ \E step \in SyncSteps : Goto(c, step)
    BY <1>1 DEF Sync, PatchMapping, SyncFleet, PatchGroup, AnnotateNamespace,
                At, SyncSteps
  <2> QED
    BY <2>1, EndKnown, GotoKnown
<1>2. ASSUME Cleanup(c), ~RemoveFinalizer(c) PROVE PastViews'
  <2>1. /\ rec[c] # None /\ UNCHANGED <<capi, lastUid, watch, cache>>
        /\ rec[c].step \in CleanupSteps
        /\ \E step \in CleanupSteps : Goto(c, step)
    BY <1>2 DEF Cleanup, ListReferences, DeleteMapping, ListOthers, RemoveAnnotation,
                At, CleanupSteps, server
  <2> QED
    BY <2>1, GotoKnown
<1>3. ASSUME Fault(c) PROVE PastViews'
  BY <1>3, EndKnown DEF Fault, Retry, server
<1> QED
  BY <1>1, <1>2, <1>3, StartKnown, AddKnown, ConfigKnown, RemoveKnown
  DEF Progress, Cleanup

LEMMA InitKnown == Init => PastViews
<1> SUFFICES ASSUME Init, NEW c \in Clusters PROVE Known(c)
  BY DEF PastViews
<1>1. /\ capi[c] = None /\ cache[c] = None /\ rec[c] = None
      /\ \A w \in Watches : watch[w][c] = <<>>
  BY DEF Init
<1>2. Views(c) = {}
  BY <1>1, NoneNotObject DEF Views
<1> QED
  BY <1>1, <1>2 DEF Known, RecShape

LEMMA NextKnown == TypeOK /\ PastViews /\ [Next]_vars => PastViews'
<1> SUFFICES ASSUME TypeOK, PastViews, [Next]_vars PROVE PastViews'
  OBVIOUS
<1>1. CASE UNCHANGED vars
  BY <1>1 DEF vars, PastViews, Known, Past, Exists, Views, RecShape
<1> QED
  BY <1>1, EnvironmentKnown, InformerKnown, ProgressKnown DEF Next

(***************************************************************************)
(* The theorems.                                                           *)
(***************************************************************************)

\* Whatever the watches, their number and their lag, drops, restarts, lost events
\* and failed calls: what the controller acts on is of a Cluster of the name that
\* was created, and it shows no deletion of the Cluster that exists too early.
THEOREM ViewsArePast == Spec => []PastViews
<1>1. Init => PastViews
  BY InitKnown
<1>2. TypeOK /\ PastViews /\ [Next]_vars => PastViews'
  BY NextKnown
<1> QED
  BY <1>1, <1>2, TypeCorrect, PTL DEF Spec

\* sync() makes nothing for the first Cluster of a name before the finalizer holds
\* it (reconcile of controllers/controller.rs under the finalizer helper): for any
\* number of watches.
THEOREM AppliesUnderFinalizer == Spec => []ApplyUnderFinalizer
<1>1. ASSUME TypeOK, PastViews, NEW c \in Clusters, rec[c] # None,
             rec[c].step \in SyncSteps, Exists(c, rec[c].object.uid), lastUid[c] = 1
      PROVE  capi[c].finalizer \/ capi[c].deleting
  <2>1. rec[c].object.finalizer
    BY <1>1 DEF PastViews, Known, RecShape, SyncSteps
  <2>2. Past(c, rec[c].object)
    BY <1>1, HeldViews DEF PastViews, Known
  <2> QED
    BY <1>1, <2>1, <2>2 DEF Past
<1>2. TypeOK /\ PastViews => ApplyUnderFinalizer
  BY <1>1 DEF ApplyUnderFinalizer
<1> QED
  BY <1>2, ViewsArePast, TypeCorrect, PTL

LEMMA StepKeepsFinalizer ==
    ASSUME TypeOK, PastViews, [Next]_vars, NEW c \in Clusters,
           capi[c] # None, capi[c].finalizer
    PROVE  \/ capi'[c] # None /\ capi'[c].finalizer
           \/ capi[c].deleting
           \/ /\ rec[c] # None /\ rec[c].object.deleting
              /\ rec[c].object.uid < capi[c].uid
<1>1. capi[c] \in Object
  BY ObjectType
<1>2. ASSUME NEW o \in Object, NEW d \in Clusters, Write(d, o),
             d = c => o.finalizer
      PROVE  capi'[c] # None /\ capi'[c].finalizer
  BY <1>2, NoneNotObject DEF Write, Gone, TypeOK
<1>3. ASSUME NEW d \in Clusters, RemoveFinalizer(d)
      PROVE  \/ capi'[c] = capi[c] \/ capi[c].deleting
             \/ /\ rec[c] # None /\ rec[c].object.deleting
                /\ rec[c].object.uid < capi[c].uid
  <2>1. CASE d = c
    BY <1>3, <2>1, CleanedUp
  <2>2. CASE d # c
    BY <1>3, <2>2 DEF RemoveFinalizer, Write, TypeOK
  <2> QED
    BY <2>1, <2>2
<1>4. ASSUME NEW d \in Clusters, CreateCluster(d) PROVE capi'[c] = capi[c]
  BY <1>4 DEF CreateCluster, Write, TypeOK
<1>5. ASSUME NEW d \in Clusters,
             \/ InitializeControlPlane(d) \/ DeleteCluster(d) \/ ReleaseCluster(d)
             \/ Rebase(d) \/ AddFinalizer(d)
      PROVE  capi'[c] # None /\ capi'[c].finalizer
  <2>1. CASE d # c
    <3>1. capi'[c] = capi[c]
      BY <1>5, <2>1 DEF InitializeControlPlane, DeleteCluster, ReleaseCluster, Rebase,
                        AddFinalizer, Write, TypeOK
    <3> QED
      BY <3>1
  <2>2. CASE d = c
    <3>1. CASE UNCHANGED capi
      BY <3>1
    <3>2. CASE ~UNCHANGED capi
      <4>1. \/ Write(c, [capi[c] EXCEPT !.ready = TRUE])
            \/ Write(c, [capi[c] EXCEPT !.deleting = TRUE])
            \/ Write(c, [capi[c] EXCEPT !.foreign = FALSE])
            \/ \E class \in Classes : Write(c, [capi[c] EXCEPT !.class = class])
            \/ Write(c, [capi[c] EXCEPT !.finalizer = TRUE])
        BY <1>5, <2>2, <3>2
        DEF InitializeControlPlane, DeleteCluster, ReleaseCluster, Rebase, AddFinalizer
      <4>3. /\ [capi[c] EXCEPT !.ready = TRUE] \in Object
            /\ [capi[c] EXCEPT !.deleting = TRUE] \in Object
            /\ [capi[c] EXCEPT !.foreign = FALSE] \in Object
            /\ \A class \in Classes : [capi[c] EXCEPT !.class = class] \in Object
            /\ [capi[c] EXCEPT !.finalizer = TRUE] \in Object
        BY <1>1 DEF Object
      <4>4. /\ [capi[c] EXCEPT !.ready = TRUE].finalizer
            /\ [capi[c] EXCEPT !.deleting = TRUE].finalizer
            /\ [capi[c] EXCEPT !.foreign = FALSE].finalizer
            /\ \A class \in Classes : [capi[c] EXCEPT !.class = class].finalizer
            /\ [capi[c] EXCEPT !.finalizer = TRUE].finalizer
        BY <1>1 DEF Object
      <4> QED
        BY <1>2, <4>1, <4>3, <4>4
    <3> QED
      BY <3>1, <3>2
  <2> QED
    BY <2>1, <2>2
<1>6. ASSUME UNCHANGED capi PROVE capi'[c] # None /\ capi'[c].finalizer
  BY <1>6
<1>7. CASE Environment
  BY <1>4, <1>5, <1>6, <1>7
  DEF Environment, RemoveFleet, CollectFleet, RemoveGroup, CollectGroup,
      RemoveMapping, Reconfigure
<1>8. CASE Informer
  BY <1>6, <1>8 DEF Informer, List, Drop, Lose, Deliver, DeliverMapping,
                    UpdateWatches, Restart, server
<1>9. ASSUME NEW d \in Clusters, Progress(d) \/ Fault(d)
      PROVE  \/ capi'[c] # None /\ capi'[c].finalizer
             \/ capi[c].deleting
             \/ /\ rec[c] # None /\ rec[c].object.deleting
                /\ rec[c].object.uid < capi[c].uid
  BY <1>3, <1>5, <1>6, <1>9
  DEF Progress, Sync, Cleanup, Start, ReadConfig, PatchMapping, SyncFleet,
      PatchGroup, AnnotateNamespace, ListReferences, DeleteMapping, ListOthers,
      RemoveAnnotation, Fault, server
<1>10. CASE UNCHANGED vars
  BY <1>6, <1>10 DEF vars
<1> QED
  BY <1>7, <1>8, <1>9, <1>10 DEF Next

\* The finalizer goes only from a Cluster that is being deleted, or with a cleanup
\* of an earlier Cluster of the name, as the patch tests no uid: a first Cluster
\* never loses it before its time, for any number of watches.
THEOREM FinalizerIsKept == Spec => FinalizerKept
<1>1. TypeOK /\ PastViews /\ [Next]_vars =>
        [\A c \in Clusters :
            capi[c] # None /\ capi[c].finalizer =>
                \/ capi'[c] # None /\ capi'[c].finalizer
                \/ capi[c].deleting
                \/ /\ rec[c] # None /\ rec[c].object.deleting
                   /\ rec[c].object.uid < capi[c].uid]_vars
  BY StepKeepsFinalizer
<1> QED
  BY <1>1, ViewsArePast, TypeCorrect, PTL DEF Spec, FinalizerKept
================================================================================
