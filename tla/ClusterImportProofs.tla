-------------------------- MODULE ClusterImportProofs --------------------------
(***************************************************************************)
(* ClusterController implements Import, with any number of watches.  Each  *)
(* write of a Cluster is a change of its phase, and what a sync makes goes *)
(* to a Cluster of the name that was created, the first one under its      *)
(* finalizer: that is PastViews and ApplyUnderFinalizer.                   *)
(***************************************************************************)
EXTENDS ClusterImport, ClusterProofs

(***************************************************************************)
(* The mapping.                                                            *)
(***************************************************************************)

LEMMA Phased ==
    /\ PhaseOf(None) = "absent"
    /\ \A o \in Object :
        /\ ~o.deleting /\ ~o.finalizer => PhaseOf(o) = "new"
        /\ ~o.deleting /\ o.finalizer => PhaseOf(o) = "held"
        /\ o.deleting /\ o.finalizer => PhaseOf(o) = "leaving"
        /\ o.deleting /\ ~o.finalizer => PhaseOf(o) = "released"
  BY NoneNotObject DEF PhaseOf

LEMMA WritePhases ==
    ASSUME TypeOK, NEW c \in Clusters, NEW o \in Object, Write(c, o)
    PROVE  phases' = [phases EXCEPT ![c] = PhaseOf(Stored(o))]
<1>1. \A d \in Clusters : capi'[d] = IF d = c THEN Stored(o) ELSE capi[d]
  BY DEF TypeOK, Write, Stored
<1>2. \A d \in Clusters :
        PhaseOf(capi'[d]) = IF d = c THEN PhaseOf(Stored(o)) ELSE PhaseOf(capi[d])
  BY <1>1
<1>3. phases' = [d \in Clusters |-> PhaseOf(capi'[d])]
  BY DEF phases, PhaseOf
<1> QED
  BY <1>2, <1>3 DEF phases

LEMMA OwnersKept == UNCHANGED <<fleet, group>> => owners' = owners
  BY DEF owners, Owned

LEMMA PhasesKept == UNCHANGED capi => phases' = phases
  BY DEF phases, PhaseOf

\* The Cluster of a name is the last one created.
LastOfItsName == \A c \in Clusters : capi[c] # None => capi[c].uid = lastUid[c]

LEMMA LastInit == Init => LastOfItsName
  BY DEF Init, LastOfItsName

(***************************************************************************)
(* Writes of a Cluster.                                                    *)
(***************************************************************************)

Allowed == Promise!Next \/ UNCHANGED Promise!vars

LEMMA LastWritten ==
    ASSUME TypeOK, LastOfItsName, NEW c \in Clusters, NEW o \in Object, Write(c, o),
           \A d \in Clusters \ {c} : lastUid'[d] = lastUid[d], o.uid = lastUid'[c]
    PROVE  LastOfItsName'
  BY NoneNotObject DEF TypeOK, LastOfItsName, Write

\* A write that leaves deletion and finalizer alone changes nothing, unless the
\* API server had only been waiting for the last finalizer.
LEMMA KeptImports ==
    ASSUME TypeOK, LastOfItsName, NEW c \in Clusters, capi[c] # None,
           NEW o \in Object, Write(c, o),
           o.uid = capi[c].uid, o.deleting = capi[c].deleting,
           o.finalizer = capi[c].finalizer, UNCHANGED <<fleet, group, lastUid>>
    PROVE  Allowed /\ LastOfItsName'
<1>1. capi[c] \in Object
  BY ObjectType
<1>2. phases' = [phases EXCEPT ![c] = PhaseOf(Stored(o))] /\ phases[c] = PhaseOf(capi[c])
  BY WritePhases DEF phases
<1>3. phases \in [Clusters -> {PhaseOf(capi[d]) : d \in Clusters}]
  BY DEF phases
<1>4. owners' = owners
  BY OwnersKept
<1>5. LastOfItsName'
  BY LastWritten DEF LastOfItsName
<1>6. CASE Gone(o)
  <2>1. phases[c] = "released" /\ PhaseOf(Stored(o)) = "absent"
    BY <1>1, <1>2, <1>6, Phased DEF Gone, Stored
  <2>2. Promise!Vanish(c)
    BY <1>2, <1>4, <2>1 DEF Promise!Vanish, Promise!Become
  <2> QED
    BY <1>5, <2>2 DEF Allowed, Promise!Next
<1>7. CASE ~Gone(o)
  <2>1. PhaseOf(Stored(o)) = phases[c]
    BY <1>1, <1>2, <1>7, NoneNotObject DEF Stored, PhaseOf
  <2>2. phases' = phases
    BY <1>2, <1>3, <2>1
  <2> QED
    BY <1>4, <1>5, <2>2 DEF Allowed, Promise!vars
<1> QED
  BY <1>6, <1>7

LEMMA CreateImports ==
    ASSUME TypeOK, LastOfItsName, NEW c \in Clusters, CreateCluster(c)
    PROVE  Allowed /\ LastOfItsName'
<1>1. PICK class \in ClassesOf[c], foreign \in Foreign :
          Write(c, [uid |-> lastUid[c] + 1, class |-> class, ready |-> FALSE,
                    deleting |-> FALSE, finalizer |-> FALSE, foreign |-> foreign])
  BY DEF CreateCluster
<1> DEFINE o == [uid |-> lastUid[c] + 1, class |-> class, ready |-> FALSE,
                 deleting |-> FALSE, finalizer |-> FALSE, foreign |-> foreign]
<1>2. lastUid[c] + 1 \in Uids /\ lastUid' = [lastUid EXCEPT ![c] = @ + 1]
  BY ConstantsAssumption DEF CreateCluster, Uids, TypeOK
<1>3. o \in Object /\ o.uid = lastUid[c] + 1 /\ ~o.deleting /\ ~o.finalizer
  BY <1>2, ConstantsAssumption DEF Object
<1>4. Write(c, o)
  BY <1>1
<1> HIDE DEF o
<1>5. phases' = [phases EXCEPT ![c] = "new"] /\ phases[c] = "absent"
  <2>1. Stored(o) = o /\ PhaseOf(o) = "new"
    BY <1>3, Phased DEF Stored, Gone
  <2>2. phases[c] = "absent"
    BY Phased DEF CreateCluster, phases
  <2> QED
    BY <1>3, <1>4, <2>1, <2>2, WritePhases
<1>6. owners' = owners
  BY OwnersKept DEF CreateCluster
<1>7. Promise!Create(c)
  BY <1>2, <1>5, <1>6 DEF Promise!Create, Promise!Become
<1>8. LastOfItsName'
  <2>1. o.uid = lastUid'[c] /\ \A d \in Clusters \ {c} : lastUid'[d] = lastUid[d]
    BY <1>2, <1>3 DEF TypeOK
  <2> QED
    BY <1>3, <1>4, <2>1, LastWritten
<1> QED
  BY <1>7, <1>8 DEF Allowed, Promise!Next

LEMMA DeleteImports ==
    ASSUME TypeOK, LastOfItsName, NEW c \in Clusters, DeleteCluster(c)
    PROVE  Allowed /\ LastOfItsName'
<1>1. capi[c] \in Object /\ ~capi[c].deleting /\ capi[c] # None
  BY ObjectType DEF DeleteCluster
<1>2. PICK o : o = [capi[c] EXCEPT !.deleting = TRUE]
  OBVIOUS
<1>3. /\ o \in Object /\ o.deleting /\ o.finalizer = capi[c].finalizer
      /\ o.uid = capi[c].uid /\ Write(c, o)
  BY <1>1, <1>2 DEF DeleteCluster, Object
<1>4. UNCHANGED <<lastUid, fleet, group>>
  BY DEF DeleteCluster
<1>5. phases' = [phases EXCEPT ![c] = PhaseOf(Stored(o))] /\ phases[c] = PhaseOf(capi[c])
  BY <1>3, WritePhases DEF phases
<1>6. owners' = owners
  BY <1>4, OwnersKept
<1>7. LastOfItsName'
  BY <1>1, <1>3, <1>4, LastWritten DEF LastOfItsName
<1>8. CASE capi[c].finalizer
  <2>1. phases[c] = "held" /\ PhaseOf(Stored(o)) = "leaving"
    BY <1>1, <1>3, <1>5, <1>8, Phased DEF Stored, Gone
  <2> QED
    BY <1>4, <1>5, <1>6, <1>7, <2>1 DEF Promise!Delete, Promise!Become, Promise!Next, Allowed
<1>9. CASE ~capi[c].finalizer
  <2>1. phases[c] = "new" /\ PhaseOf(Stored(o)) \in {"released", "absent"}
    BY <1>1, <1>3, <1>5, <1>9, Phased DEF Stored, Gone
  <2> QED
    BY <1>4, <1>5, <1>6, <1>7, <2>1 DEF Promise!Delete, Promise!Become, Promise!Next, Allowed
<1> QED
  BY <1>8, <1>9

LEMMA AddImports ==
    ASSUME TypeOK, LastOfItsName, NEW c \in Clusters, AddFinalizer(c)
    PROVE  Allowed /\ LastOfItsName'
<1>1. UNCHANGED <<lastUid, fleet, group>>
  BY DEF AddFinalizer
<1>2. owners' = owners
  BY <1>1, OwnersKept
<1>3. CASE UNCHANGED capi
  BY <1>1, <1>2, <1>3, PhasesKept DEF Allowed, Promise!vars, LastOfItsName
<1>4. CASE /\ capi[c] # None /\ ~capi[c].deleting /\ ~capi[c].finalizer
           /\ Write(c, [capi[c] EXCEPT !.finalizer = TRUE])
  <2>1. capi[c] \in Object
    BY <1>4, ObjectType
  <2>2. PICK o : o = [capi[c] EXCEPT !.finalizer = TRUE]
    OBVIOUS
  <2>3. o \in Object /\ ~o.deleting /\ o.finalizer /\ o.uid = capi[c].uid /\ Write(c, o)
    BY <1>4, <2>1, <2>2 DEF Object
  <2>4. phases' = [phases EXCEPT ![c] = PhaseOf(Stored(o))] /\ phases[c] = PhaseOf(capi[c])
    BY <2>3, WritePhases DEF phases
  <2>5. phases[c] = "new" /\ PhaseOf(Stored(o)) = "held"
    BY <1>4, <2>1, <2>3, <2>4, Phased DEF Stored, Gone
  <2>6. Promise!Hold(c)
    BY <1>1, <1>2, <2>4, <2>5 DEF Promise!Hold, Promise!Become
  <2>7. LastOfItsName'
    BY <1>1, <1>4, <2>3, LastWritten DEF LastOfItsName
  <2> QED
    BY <2>6, <2>7 DEF Allowed, Promise!Next
<1> QED
  BY <1>3, <1>4 DEF AddFinalizer

LEMMA RemoveImports ==
    ASSUME TypeOK, PastViews, LastOfItsName, NEW c \in Clusters, RemoveFinalizer(c)
    PROVE  Allowed /\ LastOfItsName'
<1>1. UNCHANGED <<lastUid, fleet, group>>
  BY DEF RemoveFinalizer
<1>2. owners' = owners
  BY <1>1, OwnersKept
<1>3. CASE UNCHANGED capi
  BY <1>1, <1>2, <1>3, PhasesKept DEF Allowed, Promise!vars, LastOfItsName
<1>4. CASE /\ ~UNCHANGED capi /\ capi[c] # None /\ capi[c].finalizer
           /\ Write(c, [capi[c] EXCEPT !.finalizer = FALSE])
  <2>1. capi[c] \in Object /\ (capi[c].deleting \/ lastUid[c] > 1)
    BY <1>4, CleanedUp
  <2>2. PICK o : o = [capi[c] EXCEPT !.finalizer = FALSE]
    OBVIOUS
  <2>3. /\ o \in Object /\ o.deleting = capi[c].deleting /\ ~o.finalizer
        /\ o.uid = capi[c].uid /\ Write(c, o)
    BY <1>4, <2>1, <2>2 DEF Object
  <2>4. phases' = [phases EXCEPT ![c] = PhaseOf(Stored(o))] /\ phases[c] = PhaseOf(capi[c])
    BY <2>3, WritePhases DEF phases
  <2>5. LastOfItsName'
    BY <1>1, <1>4, <2>3, LastWritten DEF LastOfItsName
  <2>6. CASE capi[c].deleting
    <3>1. phases[c] = "leaving" /\ PhaseOf(Stored(o)) \in {"released", "absent"}
      BY <1>4, <2>1, <2>3, <2>4, <2>6, Phased DEF Stored
    <3>2. Promise!Release(c)
      BY <1>1, <1>2, <2>4, <3>1 DEF Promise!Release, Promise!Become
    <3> QED
      BY <2>5, <3>2 DEF Allowed, Promise!Next
  <2>7. CASE ~capi[c].deleting
    <3>1. phases[c] = "held" /\ PhaseOf(Stored(o)) = "new"
      BY <1>4, <2>1, <2>3, <2>4, <2>7, Phased DEF Stored, Gone
    <3>2. Promise!Strip(c)
      BY <1>1, <1>2, <2>1, <2>4, <2>7, <3>1 DEF Promise!Strip, Promise!Become
    <3> QED
      BY <2>5, <3>2 DEF Allowed, Promise!Next
  <2> QED
    BY <2>6, <2>7
<1> QED
  BY <1>3, <1>4 DEF RemoveFinalizer

(***************************************************************************)
(* Changes of owners.                                                      *)
(***************************************************************************)

LEMMA OwnersType == owners \in [Clusters -> SUBSET Uids]
  BY DEF owners, Owned

\* Objects that only lose owners.
LEMMA DisownImports ==
    ASSUME UNCHANGED <<capi, lastUid>>,
           \A c \in Clusters : (Owned(c))' \subseteq Owned(c)
    PROVE  Promise!Disown
<1>1. owners' \in [Clusters -> SUBSET Uids]
  BY DEF owners, Owned
<1>2. \A c \in Clusters : owners'[c] \subseteq owners[c]
  BY DEF owners
<1> QED
  BY <1>1, <1>2, PhasesKept DEF Promise!Disown

\* An object for the Cluster of a reconcile that syncs.
LEMMA OwnImports ==
    ASSUME TypeOK, PastViews, ApplyUnderFinalizer, UNCHANGED <<capi, lastUid>>,
           NEW c \in Clusters, rec[c] # None, rec[c].step \in SyncSteps,
           NEW kept \in SUBSET Owned(c), (Owned(c))' = kept \cup {rec[c].object.uid},
           \A d \in Clusters \ {c} : (Owned(d))' = Owned(d)
    PROVE  rec[c].object.uid \in Uids /\ Promise!Own(c, rec[c].object.uid)
<1>1. rec[c].object.uid \in Uids /\ rec[c].object.uid <= lastUid[c] /\ lastUid[c] \in Nat
  BY HeldViews, Numbers DEF PastViews, Known, Past, TypeOK, Reconcile, Object
<1>2. lastUid[c] = 1 => phases[c] # "new"
  <2> SUFFICES ASSUME lastUid[c] = 1, capi[c] # None PROVE PhaseOf(capi[c]) # "new"
    BY Phased DEF phases
  <2>1. capi[c] \in Object /\ capi[c].uid = lastUid[c]
    BY ObjectType DEF PastViews, Known
  <2>2. rec[c].object.uid = 1
    BY <1>1 DEF Uids
  <2>3. capi[c].finalizer \/ capi[c].deleting
    BY <2>1, <2>2 DEF ApplyUnderFinalizer, Exists
  <2> QED
    BY <2>1, <2>3, NoneNotObject DEF PhaseOf
<1>3. owners' = [owners EXCEPT ![c] = kept \cup {rec[c].object.uid}]
  BY <1>1 DEF owners
<1>4. kept \in SUBSET owners[c]
  BY DEF owners
<1> QED
  BY <1>1, <1>2, <1>3, <1>4, PhasesKept DEF Promise!Own

LEMMA FleetImports ==
    ASSUME TypeOK, PastViews, ApplyUnderFinalizer, NEW c \in Clusters, SyncFleet(c)
    PROVE  Allowed
<1>1. /\ UNCHANGED <<capi, lastUid, group>>
      /\ rec[c] # None /\ rec[c].step \in SyncSteps /\ rec[c] \in Reconcile
  BY DEF SyncFleet, At, SyncSteps, TypeOK
<1>2. CASE UNCHANGED fleet
  BY <1>1, <1>2, OwnersKept, PhasesKept DEF Allowed, Promise!vars
<1>3. CASE fleet' = [fleet EXCEPT ![c] = DesiredFleet(c)]
  <2>1. \A d \in Clusters \ {c} : (Owned(d))' = Owned(d)
    BY <1>1, <1>3 DEF TypeOK, Owned
  <2>2. fleet'[c] = DesiredFleet(c)
    BY <1>3 DEF TypeOK
  <2>3. rec[c].object.uid \in Uids /\ None \notin FleetCluster
    BY <1>1, NoneAssumption DEF Reconcile, Object
  <2>4. DesiredFleet(c) \in FleetCluster
    BY <1>1 DEF DesiredFleet, FleetCluster, Reconcile, Object
  <2> DEFINE kept == {u \in Uids : \E g \in Namespaces \X Classes : <<c, u>> \in group[g]}
  <2>5. kept \in SUBSET Owned(c)
    BY DEF Owned
  <2>6. (Owned(c))' = kept \cup {u \in Uids : u = DesiredFleet(c).owner}
    BY <1>1, <2>2, <2>3, <2>4 DEF Owned
  <2>7. CASE rec[c].config.setOwnerReferences
    <3>1. DesiredFleet(c).owner = rec[c].object.uid
      BY <2>7 DEF DesiredFleet
    <3>2. (Owned(c))' = kept \cup {rec[c].object.uid}
      BY <2>3, <2>6, <3>1
    <3> HIDE DEF kept
    <3>3. rec[c].object.uid \in Uids /\ Promise!Own(c, rec[c].object.uid)
      BY <1>1, <2>1, <2>5, <3>2, OwnImports
    <3> QED
      BY <3>3 DEF Allowed, Promise!Next
  <2>8. CASE ~rec[c].config.setOwnerReferences
    <3>1. DesiredFleet(c).owner = None
      BY <2>8 DEF DesiredFleet
    <3>2. {u \in Uids : u = DesiredFleet(c).owner} = {}
      BY <3>1, NoneAssumption
    <3>3. \A d \in Clusters : (Owned(d))' \subseteq Owned(d)
      BY <2>1, <2>5, <2>6, <3>2
    <3> QED
      BY <1>1, <3>3, DisownImports DEF Allowed, Promise!Next
  <2> QED
    BY <2>7, <2>8
<1> QED
  BY <1>2, <1>3 DEF SyncFleet

LEMMA GroupImports ==
    ASSUME TypeOK, PastViews, ApplyUnderFinalizer, NEW c \in Clusters, PatchGroup(c)
    PROVE  Allowed
<1>1. /\ UNCHANGED <<capi, lastUid, fleet>>
      /\ rec[c] # None /\ rec[c].step \in SyncSteps /\ rec[c] \in Reconcile
  BY DEF PatchGroup, At, SyncSteps, TypeOK
<1>2. CASE UNCHANGED group
  BY <1>1, <1>2, OwnersKept, PhasesKept DEF Allowed, Promise!vars
<1>3. CASE /\ Grouped(c)
           /\ group' = [group EXCEPT ![GroupOf(c)] =
                          group[GroupOf(c)] \cup {<<c, rec[c].object.uid>>}]
  <2>1. GroupOf(c) \in Namespaces \X Classes
    BY <1>1, <1>3, GroupedType
  <2>2. rec[c].object.uid \in Uids
    BY <1>1 DEF Reconcile, Object
  <2>3. \A g \in Namespaces \X Classes :
          group'[g] = IF g = GroupOf(c) THEN group[g] \cup {<<c, rec[c].object.uid>>}
                      ELSE group[g]
    BY <1>3 DEF TypeOK
  <2>4. \A d \in Clusters : \A u \in Uids :
          (\E g \in Namespaces \X Classes : <<d, u>> \in group'[g]) <=>
            \/ \E g \in Namespaces \X Classes : <<d, u>> \in group[g]
            \/ d = c /\ u = rec[c].object.uid
    <3> SUFFICES ASSUME NEW d \in Clusters, NEW u \in Uids
                 PROVE  (\E g \in Namespaces \X Classes : <<d, u>> \in group'[g]) <=>
                            \/ \E g \in Namespaces \X Classes : <<d, u>> \in group[g]
                            \/ <<d, u>> = <<c, rec[c].object.uid>>
      OBVIOUS
    <3> DEFINE owner == <<c, rec[c].object.uid>>
               own == <<d, u>>
               Groups == Namespaces \X Classes
    <3>1. \A g \in Groups :
            group'[g] = IF g = GroupOf(c) THEN group[g] \cup {owner} ELSE group[g]
      BY <2>3
    <3>2. GroupOf(c) \in Groups
      BY <2>1
    <3> HIDE DEF owner, own, Groups
    <3>3. \A g \in Groups :
            (own \in group'[g]) <=> (own \in group[g] \/ (g = GroupOf(c) /\ own = owner))
      BY <3>1
    <3>4. (\E g \in Groups : own \in group'[g]) <=>
            ((\E g \in Groups : own \in group[g]) \/ own = owner)
      BY <3>2, <3>3
    <3> QED
      BY <3>4 DEF owner, own, Groups
  <2>5. (Owned(c))' = Owned(c) \cup {rec[c].object.uid}
    BY <1>1, <2>2, <2>4 DEF Owned
  <2>6. \A d \in Clusters \ {c} : (Owned(d))' = Owned(d)
    BY <1>1, <2>4 DEF Owned
  <2>7. rec[c].object.uid \in Uids /\ Promise!Own(c, rec[c].object.uid)
    BY <1>1, <2>5, <2>6, OwnImports
  <2> QED
    BY <2>7 DEF Allowed, Promise!Next
<1> QED
  BY <1>2, <1>3 DEF PatchGroup

\* Removals of objects, by users and by the garbage collector.
LEMMA LossImports ==
    ASSUME TypeOK, UNCHANGED <<capi, lastUid>>,
           \A c \in Clusters : fleet'[c] = fleet[c] \/ fleet'[c] = None,
           \A g \in Namespaces \X Classes : group'[g] \subseteq group[g]
    PROVE  Allowed
<1>1. \A c \in Clusters : (Owned(c))' \subseteq Owned(c)
  BY DEF Owned
<1> QED
  BY <1>1, DisownImports DEF Allowed, Promise!Next

LEMMA EnvironmentImports ==
    ASSUME TypeOK, LastOfItsName, Environment
    PROVE  Allowed /\ LastOfItsName'
<1>1. ASSUME NEW c \in Clusters,
             InitializeControlPlane(c) \/ ReleaseCluster(c) \/ Rebase(c)
      PROVE  Allowed /\ LastOfItsName'
  <2>1. capi[c] # None /\ capi[c] \in Object /\ UNCHANGED <<fleet, group, lastUid>>
    BY <1>1, ObjectType DEF InitializeControlPlane, ReleaseCluster, Rebase
  <2>2. PICK o \in Object : /\ Write(c, o)
                            /\ o.uid = capi[c].uid /\ o.deleting = capi[c].deleting
                            /\ o.finalizer = capi[c].finalizer
    <3>1. CASE InitializeControlPlane(c)
      <4>1. /\ [capi[c] EXCEPT !.ready = TRUE] \in Object
            /\ Write(c, [capi[c] EXCEPT !.ready = TRUE])
        BY <2>1, <3>1 DEF InitializeControlPlane, Object
      <4> QED
        BY <2>1, <4>1 DEF Object
    <3>2. CASE ReleaseCluster(c)
      <4>1. /\ [capi[c] EXCEPT !.foreign = FALSE] \in Object
            /\ Write(c, [capi[c] EXCEPT !.foreign = FALSE])
        BY <2>1, <3>2 DEF ReleaseCluster, Object
      <4> QED
        BY <2>1, <4>1 DEF Object
    <3>3. CASE Rebase(c)
      <4>1. PICK class \in Classes : Write(c, [capi[c] EXCEPT !.class = class])
        BY <3>3 DEF Rebase
      <4>2. [capi[c] EXCEPT !.class = class] \in Object
        BY <2>1 DEF Object
      <4> QED
        BY <2>1, <4>1, <4>2 DEF Object
    <3> QED
      BY <1>1, <3>1, <3>2, <3>3
  <2> QED
    BY <2>1, <2>2, KeptImports
<1>2. ASSUME NEW c \in Clusters, RemoveFleet(c) \/ CollectFleet(c)
      PROVE  Allowed /\ LastOfItsName'
  <2>1. UNCHANGED <<capi, lastUid, group>> /\ fleet' = [fleet EXCEPT ![c] = None]
    BY <1>2 DEF RemoveFleet, CollectFleet
  <2> QED
    BY <2>1, LossImports DEF LastOfItsName, TypeOK
<1>3. ASSUME NEW g \in Namespaces \X Classes, RemoveGroup(g) \/ CollectGroup(g)
      PROVE  Allowed /\ LastOfItsName'
  <2>1. UNCHANGED <<capi, lastUid, fleet>>
    BY <1>3 DEF RemoveGroup, CollectGroup
  <2>2. \E kept \in SUBSET group[g] : group' = [group EXCEPT ![g] = kept]
    BY <1>3 DEF RemoveGroup, CollectGroup
  <2>3. \A h \in Namespaces \X Classes : group'[h] \subseteq group[h]
    BY <2>2 DEF TypeOK
  <2> QED
    BY <2>1, <2>3, LossImports DEF LastOfItsName
<1>4. ASSUME UNCHANGED <<capi, lastUid, fleet, group>> PROVE Allowed /\ LastOfItsName'
  BY <1>4, OwnersKept, PhasesKept DEF Allowed, Promise!vars, LastOfItsName
<1> QED
  BY <1>1, <1>2, <1>3, <1>4, CreateImports, DeleteImports
  DEF Environment, RemoveMapping, Reconfigure

LEMMA NextImports ==
    ASSUME TypeOK, PastViews, ApplyUnderFinalizer, LastOfItsName, [Next]_vars
    PROVE  Allowed /\ LastOfItsName'
<1>1. ASSUME UNCHANGED <<capi, lastUid, fleet, group>> PROVE Allowed /\ LastOfItsName'
  BY <1>1, OwnersKept, PhasesKept DEF Allowed, Promise!vars, LastOfItsName
<1>2. CASE Informer
  BY <1>1, <1>2 DEF Informer, List, Drop, Lose, Deliver, DeliverMapping,
                    UpdateWatches, Restart, server
<1>3. ASSUME NEW c \in Clusters, SyncFleet(c) \/ PatchGroup(c)
      PROVE  Allowed /\ LastOfItsName'
  <2>1. UNCHANGED <<capi, lastUid>>
    BY <1>3 DEF SyncFleet, PatchGroup
  <2> QED
    BY <1>3, <2>1, FleetImports, GroupImports DEF LastOfItsName
<1>4. ASSUME NEW c \in Clusters, Progress(c) \/ Fault(c) PROVE Allowed /\ LastOfItsName'
  BY <1>1, <1>3, <1>4, AddImports, RemoveImports
  DEF Progress, Sync, Cleanup, Start, ReadConfig, PatchMapping, AnnotateNamespace,
      ListReferences, DeleteMapping, ListOthers, RemoveAnnotation, Fault, server
<1>5. CASE UNCHANGED vars
  BY <1>1, <1>5 DEF vars
<1> QED
  BY <1>2, <1>4, <1>5, EnvironmentImports DEF Next

LEMMA InitImports == Init => Promise!Init
<1> SUFFICES ASSUME Init PROVE Promise!Init
  OBVIOUS
<1>1. \A c \in Clusters : PhaseOf(capi[c]) = "absent"
  BY Phased DEF Init
<1>2. \A c \in Clusters : Owned(c) = {}
  BY DEF Init, Owned
<1> QED
  BY <1>1, <1>2 DEF Init, Promise!Init, phases, owners

(***************************************************************************)
(* The theorem.                                                            *)
(***************************************************************************)

\* The controller implements Import, however many watches it merges: whatever they,
\* users, Cluster API, the garbage collector and failures do in between, nothing is
\* made for the first Cluster of a name before our finalizer holds it, which it then
\* does until that Cluster is deleted; a later one loses it to a late cleanup only;
\* and objects are only ever given to Clusters that have been created.
THEOREM ImplementsImport == Spec => ImportsInOrder
<1>1. TypeOK /\ PastViews /\ ApplyUnderFinalizer /\ LastOfItsName /\ [Next]_vars =>
        LastOfItsName' /\ [Promise!Next]_(Promise!vars)
  BY NextImports DEF Allowed
<1> QED
  BY <1>1, InitImports, LastInit, TypeCorrect, ViewsArePast, AppliesUnderFinalizer, PTL
  DEF Spec, ImportsInOrder, Promise!Spec
================================================================================
