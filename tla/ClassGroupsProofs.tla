--------------------------- MODULE ClassGroupsProofs ---------------------------
(***************************************************************************)
(* Theorems about ClassGroups, for any set of labels, groups and settings. *)
(* A view of the class (the store, or the object of the reconcile) that    *)
(* shows the finalizer and no deletion vouches for the class: hence        *)
(* AppliedWhileHeld.  A copy of a group with its resourceVersion has its   *)
(* labels and owners: hence OthersKept and NeverOrphaned.  What the two    *)
(* controllers have not done yet shows in their stores, in what is due or  *)
(* in a reconcile: hence LegacyAtRest and InheritedAtRest.                 *)
(***************************************************************************)
EXTENDS ClassGroups, TLAPS

(***************************************************************************)
(* Types.                                                                  *)
(***************************************************************************)

LEMMA GroupsKnown == Home \in Groups /\ Abroad \subseteq Groups
  BY DEF Groups

LEMMA AppliedType ==
    ASSUME NEW cell \in Cell, NEW v \in Labels \cup {None}
    PROVE  Applied(cell, v) \in Cell
<1>1. "addon" \in Managers
  BY DEF Managers
<1>2. CASE v = None
  BY <1>2 DEF Applied, Cell, Unset
<1>3. CASE v # None
  <2>1. PICK by \in SUBSET Managers :
            Applied(cell, v) = [value |-> v, by |-> by] /\ by # {}
    BY <1>1, <1>3 DEF Applied, Cell
  <2> QED
    BY <1>3, <2>1 DEF Cell
<1> QED
  BY <1>2, <1>3

LEMMA AppliedOwnersType ==
    ASSUME NEW owners \in [Uids -> SUBSET Managers], NEW named
    PROVE  AppliedOwners(owners, named) \in [Uids -> SUBSET Managers]
  BY DEF AppliedOwners, Managers

LEMMA OutdateType ==
    ASSUME NEW copy \in Copy \cup {None}
    PROVE  /\ Outdate(copy) \in Copy \cup {None}
           /\ copy # None => Outdate(copy) \in Copy
           /\ Outdate(copy) # None => ~Outdate(copy).fresh
<1>1. CASE copy = None
  BY <1>1 DEF Outdate
<1>2. CASE copy # None
  BY <1>2, NoneAssumption DEF Outdate, Copy
<1> QED
  BY <1>1, <1>2

LEMMA NewGroupType == NewGroup \in Group
<1>1. Unset \in Cell
  BY DEF Unset, Cell
<1>2. Nobody \in [Uids -> SUBSET Managers]
  BY DEF Nobody
<1> QED
  BY <1>1, <1>2 DEF NewGroup, Group

LEMMA CopyOfType ==
    ASSUME NEW o \in Group
    PROVE  CopyOf(o) \in Copy
  BY DEF CopyOf, Copy, Group, Cell

LEMMA StoredType ==
    ASSUME NEW o \in Group
    PROVE  Stored(o) \in Group \cup {None}
  BY DEF Stored

LEMMA WriteType ==
    ASSUME TypeOK, NEW g \in Groups, NEW o \in Group \cup {None}, Write(g, o)
    PROVE  /\ group' \in [Groups -> Group \cup {None}]
           /\ seen' \in [Groups -> Copy \cup {None}]
           /\ due' \in BOOLEAN
<1>1. group' \in [Groups -> Group \cup {None}]
  BY DEF Write, TypeOK
<1>2. Outdate(seen[g]) \in Copy \cup {None}
  BY OutdateType DEF TypeOK
<1>3. seen' \in [Groups -> Copy \cup {None}]
  BY <1>2 DEF Write, TypeOK
<1>4. due' \in BOOLEAN
  BY DEF Write, TypeOK
<1> QED
  BY <1>1, <1>3, <1>4

LEMMA SyncOf ==
    ASSUME TypeOK, NEW g \in Groups, sync[g] # None
    PROVE  sync[g] \in GroupReconcile /\ sync[g].object \in Copy
  BY DEF TypeOK, GroupReconcile

LEMMA BesideType ==
    ASSUME TypeOK, NEW g \in Groups, NEW o \in Group \cup {None}, WriteBeside(g, o)
    PROVE  /\ group' \in [Groups -> Group \cup {None}]
           /\ seen' \in [Groups -> Copy \cup {None}]
           /\ due' \in BOOLEAN
           /\ sync' \in [Groups -> GroupReconcile \cup {None}]
<1>1. sync[g] # None =>
        [sync[g] EXCEPT !.object = Outdate(sync[g].object)] \in GroupReconcile
  <2> SUFFICES ASSUME sync[g] # None
               PROVE  [sync[g] EXCEPT !.object = Outdate(sync[g].object)] \in GroupReconcile
    OBVIOUS
  <2>1. PICK copy \in Copy : copy = Outdate(sync[g].object)
    BY SyncOf, OutdateType, NoneAssumption
  <2>2. [sync[g] EXCEPT !.object = copy] \in GroupReconcile
    BY SyncOf DEF GroupReconcile
  <2> QED
    BY <2>1, <2>2
<1>2. \/ sync' = sync
      \/ /\ sync[g] # None
         /\ sync' = [sync EXCEPT ![g] = [sync[g] EXCEPT !.object = Outdate(sync[g].object)]]
  BY DEF WriteBeside
<1>3. sync' \in [Groups -> GroupReconcile \cup {None}]
  BY <1>1, <1>2 DEF TypeOK
<1> QED
  BY <1>3, WriteType DEF WriteBeside

\* A step of others that writes a group, and nothing else.
LEMMA BesideKeepsType ==
    ASSUME TypeOK, NEW g \in Groups, NEW o \in Group \cup {None}, WriteBeside(g, o),
           UNCHANGED <<class, lastUid, config, needed, cached, rec, todo>>, budget' \in Nat
    PROVE  TypeOK'
  BY BesideType DEF TypeOK

LEMMA InitType == Init => TypeOK
<1> SUFFICES ASSUME Init PROVE TypeOK
  OBVIOUS
<1>1. PICK s \in Starts :
         /\ config = s.config
         /\ needed = s.needed
         /\ lastUid = IF s.old = {} THEN 0 ELSE 1
         /\ class = IF s.old = {} THEN None ELSE OldClass(s.label)
         /\ group = [g \in Groups |-> IF g \in s.old THEN OldGroup(g, s.label) ELSE None]
         /\ budget = s.budget
  BY DEF Init
<1>2. s \in Start /\ 1 \in Uids /\ MaxUid \in Nat \ {0}
  BY ConstantsAssumption DEF Uids
<1>3. s.label \in Labels /\ s.label # None
  BY <1>2, NoneAssumption DEF Start
<1>4. OldClass(s.label) \in Class
  BY <1>2, <1>3 DEF OldClass, Class
<1>5. ASSUME NEW g \in Groups PROVE OldGroup(g, s.label) \in Group
  <2>1. [value |-> s.label, by |-> {"addon"}] \in Cell
    BY <1>3 DEF Cell, Managers
  <2>2. PICK owners : owners = [Nobody EXCEPT ![1] = IF g = Home THEN {"addon"} ELSE {}]
    OBVIOUS
  <2>3. owners \in [Uids -> SUBSET Managers]
    BY <2>2 DEF Nobody, Managers
  <2>4. OldGroup(g, s.label) =
          [label |-> [value |-> s.label, by |-> {"addon"}], owners |-> owners,
           team |-> FALSE, legacy |-> TRUE, other |-> FALSE, deleting |-> FALSE]
    <3>1. NewGroup.owners = Nobody
      BY DEF NewGroup
    <3>2. OldGroup(g, s.label) =
            [NewGroup EXCEPT !.label = [value |-> s.label, by |-> {"addon"}],
                             !.owners = owners, !.legacy = TRUE]
      BY <2>2, <3>1 DEF OldGroup
    <3> QED
      BY <3>2 DEF NewGroup
  <2> QED
    BY <2>1, <2>3, <2>4 DEF Group
<1>6. lastUid \in 0 .. MaxUid
  BY <1>1, <1>2
<1>7. group \in [Groups -> Group \cup {None}]
  BY <1>1, <1>5
<1>8. class \in Class \cup {None}
  BY <1>1, <1>4
<1>9. config \in Configs /\ needed \subseteq Abroad /\ budget \in Nat
  BY <1>1, <1>2 DEF Start
<1> QED
  BY <1>6, <1>7, <1>8, <1>9 DEF Init, TypeOK

\* What users, other controllers and the garbage collector do to groups.
BesideUs ==
    Collect \/ \E g \in Groups :
        Retag(g) \/ TakeLabel(g) \/ Attach(g) \/ Detach(g) \/ DeleteGroup(g) \/ CreateAbroad(g)

\* A deleted group waits for a finalizer.  The group beside the class has an owner,
\* or is being deleted.
Excused(o) == o # None /\ o.deleting => o.legacy \/ o.other

Kin(o) == o # None => Owned(o) \/ o.deleting

\* No write sets the finalizer of older versions, or leaves a deleted group that
\* waits for nothing.
Ages(old, new) ==
    /\ new # None /\ new.legacy => old # None /\ old.legacy
    /\ Excused(old) => Excused(new)

Stays(old, new) == Kin(old) => Kin(new)

LEMMA StoredAges ==
    ASSUME NEW old, NEW new, new # None,
           new.legacy => old # None /\ old.legacy, Kin(old) => Kin(new)
    PROVE  Ages(old, Stored(new)) /\ Stays(old, Stored(new))
  BY DEF Ages, Stays, Stored, Excused, Kin

\* Writes of what is no business of ours.
LEMMA KeptAges ==
    ASSUME NEW old \in Group, NEW new \in Group, new.legacy = old.legacy,
           new.deleting = old.deleting, old.other => new.other, Owned(old) => Owned(new)
    PROVE  Ages(old, new) /\ Stays(old, new)
  BY NoneAssumption DEF Ages, Stays, Excused, Kin

LEMMA GroupWrites ==
    ASSUME TypeOK, BesideUs
    PROVE  \E g \in Groups, o \in Group \cup {None} :
              /\ WriteBeside(g, o)
              /\ Ages(group[g], o)
              /\ g = Home => Stays(group[g], o)
<1> DEFINE Goal == \E g \in Groups, o \in Group \cup {None} :
                      /\ WriteBeside(g, o)
                      /\ Ages(group[g], o)
                      /\ g = Home => Stays(group[g], o)
<1>0. ASSUME NEW g \in Groups, group[g] # None PROVE group[g] \in Group
  BY <1>0 DEF TypeOK
<1>1. ASSUME NEW g \in Groups, Retag(g) PROVE Goal
  <2>1. PICK new : new = [group[g] EXCEPT !.team = ~group[g].team]
    OBVIOUS
  <2>2. group[g] \in Group /\ group[g] # None /\ WriteBeside(g, new)
    BY <1>0, <1>1, <2>1 DEF Retag
  <2>3. /\ new \in Group /\ new.legacy = group[g].legacy /\ new.deleting = group[g].deleting
        /\ new.other = group[g].other /\ new.owners = group[g].owners
    BY <2>1, <2>2 DEF Group
  <2>4. Owned(group[g]) => Owned(new)
    BY <2>3, NoneAssumption DEF Owned
  <2>5. Ages(group[g], new) /\ Stays(group[g], new)
    BY <2>2, <2>3, <2>4, KeptAges
  <2> QED
    BY <2>2, <2>3, <2>5
<1>2. ASSUME NEW g \in Groups, TakeLabel(g) PROVE Goal
  <2>1. PICK l \in Labels :
            WriteBeside(g, [group[g] EXCEPT !.label = [value |-> l, by |-> {"user"}]])
    BY <1>2 DEF TakeLabel
  <2>2. [value |-> l, by |-> {"user"}] \in Cell
    BY NoneAssumption DEF Cell, Managers
  <2>3. PICK new : new = [group[g] EXCEPT !.label = [value |-> l, by |-> {"user"}]]
    OBVIOUS
  <2>4. group[g] \in Group
    BY <1>0, <1>2 DEF TakeLabel
  <2>5. /\ new \in Group /\ new.legacy = group[g].legacy /\ new.deleting = group[g].deleting
        /\ new.other = group[g].other /\ new.owners = group[g].owners
    BY <2>2, <2>3, <2>4 DEF Group
  <2>6. Owned(group[g]) => Owned(new)
    BY <2>5, NoneAssumption DEF Owned
  <2>7. Ages(group[g], new) /\ Stays(group[g], new)
    BY <2>4, <2>5, <2>6, KeptAges
  <2> QED
    BY <2>1, <2>3, <2>5, <2>7
<1>3. ASSUME NEW g \in Groups, Attach(g) PROVE Goal
  <2>1. PICK new : new = [group[g] EXCEPT !.other = TRUE]
    OBVIOUS
  <2>2. group[g] \in Group /\ WriteBeside(g, new)
    BY <1>0, <1>3, <2>1 DEF Attach
  <2>3. /\ new \in Group /\ new.legacy = group[g].legacy /\ new.deleting = group[g].deleting
        /\ new.other /\ new.owners = group[g].owners
    BY <2>1, <2>2 DEF Group
  <2>4. Owned(group[g]) => Owned(new)
    BY <2>3, NoneAssumption DEF Owned
  <2> QED
    BY <2>2, <2>3, <2>4, KeptAges
<1>4. ASSUME NEW g \in Groups, Detach(g) PROVE Goal
  <2>1. PICK new : new = [group[g] EXCEPT !.other = FALSE]
    OBVIOUS
  <2>2. group[g] \in Group /\ group[g] # None /\ WriteBeside(g, Stored(new))
    BY <1>0, <1>4, <2>1 DEF Detach
  <2>3. /\ new \in Group /\ new.legacy = group[g].legacy /\ new.deleting = group[g].deleting
        /\ new.owners = group[g].owners
    BY <2>1, <2>2 DEF Group
  <2>4. new # None /\ (Kin(group[g]) => Kin(new))
    BY <2>2, <2>3, NoneAssumption DEF Kin, Owned
  <2> QED
    BY <2>2, <2>3, <2>4, StoredType, StoredAges
<1>5. ASSUME NEW g \in Groups, DeleteGroup(g) PROVE Goal
  <2>1. PICK new : new = [group[g] EXCEPT !.deleting = TRUE]
    OBVIOUS
  <2>2. group[g] \in Group /\ group[g] # None /\ WriteBeside(g, Stored(new))
    BY <1>0, <1>5, <2>1 DEF DeleteGroup
  <2>3. new \in Group /\ new.legacy = group[g].legacy /\ new.deleting
    BY <2>1, <2>2 DEF Group
  <2>4. new # None /\ Kin(new)
    BY <2>3, NoneAssumption DEF Kin
  <2> QED
    BY <2>2, <2>3, <2>4, StoredType, StoredAges
<1>6. ASSUME NEW g \in Groups, CreateAbroad(g) PROVE Goal
  <2>1. g # Home
    BY <1>6, ConstantsAssumption DEF CreateAbroad, TypeOK
  <2>2. Ages(group[g], NewGroup)
    BY DEF Ages, Excused, NewGroup
  <2> QED
    BY <1>6, <2>1, <2>2, NewGroupType DEF CreateAbroad
<1>7. CASE Collect
  <2>1. group[Home] \in Group /\ group[Home] # None /\ Home \in Groups
    BY <1>0, <1>7, GroupsKnown DEF Collect
  <2>2. CASE WriteBeside(Home, Stored([group[Home] EXCEPT !.deleting = TRUE]))
    <3>1. PICK new : new = [group[Home] EXCEPT !.deleting = TRUE]
      OBVIOUS
    <3>2. new \in Group /\ new.legacy = group[Home].legacy /\ new.deleting
      BY <2>1, <3>1 DEF Group
    <3>3. new # None /\ Kin(new)
      BY <3>2, NoneAssumption DEF Kin
    <3> QED
      BY <2>1, <2>2, <3>1, <3>2, <3>3, StoredType, StoredAges
  <2>3. ASSUME NEW dead, NEW u \in Uids, u \notin dead, group[Home].owners[u] # {},
               WriteBeside(Home, [group[Home] EXCEPT !.owners =
                  [v \in Uids |-> IF v \in dead THEN {} ELSE group[Home].owners[v]]])
        PROVE  Goal
    <3>1. PICK owners : owners = [v \in Uids |-> IF v \in dead THEN {} ELSE group[Home].owners[v]]
      OBVIOUS
    <3>2. owners \in [Uids -> SUBSET Managers] /\ owners[u] # {}
      BY <2>1, <2>3, <3>1 DEF Group
    <3>3. PICK new : new = [group[Home] EXCEPT !.owners = owners]
      OBVIOUS
    <3>4. /\ new \in Group /\ new.legacy = group[Home].legacy
          /\ new.deleting = group[Home].deleting /\ new.other = group[Home].other
          /\ new.owners = owners
      BY <2>1, <3>2, <3>3 DEF Group
    <3>5. Owned(new)
      BY <3>2, <3>4, NoneAssumption DEF Owned
    <3>6. WriteBeside(Home, new)
      BY <2>3, <3>1, <3>3
    <3>7. Ages(group[Home], new) /\ Stays(group[Home], new)
      BY <2>1, <3>4, <3>5, KeptAges
    <3> QED
      BY <2>1, <3>4, <3>6, <3>7
  <2>4. \/ WriteBeside(Home, Stored([group[Home] EXCEPT !.deleting = TRUE]))
        \/ \E dead : \E u \in Uids :
              /\ u \notin dead /\ group[Home].owners[u] # {}
              /\ WriteBeside(Home, [group[Home] EXCEPT !.owners =
                    [v \in Uids |-> IF v \in dead THEN {} ELSE group[Home].owners[v]]])
    BY <1>7 DEF Collect
  <2> QED
    BY <2>2, <2>3, <2>4
<1> QED
  BY <1>1, <1>2, <1>3, <1>4, <1>5, <1>6, <1>7 DEF BesideUs

LEMMA EnvironmentType == TypeOK /\ Environment => TypeOK'
<1> SUFFICES ASSUME TypeOK, Environment PROVE TypeOK'
  OBVIOUS
<1> USE DEF server, classController, groupController
<1>0. budget \in Nat /\ class \in Class \cup {None} /\ lastUid \in 0 .. MaxUid /\ MaxUid \in Nat
  BY ConstantsAssumption DEF TypeOK
<1>1. CASE CreateClass
  <2>1. lastUid + 1 \in Uids /\ lastUid' \in 0 .. MaxUid
    BY <1>0, <1>1 DEF CreateClass, Uids
  <2>2. class' \in Class
    BY <1>1, <2>1 DEF CreateClass, Class
  <2> QED
    BY <1>1, <2>1, <2>2 DEF CreateClass, TypeOK
<1>2. CASE Relabel
  <2>1. class' \in Class
    BY <1>0, <1>2 DEF Relabel, Class
  <2> QED
    BY <1>0, <1>2, <2>1 DEF Relabel, Spend, TypeOK
<1>3. CASE DeleteClass
  <2>1. class' \in Class \cup {None}
    BY <1>0, <1>3 DEF DeleteClass, StoredClass, Class
  <2> QED
    BY <1>0, <1>3, <2>1 DEF DeleteClass, Spend, TypeOK
<1>4. CASE Reconfigure
  BY <1>0, <1>4 DEF Reconfigure, Spend, TypeOK
<1>5. CASE BesideUs
  <2>1. ASSUME NEW g \in Groups, Retag(g) \/ TakeLabel(g) \/ Attach(g) \/ DeleteGroup(g)
        PROVE  UNCHANGED <<class, lastUid, config, needed, cached, rec, todo>> /\ budget' \in Nat
    BY <1>0, <2>1 DEF Retag, TakeLabel, Attach, DeleteGroup, Spend
  <2>2. ASSUME NEW g \in Groups, Detach(g) \/ CreateAbroad(g)
        PROVE  UNCHANGED <<class, lastUid, config, needed, cached, rec, todo>> /\ budget' \in Nat
    BY <1>0, <2>2 DEF Detach, CreateAbroad
  <2>3. ASSUME Collect
        PROVE  UNCHANGED <<class, lastUid, config, needed, cached, rec, todo>> /\ budget' \in Nat
    BY <1>0, <2>3 DEF Collect
  <2>4. UNCHANGED <<class, lastUid, config, needed, cached, rec, todo>> /\ budget' \in Nat
    BY <1>5, <2>1, <2>2, <2>3 DEF BesideUs
  <2> QED
    BY <1>5, <2>4, GroupWrites, BesideKeepsType
<1> QED
  BY <1>1, <1>2, <1>3, <1>4, <1>5 DEF Environment, BesideUs

LEMMA WatchType ==
    TypeOK /\ (HearClass \/ (\E g \in Groups : HearGroup(g)) \/ Restart) => TypeOK'
<1> SUFFICES ASSUME TypeOK, HearClass \/ (\E g \in Groups : HearGroup(g)) \/ Restart
             PROVE  TypeOK'
  OBVIOUS
<1> USE DEF server, classController, groupController
<1>1. CASE HearClass
  BY <1>1 DEF HearClass, TypeOK
<1>2. ASSUME NEW g \in Groups, HearGroup(g) PROVE TypeOK'
  <2>1. group[g] # None => CopyOf(group[g]) \in Copy
    BY CopyOfType DEF TypeOK
  <2>2. seen' \in [Groups -> Copy \cup {None}]
    BY <1>2, <2>1 DEF HearGroup, TypeOK
  <2> QED
    BY <1>2, <2>2 DEF HearGroup, TypeOK
<1>3. CASE Restart
  <2>1. due' \in BOOLEAN
    BY <1>3 DEF Restart, Owned
  <2> QED
    BY <1>3, <2>1 DEF Restart, Spend, TypeOK
<1> QED
  BY <1>1, <1>2, <1>3

LEMMA RecOf ==
    ASSUME TypeOK, rec # None
    PROVE  rec \in ClassReconcile /\ rec.object \in Class
  BY DEF TypeOK, ClassReconcile

\* What an apply makes of a group.
AppliedGroup(o, v, named) ==
    [o EXCEPT !.label = Applied(o.label, v), !.owners = AppliedOwners(o.owners, named)]

LEMMA AppliedGroupType ==
    ASSUME NEW o \in Group, NEW v \in Labels \cup {None}, NEW named
    PROVE  /\ AppliedGroup(o, v, named) \in Group
           /\ AppliedGroup(o, v, named).team = o.team
           /\ AppliedGroup(o, v, named).label = Applied(o.label, v)
           /\ AppliedGroup(o, v, named).owners = AppliedOwners(o.owners, named)
           /\ AppliedGroup(o, v, named).legacy = o.legacy
           /\ AppliedGroup(o, v, named).other = o.other
           /\ AppliedGroup(o, v, named).deleting = o.deleting
<1>1. PICK label : label = Applied(o.label, v)
  OBVIOUS
<1>2. PICK owners : owners = AppliedOwners(o.owners, named)
  OBVIOUS
<1>3. label \in Cell
  BY <1>1, AppliedType DEF Group
<1>4. owners \in [Uids -> SUBSET Managers]
  BY <1>2, AppliedOwnersType DEF Group
<1>5. PICK new : new = [o EXCEPT !.label = label, !.owners = owners]
  OBVIOUS
<1>6. /\ new \in Group /\ new.team = o.team /\ new.label = label /\ new.owners = owners
      /\ new.legacy = o.legacy /\ new.other = o.other /\ new.deleting = o.deleting
  BY <1>3, <1>4, <1>5 DEF Group
<1>7. new = AppliedGroup(o, v, named)
  BY <1>1, <1>2, <1>5 DEF AppliedGroup
<1> QED
  BY <1>1, <1>2, <1>6, <1>7

LEMMA MadeType ==
    ASSUME TypeOK, rec # None
    PROVE  /\ GroupOfClass \in Group /\ ~GroupOfClass.legacy /\ ~GroupOfClass.deleting
           /\ \A u \in NamedOwners \cap Uids : GroupOfClass.owners[u] # {}
<1>1. rec.object.label \in Labels \cup {None}
  BY RecOf DEF Class
<1>2. PICK label : label = IF rec.object.label = None THEN Unset
                           ELSE [value |-> rec.object.label, by |-> {"create"}]
  OBVIOUS
<1>3. label \in Cell
  BY <1>1, <1>2 DEF Cell, Unset, Managers
<1>4. PICK owners : owners = [u \in Uids |-> IF u \in NamedOwners THEN {"create"} ELSE {}]
  OBVIOUS
<1>5. owners \in [Uids -> SUBSET Managers]
  BY <1>4 DEF Managers
<1>6. PICK new : new = [NewGroup EXCEPT !.label = label, !.owners = owners]
  OBVIOUS
<1>7. new \in Group /\ ~new.legacy /\ ~new.deleting /\ new.owners = owners
  BY <1>3, <1>5, <1>6, NewGroupType DEF Group, NewGroup
<1>8. \A u \in NamedOwners \cap Uids : owners[u] # {}
  BY <1>4
<1>9. new = GroupOfClass
  BY <1>2, <1>4, <1>6 DEF GroupOfClass
<1> QED
  BY <1>7, <1>8, <1>9

LEMMA ClassType == TypeOK /\ (ReconcileClass \/ ClassFault) => TypeOK'
<1> SUFFICES ASSUME TypeOK, ReconcileClass \/ ClassFault PROVE TypeOK'
  OBVIOUS
<1> USE DEF server, classController, groupController
<1>0. group[Home] \in Group \cup {None} /\ Home \in Groups
  BY GroupsKnown DEF TypeOK
<1>1. CASE StartClass
  <2>1. cached # None =>
          [step |-> ClassStep(cached), object |-> cached, config |-> None] \in ClassReconcile
    BY DEF TypeOK, ClassReconcile, ClassStep
  <2> QED
    BY <1>1, <2>1 DEF StartClass, TypeOK
<1>2. CASE AddClassFinalizer
  <2>1. class # None => [class EXCEPT !.finalizer = TRUE] \in Class
    BY DEF TypeOK, Class
  <2> QED
    BY <1>2, <2>1 DEF AddClassFinalizer, RetryClass, TypeOK
<1>3. CASE RemoveClassFinalizer
  <2>1. class # None => StoredClass([class EXCEPT !.finalizer = FALSE]) \in Class \cup {None}
    BY DEF TypeOK, Class, StoredClass
  <2> QED
    BY <1>3, <2>1 DEF RemoveClassFinalizer, RetryClass, TypeOK
<1>4. CASE ReadClassConfig
  <2>1. [rec EXCEPT !.step = "apply", !.config = config] \in ClassReconcile
    BY <1>4, RecOf DEF ReadClassConfig, AtClass, ClassReconcile, TypeOK
  <2> QED
    BY <1>4, <2>1 DEF ReadClassConfig, TypeOK
<1>5. CASE ApplyClass
  <2>1. rec.object.label \in Labels \cup {None}
    BY <1>5, RecOf DEF ApplyClass, AtClass, Class
  <2>2. PICK o \in Group : o = IF group[Home] = None THEN NewGroup ELSE group[Home]
    BY <1>0, NewGroupType
  <2> DEFINE new == AppliedGroup(o, rec.object.label, NamedOwners)
  <2>3. new \in Group
    BY <2>1, AppliedGroupType
  <2>4. \/ UNCHANGED <<group, seen, due, sync>>
        \/ RetryClass /\ UNCHANGED <<group, seen, sync>>
        \/ WriteBeside(Home, new)
    BY <1>5, <2>2 DEF ApplyClass, AppliedGroup
  <2>5. /\ rec' = None
        /\ UNCHANGED <<class, lastUid, config, needed, cached, todo, budget>>
    BY <1>5 DEF ApplyClass, RetryClass
  <2> HIDE DEF new
  <2>6. /\ group' \in [Groups -> Group \cup {None}] /\ seen' \in [Groups -> Copy \cup {None}]
        /\ due' \in BOOLEAN /\ sync' \in [Groups -> GroupReconcile \cup {None}]
    BY <1>0, <2>3, <2>4, BesideType DEF RetryClass, TypeOK
  <2> QED
    BY <2>5, <2>6 DEF TypeOK
<1>6. CASE CreateHome
  <2>1. GroupOfClass \in Group
    BY <1>6, MadeType DEF CreateHome, AtClass
  <2>2. UNCHANGED <<group, seen, due, sync>> \/ WriteBeside(Home, GroupOfClass)
    BY <1>6 DEF CreateHome
  <2>3. /\ group' \in [Groups -> Group \cup {None}] /\ seen' \in [Groups -> Copy \cup {None}]
        /\ due' \in BOOLEAN /\ sync' \in [Groups -> GroupReconcile \cup {None}]
    BY <1>0, <2>1, <2>2, BesideType DEF TypeOK
  <2> QED
    BY <1>6, <2>3 DEF CreateHome, TypeOK
<1>7. CASE ClassFault
  BY <1>7 DEF ClassFault, RetryClass, Spend, TypeOK
<1> QED
  BY <1>1, <1>2, <1>3, <1>4, <1>5, <1>6, <1>7 DEF ReconcileClass

LEMMA StepType ==
    ASSUME TypeOK, NEW g \in Groups, sync[g] # None,
           NEW step \in {"class", "labels", "finalizers"}
    PROVE  [sync[g] EXCEPT !.step = step] \in GroupReconcile
  BY SyncOf DEF GroupReconcile

LEMMA RetryGroupType ==
    ASSUME TypeOK, NEW g \in Groups, FinishGroup(g) \/ RetryGroup(g)
    PROVE  sync' \in [Groups -> GroupReconcile \cup {None}]
  BY DEF TypeOK, RetryGroup, FinishGroup

LEMMA FetchType ==
    ASSUME TypeOK, NEW g \in Groups, FetchClass(g), ~RetryGroup(g)
    PROVE  \E copy \in Copy :
             /\ sync' = [sync EXCEPT ![g] = [sync[g] EXCEPT !.step = "labels", !.object = copy]]
             /\ copy.fresh = sync[g].object.fresh /\ copy.team = sync[g].object.team
             /\ copy.owners = sync[g].object.owners /\ copy.legacy = sync[g].object.legacy
             /\ [sync[g] EXCEPT !.step = "labels", !.object = copy] \in GroupReconcile
<1>1. sync[g] \in GroupReconcile /\ sync[g].object \in Copy /\ class \in Class
  BY SyncOf DEF FetchClass, AtGroup, TypeOK
<1>2. PICK label \in Labels \cup {None} :
          sync' = [sync EXCEPT ![g].step = "labels", ![g].object.label = label]
  BY <1>1 DEF FetchClass, Class, Copy
<1>3. PICK copy : copy = [sync[g].object EXCEPT !.label = label]
  OBVIOUS
<1>4. /\ copy \in Copy /\ copy.fresh = sync[g].object.fresh /\ copy.team = sync[g].object.team
      /\ copy.owners = sync[g].object.owners /\ copy.legacy = sync[g].object.legacy
  BY <1>1, <1>3 DEF Copy
<1>5. sync' = [sync EXCEPT ![g] = [sync[g] EXCEPT !.step = "labels", !.object = copy]]
  BY <1>1, <1>2, <1>3 DEF TypeOK, GroupReconcile
<1>6. [sync[g] EXCEPT !.step = "labels", !.object = copy] \in GroupReconcile
  BY <1>1, <1>4 DEF GroupReconcile
<1> QED
  BY <1>4, <1>5, <1>6

LEMMA AppliedCopyType ==
    ASSUME NEW o \in Group, NEW copy \in Copy
    PROVE  /\ AppliedCopy(o, copy) \in Group
           /\ AppliedCopy(o, copy).team = (o.team \/ copy.team)
           /\ AppliedCopy(o, copy).label = Applied(o.label, copy.label)
           /\ AppliedCopy(o, copy).owners = AppliedOwners(o.owners, copy.owners)
           /\ AppliedCopy(o, copy).legacy = o.legacy
           /\ AppliedCopy(o, copy).other = o.other
           /\ AppliedCopy(o, copy).deleting = o.deleting
<1>1. PICK label : label = Applied(o.label, copy.label)
  OBVIOUS
<1>2. PICK owners : owners = AppliedOwners(o.owners, copy.owners)
  OBVIOUS
<1>3. label \in Cell
  BY <1>1, AppliedType DEF Group, Copy
<1>4. owners \in [Uids -> SUBSET Managers]
  BY <1>2, AppliedOwnersType DEF Group
<1>5. AppliedCopy(o, copy) =
        [o EXCEPT !.label = label, !.team = o.team \/ copy.team, !.owners = owners]
  BY <1>1, <1>2 DEF AppliedCopy, Group
<1>6. (o.team \/ copy.team) \in BOOLEAN
  OBVIOUS
<1>7. PICK team \in BOOLEAN : team = (o.team \/ copy.team)
  BY <1>6
<1>8. PICK new : new = [o EXCEPT !.label = label, !.team = team, !.owners = owners]
  OBVIOUS
<1>9. /\ new \in Group /\ new.team = team /\ new.label = label /\ new.owners = owners
      /\ new.legacy = o.legacy /\ new.other = o.other /\ new.deleting = o.deleting
  BY <1>3, <1>4, <1>7, <1>8 DEF Group
<1>10. new = AppliedCopy(o, copy)
  BY <1>5, <1>7, <1>8
<1> QED
  BY <1>1, <1>2, <1>7, <1>9, <1>10

LEMMA GroupType ==
    ASSUME TypeOK, NEW g \in Groups, ReconcileGroup(g) \/ GroupFault(g)
    PROVE  TypeOK'
<1> USE DEF server, classController, groupController
<1>0. group[g] \in Group \cup {None}
  BY DEF TypeOK
<1>1. CASE StartGroup(g)
  <2>1. seen[g] # None => [step |-> "class", object |-> seen[g]] \in GroupReconcile
    BY DEF TypeOK, GroupReconcile
  <2> QED
    BY <1>1, <2>1 DEF StartGroup, TypeOK
<1>2. CASE FetchClass(g)
  <2>1. sync' \in [Groups -> GroupReconcile \cup {None}]
    <3>1. CASE RetryGroup(g)
      BY <3>1, RetryGroupType
    <3>2. CASE ~RetryGroup(g)
      <4>1. PICK copy \in Copy :
                /\ sync' = [sync EXCEPT ![g] = [sync[g] EXCEPT !.step = "labels", !.object = copy]]
                /\ [sync[g] EXCEPT !.step = "labels", !.object = copy] \in GroupReconcile
        BY <1>2, <3>2, FetchType
      <4>2. PICK r : r = [sync[g] EXCEPT !.step = "labels", !.object = copy]
        OBVIOUS
      <4> QED
        BY <4>1, <4>2 DEF TypeOK
    <3> QED
      BY <3>1, <3>2
  <2>2. todo' \subseteq Groups
    BY <1>2 DEF FetchClass, RetryGroup, TypeOK
  <2> QED
    BY <1>2, <2>1, <2>2 DEF FetchClass, TypeOK
<1>3. CASE ApplyLabels(g)
  <2>1. sync[g] # None /\ sync[g] \in GroupReconcile /\ sync[g].object \in Copy
    BY <1>3, SyncOf DEF ApplyLabels, AtGroup
  <2>2. CASE GotoGroup(g, "finalizers") /\ UNCHANGED <<group, seen, due, todo>>
    <3>1. sync' \in [Groups -> GroupReconcile \cup {None}]
      BY <2>1, <2>2, StepType DEF GotoGroup, TypeOK
    <3> QED
      BY <1>3, <2>2, <3>1 DEF ApplyLabels, TypeOK
  <2>3. CASE RetryGroup(g) /\ UNCHANGED <<group, seen, due>>
    BY <1>3, <2>3, RetryGroupType DEF ApplyLabels, RetryGroup, TypeOK
  <2>4. CASE /\ group[g] # None
             /\ Write(g, AppliedCopy(group[g], sync[g].object))
             /\ sync' = [sync EXCEPT ![g].step = "finalizers", ![g].object.fresh = FALSE]
             /\ UNCHANGED todo
    <3>1. AppliedCopy(group[g], sync[g].object) \in Group
      BY <1>0, <2>1, <2>4, AppliedCopyType
    <3>2. [sync[g].object EXCEPT !.fresh = FALSE] \in Copy
      BY <2>1 DEF Copy
    <3>3. [sync[g] EXCEPT !.step = "finalizers",
                          !.object = [sync[g].object EXCEPT !.fresh = FALSE]] \in GroupReconcile
      BY <2>1, <3>2 DEF GroupReconcile
    <3>4. sync' = [sync EXCEPT ![g] = [sync[g] EXCEPT !.step = "finalizers",
                     !.object = [sync[g].object EXCEPT !.fresh = FALSE]]]
      BY <2>1, <2>4 DEF TypeOK, GroupReconcile
    <3>5. sync' \in [Groups -> GroupReconcile \cup {None}]
      BY <3>3, <3>4 DEF TypeOK
    <3> QED
      BY <1>3, <2>4, <3>1, <3>5, WriteType DEF ApplyLabels, TypeOK
  <2> QED
    BY <1>3, <2>2, <2>3, <2>4 DEF ApplyLabels
<1>4. CASE DropLegacy(g)
  <2>1. sync[g] # None /\ sync[g].object \in Copy
    BY <1>4, SyncOf DEF DropLegacy, AtGroup
  <2>2. CASE FinishGroup(g) /\ UNCHANGED <<group, seen, due, todo>>
    BY <1>4, <2>2, RetryGroupType DEF DropLegacy, TypeOK
  <2>3. CASE RetryGroup(g) /\ UNCHANGED <<group, seen, due>>
    BY <1>4, <2>3, RetryGroupType DEF DropLegacy, RetryGroup, TypeOK
  <2>4. CASE /\ group[g] # None
             /\ Write(g, Stored([group[g] EXCEPT !.legacy = FALSE,
                                                 !.other = sync[g].object.other]))
             /\ FinishGroup(g) /\ UNCHANGED todo
    <3>1. [group[g] EXCEPT !.legacy = FALSE, !.other = sync[g].object.other] \in Group
      BY <1>0, <2>1, <2>4 DEF Group, Copy
    <3> QED
      BY <1>4, <2>4, <3>1, StoredType, WriteType, RetryGroupType DEF DropLegacy, TypeOK
  <2> QED
    BY <1>4, <2>2, <2>3, <2>4 DEF DropLegacy
<1>5. CASE GroupFault(g)
  BY <1>5, RetryGroupType DEF GroupFault, RetryGroup, Spend, TypeOK
<1> QED
  BY <1>1, <1>2, <1>3, <1>4, <1>5 DEF ReconcileGroup

LEMMA NextType == TypeOK /\ [Next]_vars => TypeOK'
<1>1. TypeOK /\ UNCHANGED vars => TypeOK'
  BY DEF TypeOK, vars, server, classController, groupController
<1> QED
  BY <1>1, EnvironmentType, WatchType, ClassType, GroupType DEF Next

\* The type invariant holds for every value of the constants: whatever applies,
\* merge patches and other writers make of a group, a label that is there has a
\* manager, and the copies and reconciles are what the code can hold.
THEOREM TypeCorrect == Spec => []TypeOK
  BY InitType, NextType, PTL DEF Spec

(***************************************************************************)
(* Views of the class.  They are ordered by uid, and then by being deleted;*)
(* a view that is not being deleted vouches for the finalizers shown by    *)
(* itself and the views after it.  The finalizer patches test no uid: what *)
(* keeps them from another class of the name is this order.                *)
(***************************************************************************)

\* s is what the API server has of the class, and last its last uid.
Held(s, uid) == s # None /\ s.uid = uid /\ s.finalizer

Older(a, b) == a.uid < b.uid \/ (a.uid = b.uid /\ (a.deleting => b.deleting))

Before(s, a, b) ==
    /\ Older(a, b)
    /\ ~a.deleting /\ b.finalizer => Held(s, b.uid)

Current(s, last, a) ==
    /\ a.uid <= last
    /\ s # None => Older(a, s)
    /\ Before(s, a, a)
    /\ a.finalizer /\ s # None /\ s.uid # a.uid => ~s.finalizer

ClassShape ==
    rec # None =>
        /\ rec.step = "addFinalizer" => ~rec.object.deleting /\ ~rec.object.finalizer
        /\ rec.step \in {"config", "apply"} => ~rec.object.deleting /\ rec.object.finalizer
        /\ rec.step = "removeFinalizer" => rec.object.deleting /\ rec.object.finalizer

ViewsOf(s, last) ==
    /\ s # None => s.uid = last
    /\ cached # None => Current(s, last, cached)
    /\ rec # None =>
        /\ Current(s, last, rec.object)
        /\ cached # None => Before(s, rec.object, cached)

ClassViews == ViewsOf(class, lastUid) /\ ClassShape

LEMMA UidsNat == Uids \subseteq Nat /\ MaxUid \in Nat /\ None \notin Class
  BY ConstantsAssumption, NoneAssumption DEF Uids

\* A change that leaves uid and finalizer alone and undoes no deletion.
LEMMA KeptViews ==
    ASSUME TypeOK, ClassViews, class # None, class' \in Class,
           class'.uid = class.uid, class'.finalizer = class.finalizer,
           class.deleting => class'.deleting, UNCHANGED <<lastUid, cached, rec>>
    PROVE  ClassViews'
<1>1. PICK s \in Class, new \in Class, last \in Nat :
          /\ s = class /\ new = class' /\ last = lastUid
          /\ new.uid = s.uid /\ new.finalizer = s.finalizer /\ s.deleting => new.deleting
  BY UidsNat DEF TypeOK
<1>2. /\ \A a \in Class : Current(s, last, a) => Current(new, last, a)
      /\ \A a, b \in Class : Before(s, a, b) => Before(new, a, b)
  BY <1>1, UidsNat DEF Class, Current, Before, Older, Held
<1>3. ViewsOf(new, last)
  BY <1>1, <1>2, RecOf, UidsNat DEF ClassViews, ViewsOf, TypeOK
<1>4. (ViewsOf(class, lastUid))' = ViewsOf(new, last)
  BY <1>1 DEF ViewsOf, Current, Before, Older, Held
<1> QED
  BY <1>3, <1>4 DEF ClassViews, ClassShape

LEMMA CreateViews ==
    ASSUME TypeOK, ClassViews, CreateClass
    PROVE  ClassViews'
<1>1. /\ class = None /\ class' # None /\ class'.uid = lastUid + 1 /\ ~class'.finalizer
      /\ ~class'.deleting /\ lastUid' = lastUid + 1 /\ UNCHANGED <<cached, rec>>
      /\ lastUid \in Nat
  <2>1. PICK l \in Labels : class' = [uid |-> lastUid + 1, label |-> l, deleting |-> FALSE,
                                      finalizer |-> FALSE]
    BY DEF CreateClass
  <2>2. class' \in Class
    BY <2>1, UidsNat DEF CreateClass, Class, TypeOK, Uids
  <2>3. lastUid \in Nat
    BY UidsNat DEF TypeOK
  <2>4. class' # None
    BY <2>2, UidsNat
  <2>5. class = None /\ lastUid' = lastUid + 1 /\ cached' = cached /\ rec' = rec
    BY DEF CreateClass, classController
  <2> QED
    BY <2>1, <2>3, <2>4, <2>5
<1>2. PICK last \in Nat : last = lastUid
  BY <1>1
<1> DEFINE new == class'
<1>3. /\ new # None /\ new.uid = last + 1 /\ ~new.finalizer /\ ~new.deleting
  BY <1>1, <1>2
<1>4. (ViewsOf(class, lastUid))' = ViewsOf(new, last + 1)
  BY <1>1, <1>2 DEF ViewsOf, Current, Before, Older, Held
<1> HIDE DEF new
<1>5. /\ \A a \in Class : Current(None, last, a) => Current(new, last + 1, a)
      /\ \A a, b \in Class : Before(None, a, b) => Before(new, a, b)
  <2>1. last \in Nat /\ \A a \in Class : a.uid \in Nat
    BY <1>2, UidsNat DEF Class
  <2>2. \A a, b \in Class : Before(None, a, b) => Older(a, b) /\ (a.deleting \/ ~b.finalizer)
    BY DEF Before, Held
  <2>3. ASSUME NEW a \in Class, Current(None, last, a) PROVE Current(new, last + 1, a)
    <3>1. a.uid <= last /\ Before(None, a, a)
      BY <2>3 DEF Current
    <3>2. Older(a, new)
      BY <1>3, <2>1, <3>1 DEF Older
    <3>3. Before(new, a, a)
      BY <2>2, <3>1 DEF Before
    <3> QED
      BY <1>3, <2>1, <3>1, <3>2, <3>3 DEF Current
  <2>4. \A a, b \in Class : Before(None, a, b) => Before(new, a, b)
    BY <2>2 DEF Before
  <2> QED
    BY <2>3, <2>4
<1>6. ViewsOf(new, last + 1)
  BY <1>1, <1>2, <1>3, <1>5, RecOf DEF ClassViews, ViewsOf, TypeOK
<1> QED
  BY <1>1, <1>4, <1>6 DEF ClassViews, ClassShape

\* The class goes, and no view vouches for it.
LEMMA GoneViews ==
    ASSUME TypeOK, ClassViews, class' = None, UNCHANGED <<lastUid, cached>>,
           cached # None => cached.deleting \/ ~cached.finalizer,
           \/ rec' = None
           \/ /\ UNCHANGED rec
              /\ rec # None =>
                    /\ rec.object.deleting \/ ~rec.object.finalizer
                    /\ cached # None => ~cached.finalizer \/ rec.object.deleting
    PROVE  ClassViews'
<1>1. PICK s \in Class \cup {None}, last \in Nat : s = class /\ last = lastUid
  BY UidsNat DEF TypeOK
<1>2. /\ \A a \in Class : Current(s, last, a) /\ (a.deleting \/ ~a.finalizer) =>
            Current(None, last, a)
      /\ \A a, b \in Class : Before(s, a, b) /\ (a.deleting \/ ~b.finalizer) => Before(None, a, b)
  BY UidsNat DEF Class, Current, Before, Older, Held
<1>3. (ViewsOf(class, lastUid))'
  <2>1. cached # None => Current(None, last, cached)
    <3>1. cached # None => cached \in Class /\ Current(s, last, cached)
      BY <1>1 DEF ClassViews, ViewsOf, TypeOK
    <3> QED
      BY <1>2, <3>1
  <2>2. rec' # None =>
          /\ Current(None, last, rec.object)
          /\ cached # None => Before(None, rec.object, cached)
    <3>1. rec' # None =>
            /\ rec' = rec /\ rec.object \in Class /\ Current(s, last, rec.object)
            /\ rec.object.deleting \/ ~rec.object.finalizer
      <4>1. rec' # None => /\ rec' = rec /\ rec # None
                           /\ rec.object.deleting \/ ~rec.object.finalizer
        OBVIOUS
      <4> QED
        BY <1>1, <4>1, RecOf DEF ClassViews, ViewsOf
    <3>2. rec' # None /\ cached # None =>
            /\ cached \in Class /\ Before(s, rec.object, cached)
            /\ rec.object.deleting \/ ~cached.finalizer
      BY <1>1, <3>1 DEF ClassViews, ViewsOf, TypeOK
    <3> QED
      BY <1>2, <3>1, <3>2
  <2>3. (Current(class, lastUid, cached))' = Current(None, last, cached)
    BY <1>1 DEF Current, Before, Older, Held
  <2>4. ASSUME rec' # None
        PROVE  /\ (Current(class, lastUid, rec.object))' = Current(None, last, rec.object)
               /\ (Before(class, rec.object, cached))' = Before(None, rec.object, cached)
    <3>1. rec' = rec
      BY <2>4
    <3> QED
      BY <1>1, <3>1 DEF Current, Before, Older, Held
  <2>5. cached' # None => (Current(class, lastUid, cached))'
    BY <2>1, <2>3
  <2>6. rec' # None =>
          /\ (Current(class, lastUid, rec.object))'
          /\ cached' # None => (Before(class, rec.object, cached))'
    BY <2>2, <2>4
  <2> QED
    BY <2>5, <2>6 DEF ViewsOf
<1>4. ClassShape'
  <2>1. rec' = None \/ rec' = rec
    OBVIOUS
  <2> QED
    BY <2>1 DEF ClassViews, ClassShape
<1> QED
  BY <1>3, <1>4 DEF ClassViews

LEMMA DeleteViews ==
    ASSUME TypeOK, ClassViews, DeleteClass
    PROVE  ClassViews'
<1>1. /\ class \in Class /\ class # None /\ ~class.deleting
      /\ class' = StoredClass([class EXCEPT !.deleting = TRUE])
      /\ UNCHANGED <<lastUid, cached, rec>>
  BY DEF DeleteClass, classController, TypeOK
<1>2. CASE class.finalizer
  <2>1. class' = [class EXCEPT !.deleting = TRUE]
    BY <1>1, <1>2 DEF StoredClass, Class
  <2>2. class' \in Class /\ class'.uid = class.uid /\ class'.finalizer = class.finalizer
        /\ class'.deleting
    BY <1>1, <2>1 DEF Class
  <2> QED
    BY <1>1, <2>2, KeptViews
<1>3. CASE ~class.finalizer
  <2>1. class' = None
    BY <1>1, <1>3 DEF StoredClass, Class
  <2>2. cached # None => cached.deleting \/ ~cached.finalizer
    BY <1>3 DEF ClassViews, ViewsOf, Current, Before, Held
  <2>3. rec # None => rec.object.deleting \/ ~rec.object.finalizer
    BY <1>3 DEF ClassViews, ViewsOf, Current, Before, Held
  <2>4. rec # None /\ cached # None => rec.object.deleting \/ ~cached.finalizer
    BY <1>3 DEF ClassViews, ViewsOf, Before, Held
  <2>5. CASE rec = None
    BY <1>1, <2>1, <2>2, <2>5, GoneViews
  <2>6. CASE rec # None
    BY <1>1, <2>1, <2>2, <2>3, <2>4, <2>6, GoneViews
  <2> QED
    BY <2>5, <2>6
<1> QED
  BY <1>2, <1>3

LEMMA RemoveViews ==
    ASSUME TypeOK, ClassViews, RemoveClassFinalizer
    PROVE  ClassViews'
<1>1. /\ rec # None /\ rec.step = "removeFinalizer" /\ rec' = None
      /\ UNCHANGED <<lastUid, cached>> /\ rec.object \in Class
      /\ rec.object.deleting /\ rec.object.finalizer
  BY RecOf DEF RemoveClassFinalizer, AtClass, RetryClass, ClassViews, ClassShape
<1>2. CASE UNCHANGED class
  BY <1>1, <1>2 DEF ClassViews, ViewsOf, ClassShape, Current, Before, Older, Held
<1>3. CASE /\ class # None /\ class.finalizer
           /\ class' = StoredClass([class EXCEPT !.finalizer = FALSE])
  <2>1. class \in Class /\ class.uid = rec.object.uid /\ class.deleting
    BY <1>1, <1>3, UidsNat DEF ClassViews, ViewsOf, Current, Older, TypeOK, Class
  <2>2. class' = None
    BY <1>3, <2>1 DEF StoredClass, Class
  <2>3. cached # None => cached.deleting
    <3> SUFFICES ASSUME cached # None PROVE cached.deleting
      OBVIOUS
    <3>1. cached \in Class /\ Older(rec.object, cached) /\ Older(cached, class)
      BY <1>1, <1>3 DEF ClassViews, ViewsOf, Current, Before, TypeOK
    <3> QED
      <4>1. \A a, b, c \in Class :
              a.uid = c.uid /\ a.deleting /\ Older(a, b) /\ Older(b, c) => b.deleting
        <5> SUFFICES ASSUME NEW a \in Class, NEW b \in Class, NEW c \in Class,
                            a.uid = c.uid, a.deleting, Older(a, b), Older(b, c)
                     PROVE  b.deleting
          OBVIOUS
        <5>1. a.uid \in Nat /\ b.uid \in Nat /\ c.uid \in Nat
          BY UidsNat DEF Class
        <5>2. a.uid <= b.uid /\ b.uid <= c.uid
          BY <5>1 DEF Older
        <5>3. a.uid = b.uid
          BY <5>1, <5>2
        <5> QED
          BY <5>1, <5>3 DEF Older
      <4> QED
        BY <1>1, <2>1, <3>1, <4>1
  <2> QED
    BY <1>1, <2>2, <2>3, GoneViews
<1> QED
  BY <1>2, <1>3 DEF RemoveClassFinalizer

LEMMA AddViews ==
    ASSUME TypeOK, ClassViews, AddClassFinalizer
    PROVE  ClassViews'
<1>1. /\ rec # None /\ rec.step = "addFinalizer" /\ rec' = None
      /\ UNCHANGED <<lastUid, cached>> /\ rec.object \in Class
      /\ ~rec.object.deleting /\ ~rec.object.finalizer
  BY RecOf DEF AddClassFinalizer, AtClass, RetryClass, ClassViews, ClassShape
<1>2. CASE UNCHANGED class
  BY <1>1, <1>2 DEF ClassViews, ViewsOf, ClassShape, Current, Before, Older, Held
<1>3. CASE /\ class # None /\ ~class.finalizer /\ ~class.deleting
           /\ class' = [class EXCEPT !.finalizer = TRUE]
  <2>1. /\ class \in Class /\ class' # None /\ class'.uid = class.uid
        /\ class'.deleting = class.deleting /\ class'.finalizer /\ class.uid = lastUid
    BY <1>3, UidsNat DEF TypeOK, Class, ClassViews, ViewsOf
  <2>2. cached # None => Current(class', lastUid, cached)
    <3> SUFFICES ASSUME cached # None PROVE Current(class', lastUid, cached)
      OBVIOUS
    <3>1. ~cached.finalizer
      BY <1>1, <1>3 DEF ClassViews, ViewsOf, Before, Held
    <3>2. Current(class, lastUid, cached)
      BY DEF ClassViews, ViewsOf
    <3> QED
      BY <2>1, <3>1, <3>2, <1>3 DEF Current, Before, Older, Held
  <2>3. (Current(class, lastUid, cached))' = Current(class', lastUid, cached)
    BY <1>1 DEF Current, Before, Older, Held
  <2> QED
    BY <1>1, <2>1, <2>2, <2>3 DEF ClassViews, ViewsOf, ClassShape
<1> QED
  BY <1>2, <1>3 DEF AddClassFinalizer

LEMMA HearViews ==
    ASSUME TypeOK, ClassViews, HearClass
    PROVE  ClassViews'
<1>1. cached' = class /\ UNCHANGED <<class, lastUid, rec>>
  BY DEF HearClass, server
<1>2. ASSUME class # None
      PROVE  /\ Current(class, lastUid, class)
             /\ rec # None => Before(class, rec.object, class)
  <2>1. class \in Class /\ class.uid = lastUid /\ class.uid \in Nat
    BY <1>2, UidsNat DEF TypeOK, ClassViews, ViewsOf, Class
  <2>2. Before(class, class, class)
    BY <1>2 DEF Before, Older, Held
  <2>3. Current(class, lastUid, class)
    BY <1>2, <2>1, <2>2 DEF Current, Older
  <2>4. rec # None => Older(rec.object, class)
    BY <1>2 DEF ClassViews, ViewsOf, Current
  <2> QED
    BY <1>2, <2>3, <2>4 DEF Before, Held
<1>3. (ViewsOf(class, lastUid))'
  BY <1>1, <1>2 DEF ClassViews, ViewsOf, Current, Before, Older, Held
<1> QED
  BY <1>1, <1>3 DEF ClassViews, ClassShape

LEMMA StartViews ==
    ASSUME TypeOK, ClassViews, StartClass
    PROVE  ClassViews'
<1>1. UNCHANGED <<class, lastUid, cached>>
  BY DEF StartClass, server
<1>2. CASE rec' = None
  BY <1>1, <1>2 DEF ClassViews, ViewsOf, ClassShape, Current, Before, Older, Held
<1>3. CASE /\ cached # None /\ ~(cached.deleting /\ ~cached.finalizer)
           /\ rec' = [step |-> ClassStep(cached), object |-> cached, config |-> None]
  <2>1. rec'.object = cached /\ rec'.step = ClassStep(cached)
    BY <1>3
  <2>2. Current(class, lastUid, cached) /\ Before(class, cached, cached)
    BY <1>3 DEF ClassViews, ViewsOf, Current
  <2>3. (ViewsOf(class, lastUid))'
    BY <1>1, <2>1, <2>2 DEF ClassViews, ViewsOf, Current, Before, Older, Held
  <2>4. ClassShape'
    BY <1>3, <2>1 DEF ClassShape, ClassStep
  <2> QED
    BY <2>3, <2>4 DEF ClassViews
<1> QED
  BY <1>2, <1>3 DEF StartClass

LEMMA ConfigViews ==
    ASSUME TypeOK, ClassViews, ReadClassConfig
    PROVE  ClassViews'
<1>1. UNCHANGED <<class, lastUid, cached>> /\ rec \in ClassReconcile /\ rec.step = "config"
      /\ rec # None
  BY RecOf DEF ReadClassConfig, server, AtClass
<1>2. rec' = None \/ rec' = [rec EXCEPT !.step = "apply", !.config = config]
  BY DEF ReadClassConfig
<1>3. rec' # None => rec'.object = rec.object /\ rec'.step = "apply"
  BY <1>1, <1>2 DEF ClassReconcile
<1>4. (ViewsOf(class, lastUid))'
  BY <1>1, <1>3 DEF ClassViews, ViewsOf, Current, Before, Older, Held
<1>5. ClassShape'
  BY <1>1, <1>3 DEF ClassViews, ClassShape
<1> QED
  BY <1>4, <1>5 DEF ClassViews

LEMMA NextViews == TypeOK /\ ClassViews /\ [Next]_vars => ClassViews'
<1> SUFFICES ASSUME TypeOK, ClassViews, [Next]_vars PROVE ClassViews'
  OBVIOUS
<1> USE DEF server, classController, groupController
<1>1. ASSUME UNCHANGED <<class, lastUid, cached>>, UNCHANGED rec \/ rec' = None
      PROVE  ClassViews'
  BY <1>1 DEF ClassViews, ViewsOf, ClassShape, Current, Before, Older, Held
<1>2. CASE Relabel
  <2>1. class \in Class /\ class # None /\ UNCHANGED <<lastUid, cached, rec>>
    BY <1>2 DEF Relabel, TypeOK
  <2>2. PICK l \in Labels \cup {None} : class' = [class EXCEPT !.label = l]
    BY <1>2 DEF Relabel
  <2>3. /\ class' \in Class /\ class'.uid = class.uid /\ class'.finalizer = class.finalizer
        /\ class'.deleting = class.deleting
    BY <2>1, <2>2 DEF Class
  <2> QED
    BY <2>1, <2>3, KeptViews
<1>3. CASE Environment
  BY <1>1, <1>2, <1>3, CreateViews, DeleteViews
  DEF Environment, Reconfigure, Collect, Retag, TakeLabel, Attach, Detach, DeleteGroup,
      CreateAbroad
<1>4. CASE Restart
  BY <1>4 DEF Restart, ClassViews, ViewsOf, ClassShape
<1>5. CASE ReconcileClass \/ ClassFault
  BY <1>1, <1>5, StartViews, AddViews, RemoveViews, ConfigViews
  DEF ReconcileClass, ApplyClass, CreateHome, ClassFault, RetryClass
<1>6. ASSUME NEW g \in Groups, HearGroup(g) \/ ReconcileGroup(g) \/ GroupFault(g)
      PROVE  ClassViews'
  BY <1>1, <1>6
  DEF HearGroup, ReconcileGroup, StartGroup, FetchClass, ApplyLabels, DropLegacy, GroupFault
<1>7. CASE UNCHANGED vars
  BY <1>1, <1>7 DEF vars
<1> QED
  BY <1>3, <1>4, <1>5, <1>6, <1>7, HearViews DEF Next

LEMMA InitViews == Init => ClassViews
<1> SUFFICES ASSUME Init PROVE ClassViews
  OBVIOUS
<1>1. PICK s \in Starts :
         /\ lastUid = IF s.old = {} THEN 0 ELSE 1
         /\ class = IF s.old = {} THEN None ELSE OldClass(s.label)
  BY DEF Init
<1>2. cached = None /\ rec = None
  BY DEF Init
<1> QED
  BY <1>1, <1>2 DEF ClassViews, ViewsOf, ClassShape, OldClass

\* A group is applied only for the class that is there, under our finalizer, in
\* spite of the age of the store: the cleanup of a class comes after everything
\* made for it, and a class made anew is not mistaken for the one before.
THEOREM AppliesWhileHeld == Spec => []AppliedWhileHeld
<1>1. ClassViews => AppliedWhileHeld
  BY DEF ClassViews, ViewsOf, ClassShape, Current, Before, Held, AppliedWhileHeld, AtClass
<1>2. Spec => []ClassViews
  BY InitViews, NextViews, TypeCorrect, PTL DEF Spec
<1> QED
  BY <1>1, <1>2, PTL

(***************************************************************************)
(* What a copy of a group is worth.                                        *)
(***************************************************************************)

\* A copy with the resourceVersion of the group shows the labels of its users and
\* its owners.
Owners(o) == {u \in Uids : o.owners[u] # {}}

Faithful(copy, o) ==
    copy.fresh => o # None /\ copy.team = o.team /\ copy.owners = Owners(o)

CopiesFaithful ==
    \A g \in Groups :
        /\ seen[g] # None => Faithful(seen[g], group[g])
        /\ sync[g] # None => Faithful(sync[g].object, group[g])

LEMMA WriteFaithful ==
    ASSUME TypeOK, CopiesFaithful, NEW g \in Groups, NEW o \in Group \cup {None}, Write(g, o)
    PROVE  \A h \in Groups :
              /\ h # g => group'[h] = group[h]
              /\ (seen[h] # None => Faithful(seen[h], group[h]))'
<1>1. group' = [group EXCEPT ![g] = o] /\ group \in [Groups -> Group \cup {None}]
  BY DEF Write, TypeOK
<1>2. CASE o = group[g]
  <2>1. group' = group /\ seen' = seen
    BY <1>1, <1>2 DEF Write
  <2> QED
    BY <2>1 DEF CopiesFaithful, Faithful
<1>3. CASE o # group[g]
  <2>1. seen' = [seen EXCEPT ![g] = Outdate(seen[g])] /\ seen \in [Groups -> Copy \cup {None}]
    BY <1>3 DEF Write, TypeOK
  <2>2. Outdate(seen[g]) # None => ~Outdate(seen[g]).fresh
    BY <2>1, OutdateType
  <2> QED
    BY <1>1, <2>1, <2>2 DEF CopiesFaithful, Faithful
<1> QED
  BY <1>2, <1>3

\* The reconcile of a group writes it: its copy is let go of or outdated.
LEMMA OwnFaithful ==
    ASSUME TypeOK, CopiesFaithful, NEW g \in Groups, NEW o \in Group \cup {None}, Write(g, o),
           \A h \in Groups : h # g => sync'[h] = sync[h],
           sync'[g] # None => ~sync'[g].object.fresh
    PROVE  CopiesFaithful'
  BY WriteFaithful DEF CopiesFaithful, Faithful

LEMMA BesideFaithful ==
    ASSUME TypeOK, CopiesFaithful, NEW g \in Groups, NEW o \in Group \cup {None},
           WriteBeside(g, o)
    PROVE  CopiesFaithful'
<1>0. Write(g, o) /\ sync \in [Groups -> GroupReconcile \cup {None}]
  BY DEF WriteBeside, TypeOK
<1>1. CASE o = group[g] \/ sync[g] = None
  <2>1. sync' = sync
    BY <1>1 DEF WriteBeside
  <2>2. (sync[g] # None => Faithful(sync[g].object, group[g]))'
    <3>1. CASE sync[g] = None
      BY <2>1, <3>1
    <3>2. CASE o = group[g]
      <4>1. group' = group
        BY <1>0, <3>2 DEF Write, TypeOK
      <4> QED
        BY <2>1, <4>1 DEF CopiesFaithful, Faithful
    <3> QED
      BY <1>1, <3>1, <3>2
  <2> QED
    BY <1>0, <2>1, <2>2, WriteFaithful DEF CopiesFaithful, Faithful
<1>2. CASE ~(o = group[g] \/ sync[g] = None)
  <2>1. sync' = [sync EXCEPT ![g] = [sync[g] EXCEPT !.object = Outdate(sync[g].object)]]
    BY <1>2 DEF WriteBeside
  <2>2. Outdate(sync[g].object) \in Copy /\ Outdate(sync[g].object) # None
    BY <1>2, SyncOf, OutdateType, NoneAssumption
  <2>3. PICK copy \in Copy : copy = Outdate(sync[g].object) /\ ~copy.fresh
    BY <1>2, <2>2, SyncOf, OutdateType
  <2>4. sync'[g].object = copy
    BY <1>0, <1>2, <2>1, <2>3, SyncOf DEF GroupReconcile
  <2>5. \A h \in Groups : h # g => sync'[h] = sync[h]
    BY <1>0, <2>1
  <2> QED
    BY <1>0, <2>3, <2>4, <2>5, OwnFaithful
<1> QED
  BY <1>1, <1>2

\* No group is written, and the reconciles keep what their copies show.
LEMMA KeptFaithful ==
    ASSUME CopiesFaithful, UNCHANGED <<group, seen>>,
           \A g \in Groups : sync'[g] # None =>
              /\ sync[g] # None
              /\ sync'[g].object.fresh = sync[g].object.fresh
              /\ sync'[g].object.team = sync[g].object.team
              /\ sync'[g].object.owners = sync[g].object.owners
    PROVE  CopiesFaithful'
  BY DEF CopiesFaithful, Faithful

\* A write of ours keeps what others wrote to a group.
Keeps(o, new) ==
    o # None /\ new # None =>
        /\ new.team = o.team
        /\ o.label.by \ {"addon"} # {} => new.label.value = o.label.value

LEMMA AppliedKeeps ==
    ASSUME NEW cell \in Cell, NEW v \in Labels \cup {None}, ~Conflict(cell, v),
           cell.by \ {"addon"} # {}
    PROVE  Applied(cell, v).value = cell.value
  BY DEF Applied, Conflict, Cell

\* An owner reference that is applied is there.
LEMMA AppliedOwned ==
    ASSUME NEW owners \in [Uids -> SUBSET Managers], NEW named, NEW u \in named \cap Uids
    PROVE  AppliedOwners(owners, named)[u] # {}
  BY DEF AppliedOwners

LEMMA ClassWrites ==
    ASSUME TypeOK, ReconcileClass
    PROVE  \/ UNCHANGED <<group, seen, sync>>
           \/ \E o \in Group :
                 /\ WriteBeside(Home, o)
                 /\ Keeps(group[Home], o)
                 /\ Ages(group[Home], o)
                 /\ AtClass("apply") /\ (rec.config.setOwnerReferences => Owned(o))
<1> DEFINE Goal == \/ UNCHANGED <<group, seen, sync>>
                   \/ \E o \in Group :
                         /\ WriteBeside(Home, o)
                         /\ Keeps(group[Home], o)
                         /\ Ages(group[Home], o)
                         /\ AtClass("apply") /\ (rec.config.setOwnerReferences => Owned(o))
<1>0. group[Home] \in Group \cup {None}
  BY GroupsKnown DEF TypeOK
<1>1. CASE StartClass \/ AddClassFinalizer \/ RemoveClassFinalizer \/ ReadClassConfig
  BY <1>1 DEF StartClass, AddClassFinalizer, RemoveClassFinalizer, ReadClassConfig, server,
              groupController
<1>a. ASSUME AtClass("apply"), rec.config.setOwnerReferences
      PROVE  rec.object.uid \in NamedOwners \cap Uids
  BY <1>a, RecOf DEF AtClass, NamedOwners, Class
<1>2. CASE ApplyClass
  <2>1. rec.object.label \in Labels \cup {None} /\ AtClass("apply")
    BY <1>2, RecOf DEF ApplyClass, AtClass, Class
  <2>2. PICK o \in Group : o = IF group[Home] = None THEN NewGroup ELSE group[Home]
    BY <1>0, NewGroupType
  <2>3. PICK new : new = AppliedGroup(o, rec.object.label, NamedOwners)
    OBVIOUS
  <2>4. /\ new \in Group /\ new.team = o.team /\ new.label = Applied(o.label, rec.object.label)
        /\ new.owners = AppliedOwners(o.owners, NamedOwners)
        /\ new.legacy = o.legacy /\ new.other = o.other /\ new.deleting = o.deleting
    BY <2>1, <2>3, AppliedGroupType
  <2>5. \/ UNCHANGED <<group, seen, sync>>
        \/ WriteBeside(Home, new) /\ ~Conflict(o.label, rec.object.label)
    BY <1>2, <2>2, <2>3 DEF ApplyClass, AppliedGroup
  <2>6. ~Conflict(o.label, rec.object.label) => Keeps(group[Home], new)
    BY <2>1, <2>2, <2>4, AppliedKeeps DEF Keeps, Group
  <2>7. Ages(group[Home], new)
    BY <2>2, <2>4, NoneAssumption DEF Ages, Excused, NewGroup
  <2>8. ASSUME rec.config.setOwnerReferences PROVE Owned(new)
    <3>1. new.owners[rec.object.uid] # {}
      BY <1>a, <2>1, <2>2, <2>4, <2>8, AppliedOwned DEF Group
    <3> QED
      BY <1>a, <2>1, <2>4, <2>8, <3>1, NoneAssumption DEF Owned
  <2> QED
    BY <2>1, <2>4, <2>5, <2>6, <2>7, <2>8
<1>3. CASE CreateHome
  <2>1. AtClass("apply")
    BY <1>3 DEF CreateHome
  <2>2. /\ GroupOfClass \in Group /\ ~GroupOfClass.legacy /\ ~GroupOfClass.deleting
        /\ \A u \in NamedOwners \cap Uids : GroupOfClass.owners[u] # {}
    BY <2>1, MadeType DEF AtClass
  <2>3. Ages(group[Home], GroupOfClass)
    BY <2>2 DEF Ages, Excused
  <2>4. rec.config.setOwnerReferences => Owned(GroupOfClass)
    BY <1>a, <2>1, <2>2, NoneAssumption DEF Owned
  <2>5. \/ UNCHANGED <<group, seen, sync>>
        \/ group[Home] = None /\ WriteBeside(Home, GroupOfClass)
    BY <1>3 DEF CreateHome
  <2> QED
    BY <2>1, <2>2, <2>3, <2>4, <2>5 DEF Keeps
<1> QED
  BY <1>1, <1>2, <1>3 DEF ReconcileClass

\* The reconcile of a group leaves the groups alone, going on with its copy or
\* taking one from the store; or it writes its group, and its copy is old.
LEMMA ReconcileWrites ==
    ASSUME TypeOK, CopiesFaithful, NEW g \in Groups, ReconcileGroup(g)
    PROVE  /\ \A h \in Groups : h # g => sync'[h] = sync[h]
           /\ \/ /\ UNCHANGED <<group, seen>>
                 /\ sync'[g] # None =>
                      \E copy \in Copy :
                         /\ sync'[g].object.fresh = copy.fresh
                         /\ sync'[g].object.team = copy.team
                         /\ sync'[g].object.owners = copy.owners
                         /\ Faithful(copy, group[g])
              \/ \E o \in Group \cup {None} :
                    /\ Write(g, o) /\ group[g] # None /\ Keeps(group[g], o)
                    /\ Ages(group[g], o) /\ Stays(group[g], o)
                    /\ sync'[g] # None => ~sync'[g].object.fresh
<1> DEFINE Left ==
              /\ UNCHANGED <<group, seen>>
              /\ sync'[g] # None =>
                   \E copy \in Copy :
                      /\ sync'[g].object.fresh = copy.fresh
                      /\ sync'[g].object.team = copy.team
                      /\ sync'[g].object.owners = copy.owners
                      /\ Faithful(copy, group[g])
           Written ==
              \E o \in Group \cup {None} :
                 /\ Write(g, o) /\ group[g] # None /\ Keeps(group[g], o)
                 /\ Ages(group[g], o) /\ Stays(group[g], o)
                 /\ sync'[g] # None => ~sync'[g].object.fresh
           Alone == \A h \in Groups : h # g => sync'[h] = sync[h]
<1> USE DEF server, classController, groupController
<1>0. /\ group[g] \in Group \cup {None} /\ sync \in [Groups -> GroupReconcile \cup {None}]
      /\ seen[g] \in Copy \cup {None}
      /\ sync[g] # None => sync[g] \in GroupReconcile /\ sync[g].object \in Copy
  BY SyncOf DEF TypeOK
<1>1. ASSUME FinishGroup(g) \/ RetryGroup(g) PROVE Alone /\ sync'[g] = None
  BY <1>0, <1>1 DEF FinishGroup, RetryGroup
<1>2. CASE StartGroup(g)
  <2>1. UNCHANGED <<group, seen>> /\ sync[g] = None
    BY <1>2 DEF StartGroup
  <2>2. CASE seen[g] = None
    BY <1>2, <2>1, <2>2 DEF StartGroup
  <2>3. CASE seen[g] # None
    <3>1. sync' = [sync EXCEPT ![g] = [step |-> "class", object |-> seen[g]]]
      BY <1>2, <2>3 DEF StartGroup
    <3>2. sync'[g].object = seen[g] /\ Alone
      BY <1>0, <3>1
    <3>3. Faithful(seen[g], group[g])
      BY <2>3 DEF CopiesFaithful
    <3> QED
      BY <1>0, <2>1, <2>3, <3>2, <3>3
  <2> QED
    BY <2>2, <2>3
<1>3. CASE FetchClass(g)
  <2>1. UNCHANGED <<group, seen>> /\ sync[g] # None
    BY <1>3 DEF FetchClass, AtGroup
  <2>2. CASE RetryGroup(g)
    BY <1>1, <2>1, <2>2
  <2>3. CASE ~RetryGroup(g)
    <3>1. PICK copy \in Copy :
             /\ sync' = [sync EXCEPT ![g] = [sync[g] EXCEPT !.step = "labels", !.object = copy]]
             /\ copy.fresh = sync[g].object.fresh /\ copy.team = sync[g].object.team
             /\ copy.owners = sync[g].object.owners
      BY <1>3, <2>3, FetchType
    <3>2. sync'[g].object = copy /\ Alone
      BY <1>0, <2>1, <3>1 DEF GroupReconcile
    <3>3. Faithful(copy, group[g])
      BY <2>1, <3>1 DEF CopiesFaithful, Faithful
    <3> QED
      BY <2>1, <3>2, <3>3
  <2> QED
    BY <2>2, <2>3
<1>4. CASE ApplyLabels(g)
  <2>1. sync[g] # None /\ sync[g] \in GroupReconcile /\ sync[g].object \in Copy
    BY <1>0, <1>4 DEF ApplyLabels, AtGroup
  <2>2. CASE GotoGroup(g, "finalizers") /\ UNCHANGED <<group, seen, due, todo>>
    <3>1. Alone /\ sync'[g].object = sync[g].object
      BY <1>0, <2>1, <2>2 DEF GotoGroup, GroupReconcile
    <3>2. Faithful(sync[g].object, group[g])
      BY <2>1 DEF CopiesFaithful
    <3> QED
      BY <2>1, <2>2, <3>1, <3>2
  <2>3. CASE RetryGroup(g) /\ UNCHANGED <<group, seen, due>>
    BY <1>1, <2>3
  <2>4. CASE /\ group[g] # None /\ sync[g].object.fresh
             /\ ~Conflict(group[g].label, sync[g].object.label)
             /\ Write(g, AppliedCopy(group[g], sync[g].object))
             /\ sync' = [sync EXCEPT ![g].step = "finalizers", ![g].object.fresh = FALSE]
    <3>1. PICK copy \in Copy : copy = sync[g].object
      BY <2>1
    <3>2. PICK new : new = AppliedCopy(group[g], copy)
      OBVIOUS
    <3>3. /\ new \in Group /\ new.team = (group[g].team \/ copy.team)
          /\ new.label = Applied(group[g].label, copy.label)
          /\ new.owners = AppliedOwners(group[g].owners, copy.owners)
          /\ new.legacy = group[g].legacy /\ new.other = group[g].other
          /\ new.deleting = group[g].deleting
      BY <1>0, <2>4, <3>2, AppliedCopyType
    <3>4. copy.team = group[g].team /\ copy.owners = Owners(group[g])
      BY <2>1, <2>4, <3>1 DEF CopiesFaithful, Faithful
    <3>5. group[g].team \in BOOLEAN /\ copy.team \in BOOLEAN
          /\ group[g].label \in Cell /\ copy.label \in Labels \cup {None}
      BY <1>0, <2>4 DEF Group, Copy
    <3>6. new.team = group[g].team
      BY <3>3, <3>4, <3>5
    <3>7. Keeps(group[g], new)
      BY <2>4, <3>1, <3>3, <3>5, <3>6, AppliedKeeps DEF Keeps
    <3>8. Alone /\ ~sync'[g].object.fresh
      BY <1>0, <2>1, <2>4 DEF GroupReconcile, Copy
    <3>9. Owned(group[g]) => Owned(new)
      <4> SUFFICES ASSUME NEW u \in Uids, group[g].owners[u] # {} PROVE Owned(new)
        BY DEF Owned
      <4>1. u \in copy.owners \cap Uids
        BY <3>4 DEF Owners
      <4>2. new.owners[u] # {}
        BY <1>0, <2>4, <3>3, <4>1, AppliedOwned DEF Group
      <4> QED
        BY <3>3, <4>2, NoneAssumption DEF Owned
    <3>10. Ages(group[g], new) /\ Stays(group[g], new)
      BY <1>0, <2>4, <3>3, <3>9, KeptAges
    <3> QED
      BY <2>4, <3>1, <3>2, <3>3, <3>7, <3>8, <3>10
  <2> QED
    BY <1>4, <2>2, <2>3, <2>4 DEF ApplyLabels
<1>5. CASE DropLegacy(g)
  <2>1. sync[g] # None /\ sync[g].object \in Copy
    BY <1>0, <1>5 DEF DropLegacy, AtGroup
  <2>2. CASE (FinishGroup(g) \/ RetryGroup(g)) /\ UNCHANGED <<group, seen, due>>
    BY <1>1, <2>2
  <2>3. CASE /\ group[g] # None
             /\ Write(g, Stored([group[g] EXCEPT !.legacy = FALSE,
                                                 !.other = sync[g].object.other]))
             /\ FinishGroup(g)
    <3>1. PICK new : new = [group[g] EXCEPT !.legacy = FALSE, !.other = sync[g].object.other]
      OBVIOUS
    <3>2. /\ new \in Group /\ new.team = group[g].team /\ new.label = group[g].label
          /\ ~new.legacy /\ new.deleting = group[g].deleting /\ new.owners = group[g].owners
      BY <1>0, <2>1, <2>3, <3>1 DEF Group, Copy
    <3>3. Stored(new) \in Group \cup {None} /\ Keeps(group[g], Stored(new))
      BY <3>2, StoredType DEF Stored, Keeps
    <3>4. new # None /\ (Kin(group[g]) => Kin(new))
      BY <2>3, <3>2, NoneAssumption DEF Kin, Owned
    <3>5. Ages(group[g], Stored(new)) /\ Stays(group[g], Stored(new))
      BY <3>2, <3>4, StoredAges
    <3> QED
      BY <1>1, <2>3, <3>1, <3>3, <3>5
  <2> QED
    BY <1>5, <2>2, <2>3 DEF DropLegacy
<1> QED
  BY <1>2, <1>3, <1>4, <1>5 DEF ReconcileGroup

LEMMA NextFaithful == TypeOK /\ CopiesFaithful /\ [Next]_vars => CopiesFaithful'
<1> SUFFICES ASSUME TypeOK, CopiesFaithful, [Next]_vars PROVE CopiesFaithful'
  OBVIOUS
<1> USE DEF server, classController, groupController
<1>1. CASE UNCHANGED <<group, seen, sync>>
  BY <1>1, KeptFaithful
<1>2. CASE Environment
  BY <1>1, <1>2, GroupWrites, BesideFaithful
  DEF Environment, BesideUs, CreateClass, Relabel, DeleteClass, Reconfigure
<1>3. CASE HearClass
  BY <1>1, <1>3 DEF HearClass
<1>4. CASE ReconcileClass
  BY <1>1, <1>4, ClassWrites, BesideFaithful, GroupsKnown
<1>5. CASE ClassFault
  BY <1>1, <1>5 DEF ClassFault
<1>6. ASSUME NEW g \in Groups, HearGroup(g) PROVE CopiesFaithful'
  <2>1. /\ UNCHANGED <<group, sync>> /\ seen \in [Groups -> Copy \cup {None}]
        /\ seen' = [seen EXCEPT ![g] = IF group[g] = None THEN None ELSE CopyOf(group[g])]
    BY <1>6 DEF HearGroup, TypeOK
  <2>2. group[g] # None => Faithful(CopyOf(group[g]), group[g])
    BY DEF Faithful, CopyOf, Owners
  <2> QED
    BY <2>1, <2>2 DEF CopiesFaithful, Faithful
<1>7. ASSUME NEW g \in Groups, ReconcileGroup(g) PROVE CopiesFaithful'
  <2>1. ASSUME NEW o \in Group \cup {None}, Write(g, o),
               sync'[g] # None => ~sync'[g].object.fresh,
               \A h \in Groups : h # g => sync'[h] = sync[h]
        PROVE  CopiesFaithful'
    BY <2>1, OwnFaithful
  <2>2. ASSUME UNCHANGED <<group, seen>>,
               sync'[g] # None => \E copy \in Copy :
                  /\ sync'[g].object.fresh = copy.fresh
                  /\ sync'[g].object.team = copy.team
                  /\ sync'[g].object.owners = copy.owners
                  /\ Faithful(copy, group[g]),
               \A h \in Groups : h # g => sync'[h] = sync[h]
        PROVE  CopiesFaithful'
    BY <2>2 DEF CopiesFaithful, Faithful
  <2> QED
    BY <1>7, <2>1, <2>2, ReconcileWrites
<1>8. ASSUME NEW g \in Groups, GroupFault(g) PROVE CopiesFaithful'
  <2>1. UNCHANGED <<group, seen>> /\ sync' = [sync EXCEPT ![g] = None]
    BY <1>8 DEF GroupFault, RetryGroup, FinishGroup
  <2> QED
    BY <2>1, KeptFaithful DEF TypeOK
<1>9. CASE Restart
  BY <1>9 DEF Restart, CopiesFaithful
<1> QED
  BY <1>1, <1>2, <1>3, <1>4, <1>5, <1>6, <1>7, <1>8, <1>9 DEF Next, vars

LEMMA InitFaithful == Init => CopiesFaithful
  BY DEF Init, CopiesFaithful

\* Neither controller undoes what another wrote to the labels of a group or brings
\* back one that is gone, however old the copy is that it applies: a copy with the
\* resourceVersion shows the labels of the users, one without is refused, and a
\* value others hold conflicts.
THEOREM OthersAreKept == Spec => OthersKept
<1> DEFINE Kept(g) ==
        /\ (ReconcileClass \/ ReconcileGroup(g)) /\ group[g] # None /\ group'[g] # None =>
              /\ group'[g].team = group[g].team
              /\ group[g].label.by \ {"addon"} # {} =>
                    group'[g].label.value = group[g].label.value
        /\ ReconcileGroup(g) /\ group[g] = None => group'[g] = None
<1>1. TypeOK /\ CopiesFaithful /\ [Next]_vars => [\A g \in Groups : Kept(g)]_vars
  <2> SUFFICES ASSUME TypeOK, CopiesFaithful, NEW g \in Groups PROVE Kept(g)
    OBVIOUS
  <2>1. ASSUME NEW o \in Group \cup {None}, Write(g, o) PROVE group'[g] = o
    BY <2>1 DEF Write, TypeOK
  <2>2. ASSUME ReconcileClass PROVE group'[g] = group[g] \/ Keeps(group[g], group'[g])
    <3>1. CASE UNCHANGED group
      BY <3>1
    <3>2. ASSUME NEW o \in Group, WriteBeside(Home, o), Keeps(group[Home], o)
          PROVE  group'[g] = group[g] \/ Keeps(group[g], group'[g])
      <4>1. group' = [group EXCEPT ![Home] = o] /\ group \in [Groups -> Group \cup {None}]
        BY <3>2 DEF WriteBeside, Write, TypeOK
      <4> QED
        BY <3>2, <4>1
    <3> QED
      BY <2>2, <3>1, <3>2, ClassWrites
  <2>3. ASSUME ReconcileGroup(g)
        PROVE  \/ group'[g] = group[g]
               \/ group[g] # None /\ Keeps(group[g], group'[g])
    BY <2>1, <2>3, ReconcileWrites
  <2> QED
    BY <2>2, <2>3 DEF Keeps
<1>2. Spec => [](TypeOK /\ CopiesFaithful)
  BY InitType, NextType, InitFaithful, NextFaithful, PTL DEF Spec
<1> QED
  BY <1>1, <1>2, PTL DEF Spec, OthersKept

(***************************************************************************)
(* The finalizer of older versions.                                        *)
(***************************************************************************)

\* Whoever knows a group that has the finalizer knows of it, and until it is gone
\* a reconcile of the group is due, in progress or to come with its next event.
Remembered(g) ==
    group[g] # None /\ group[g].legacy =>
        /\ seen[g] # None => seen[g].legacy
        /\ sync[g] # None => sync[g].object.legacy
        /\ g \in todo \/ sync[g] # None \/ seen[g] = None \/ ~seen[g].fresh

LegacyRemembered == \A g \in Groups : Remembered(g) /\ Excused(group[g])

LEMMA OutdateLegacy ==
    ASSUME NEW copy \in Copy \cup {None}
    PROVE  /\ Outdate(copy) = None <=> copy = None
           /\ copy # None => Outdate(copy).legacy = copy.legacy
<1>1. CASE copy = None
  BY <1>1 DEF Outdate
<1>2. CASE copy # None
  BY <1>2, NoneAssumption DEF Outdate, Copy
<1> QED
  BY <1>1, <1>2

\* A write outdates the store, which then hears of the group again.
LEMMA WriteRemembers ==
    ASSUME TypeOK, LegacyRemembered, NEW g \in Groups, NEW o \in Group \cup {None},
           Write(g, o), Ages(group[g], o),
           \A h \in Groups :
              /\ h \in todo => h \in todo'
              /\ sync[h] # None /\ group'[h] # None /\ group'[h].legacy => sync'[h] # None
              /\ sync'[h] # None =>
                    sync[h] # None /\ (sync[h].object.legacy => sync'[h].object.legacy)
    PROVE  LegacyRemembered'
<1> SUFFICES ASSUME NEW h \in Groups PROVE (Remembered(h) /\ Excused(group[h]))'
  BY DEF LegacyRemembered
<1>0. /\ group' = [group EXCEPT ![g] = o] /\ group \in [Groups -> Group \cup {None}]
      /\ seen \in [Groups -> Copy \cup {None}] /\ Remembered(h) /\ Excused(group[h])
  BY DEF Write, TypeOK, LegacyRemembered
<1>1. \/ seen'[h] = seen[h] /\ group'[h] = group[h]
      \/ h = g /\ seen'[h] = Outdate(seen[h]) /\ group'[h] = o
  BY <1>0 DEF Write
<1>2. CASE seen'[h] = seen[h] /\ group'[h] = group[h]
  BY <1>0, <1>2 DEF Remembered, Excused
<1>3. CASE h = g /\ seen'[h] = Outdate(seen[h]) /\ group'[h] = o
  <2>1. Excused(o) /\ (o # None /\ o.legacy => group[g] # None /\ group[g].legacy)
    BY <1>0, <1>3 DEF Ages
  <2>2. /\ seen'[h] = None <=> seen[h] = None
        /\ seen[h] # None => seen'[h].legacy = seen[h].legacy
        /\ seen'[h] # None => ~seen'[h].fresh
    BY <1>0, <1>3, OutdateType, OutdateLegacy
  <2>3. Remembered(h)'
    BY <1>0, <1>3, <2>1, <2>2 DEF Remembered
  <2> QED
    BY <1>3, <2>1, <2>3 DEF Excused
<1> QED
  BY <1>1, <1>2, <1>3

LEMMA BesideRemembers ==
    ASSUME TypeOK, LegacyRemembered, NEW g \in Groups, NEW o \in Group \cup {None},
           WriteBeside(g, o), Ages(group[g], o), UNCHANGED todo
    PROVE  LegacyRemembered'
<1>1. ASSUME NEW h \in Groups
      PROVE  \/ sync'[h] = sync[h]
             \/ /\ sync[h] # None /\ sync'[h] # None
                /\ sync'[h].object.legacy = sync[h].object.legacy
  <2>1. CASE sync' = sync
    BY <2>1
  <2>2. CASE /\ sync[g] # None
             /\ sync' = [sync EXCEPT ![g] = [sync[g] EXCEPT !.object = Outdate(sync[g].object)]]
    <3>1. PICK copy \in Copy : /\ copy = Outdate(sync[g].object)
                               /\ copy.legacy = sync[g].object.legacy
      BY <2>2, SyncOf, OutdateType, OutdateLegacy, NoneAssumption
    <3>2. PICK new : new = [sync[g] EXCEPT !.object = copy]
      OBVIOUS
    <3>3. new \in GroupReconcile /\ new.object = copy
      BY <2>2, <3>2, SyncOf DEF GroupReconcile
    <3>4. new # None
      BY <3>3, NoneAssumption
    <3>5. sync' = [sync EXCEPT ![g] = new] /\ sync \in [Groups -> GroupReconcile \cup {None}]
      BY <2>2, <3>1, <3>2 DEF TypeOK
    <3> QED
      BY <2>2, <3>1, <3>3, <3>4, <3>5
  <2> QED
    BY <2>1, <2>2 DEF WriteBeside
<1>2. Write(g, o)
  BY DEF WriteBeside
<1> QED
  BY <1>1, <1>2, WriteRemembers

\* The group keeps what it has, and its reconcile what its copy shows.
LEMMA KeptRemembered ==
    ASSUME LegacyRemembered, UNCHANGED <<group, seen>>,
           \A g \in Groups :
              /\ g \in todo \/ sync[g] # None =>
                    \/ g \in todo' \/ sync'[g] # None
                    \/ group[g] = None \/ ~group[g].legacy \/ seen[g] = None
              /\ sync'[g] # None /\ group[g] # None /\ group[g].legacy => sync'[g].object.legacy
    PROVE  LegacyRemembered'
  BY DEF LegacyRemembered, Remembered, Excused

LEMMA ReconcileRemembers ==
    ASSUME TypeOK, CopiesFaithful, LegacyRemembered, NEW g \in Groups,
           ReconcileGroup(g) \/ GroupFault(g)
    PROVE  LegacyRemembered'
<1> USE DEF server, classController, groupController
<1>0. /\ group \in [Groups -> Group \cup {None}] /\ sync \in [Groups -> GroupReconcile \cup {None}]
      /\ sync[g] # None => sync[g] \in GroupReconcile /\ sync[g].object \in Copy
      /\ \A h \in Groups : Remembered(h)
      /\ None \notin GroupReconcile
  BY SyncOf, NoneAssumption DEF TypeOK, LegacyRemembered
<1>1. ASSUME RetryGroup(g), UNCHANGED <<group, seen>> PROVE LegacyRemembered'
  <2>1. sync' = [sync EXCEPT ![g] = None] /\ todo' = todo \cup {g}
    BY <1>1 DEF RetryGroup, FinishGroup
  <2> QED
    BY <1>0, <1>1, <2>1, KeptRemembered DEF Remembered
<1>2. CASE StartGroup(g)
  <2>1. UNCHANGED <<group, seen>> /\ sync[g] = None /\ todo' = todo \ {g}
    BY <1>2 DEF StartGroup
  <2>2. CASE seen[g] = None
    BY <1>0, <1>2, <2>1, <2>2, KeptRemembered DEF StartGroup, Remembered
  <2>3. CASE seen[g] # None
    <3>1. PICK new : new = [step |-> "class", object |-> seen[g]]
      OBVIOUS
    <3>2. sync' = [sync EXCEPT ![g] = new]
      BY <1>2, <2>3, <3>1 DEF StartGroup
    <3>3. new \in GroupReconcile /\ new # None /\ new.object = seen[g]
      BY <2>3, <3>1, NoneAssumption DEF GroupReconcile, TypeOK
    <3> QED
      BY <1>0, <2>1, <2>3, <3>2, <3>3, KeptRemembered DEF Remembered
  <2> QED
    BY <2>2, <2>3
<1>3. CASE FetchClass(g)
  <2>1. UNCHANGED <<group, seen>> /\ sync[g] # None
    BY <1>3 DEF FetchClass, AtGroup
  <2>2. CASE ~RetryGroup(g)
    <3>1. PICK copy \in Copy :
             /\ sync' = [sync EXCEPT ![g] = [sync[g] EXCEPT !.step = "labels", !.object = copy]]
             /\ copy.legacy = sync[g].object.legacy
             /\ [sync[g] EXCEPT !.step = "labels", !.object = copy] \in GroupReconcile
      BY <1>3, <2>2, FetchType
    <3>2. sync'[g] # None /\ sync'[g].object = copy /\ \A h \in Groups : h # g => sync'[h] = sync[h]
      BY <1>0, <2>1, <3>1 DEF GroupReconcile
    <3>3. UNCHANGED todo
      BY <1>3, <2>2 DEF FetchClass
    <3> QED
      BY <1>0, <2>1, <3>1, <3>2, <3>3, KeptRemembered DEF Remembered
  <2> QED
    BY <1>1, <2>1, <2>2
<1>4. CASE ApplyLabels(g)
  <2>1. sync[g] # None /\ sync[g] \in GroupReconcile /\ sync[g].object \in Copy
    BY <1>0, <1>4 DEF ApplyLabels, AtGroup
  <2>2. CASE GotoGroup(g, "finalizers") /\ UNCHANGED <<group, seen, due, todo>>
    <3>1. PICK new : new = [sync[g] EXCEPT !.step = "finalizers"]
      OBVIOUS
    <3>2. new \in GroupReconcile /\ new.object = sync[g].object /\ new # None
      BY <2>1, <3>1, NoneAssumption DEF GroupReconcile
    <3>3. sync' = [sync EXCEPT ![g] = new]
      BY <2>2, <3>1 DEF GotoGroup
    <3> QED
      BY <1>0, <2>1, <2>2, <3>2, <3>3, KeptRemembered DEF Remembered
  <2>3. CASE RetryGroup(g) /\ UNCHANGED <<group, seen, due>>
    BY <1>1, <2>3
  <2>4. CASE /\ group[g] # None
             /\ Write(g, AppliedCopy(group[g], sync[g].object))
             /\ sync' = [sync EXCEPT ![g].step = "finalizers", ![g].object.fresh = FALSE]
             /\ UNCHANGED todo
    <3>1. PICK copy \in Copy : copy = sync[g].object
      BY <2>1
    <3>2. PICK new : new = AppliedCopy(group[g], copy)
      OBVIOUS
    <3>3. new \in Group /\ new.legacy = group[g].legacy /\ new.other = group[g].other
          /\ new.deleting = group[g].deleting
      BY <1>0, <2>4, <3>2, AppliedCopyType
    <3>4. Ages(group[g], new)
      BY <1>0, <2>4, <3>3 DEF Ages, Excused
    <3>5. PICK old : old = [copy EXCEPT !.fresh = FALSE]
      OBVIOUS
    <3>6. PICK went : went = [sync[g] EXCEPT !.step = "finalizers", !.object = old]
      OBVIOUS
    <3>7. old \in Copy /\ old.legacy = copy.legacy
      BY <3>5 DEF Copy
    <3>8. went \in GroupReconcile /\ went.object = old /\ went # None
      BY <2>1, <3>6, <3>7, NoneAssumption DEF GroupReconcile
    <3>9. sync' = [sync EXCEPT ![g] = went]
      BY <1>0, <2>1, <2>4, <3>1, <3>5, <3>6 DEF GroupReconcile
    <3> QED
      BY <1>0, <2>1, <2>4, <3>1, <3>2, <3>3, <3>4, <3>7, <3>8, <3>9, WriteRemembers
  <2> QED
    BY <1>4, <2>2, <2>3, <2>4 DEF ApplyLabels
<1>5. CASE DropLegacy(g)
  <2>1. sync[g] # None /\ sync[g].object \in Copy
    BY <1>0, <1>5 DEF DropLegacy, AtGroup
  <2>2. CASE ~sync[g].object.legacy /\ FinishGroup(g) /\ UNCHANGED <<group, seen, due, todo>>
    <3>1. sync' = [sync EXCEPT ![g] = None]
      BY <2>2 DEF FinishGroup
    <3> QED
      BY <1>0, <2>1, <2>2, <3>1, KeptRemembered DEF Remembered
  <2>3. CASE RetryGroup(g) /\ UNCHANGED <<group, seen, due>>
    BY <1>1, <2>3
  <2>4. CASE /\ group[g] # None
             /\ Write(g, Stored([group[g] EXCEPT !.legacy = FALSE,
                                                 !.other = sync[g].object.other]))
             /\ FinishGroup(g) /\ UNCHANGED todo
    <3>1. PICK new : new = [group[g] EXCEPT !.legacy = FALSE, !.other = sync[g].object.other]
      OBVIOUS
    <3>2. new \in Group /\ ~new.legacy
      BY <1>0, <2>1, <2>4, <3>1 DEF Group, Copy
    <3>3. Stored(new) \in Group \cup {None} /\ Ages(group[g], Stored(new))
          /\ (Stored(new) # None => ~Stored(new).legacy)
      BY <3>2, StoredType DEF Stored, Ages, Excused
    <3>4. sync' = [sync EXCEPT ![g] = None] /\ group' = [group EXCEPT ![g] = Stored(new)]
      BY <2>4, <3>1 DEF FinishGroup, Write
    <3> QED
      BY <1>0, <2>4, <3>1, <3>3, <3>4, WriteRemembers
  <2> QED
    BY <1>5, <2>2, <2>3, <2>4 DEF DropLegacy
<1>6. CASE GroupFault(g)
  BY <1>1, <1>6 DEF GroupFault
<1> QED
  BY <1>2, <1>3, <1>4, <1>5, <1>6 DEF ReconcileGroup

LEMMA NextRemembers ==
    TypeOK /\ CopiesFaithful /\ LegacyRemembered /\ [Next]_vars => LegacyRemembered'
<1> SUFFICES ASSUME TypeOK, CopiesFaithful, LegacyRemembered, [Next]_vars
             PROVE  LegacyRemembered'
  OBVIOUS
<1> USE DEF server, classController, groupController
<1>1. CASE UNCHANGED <<group, seen, todo, sync>>
  BY <1>1 DEF LegacyRemembered, Remembered, Excused
<1>2. CASE BesideUs
  <2>1. UNCHANGED todo
    BY <1>2 DEF BesideUs, Collect, Retag, TakeLabel, Attach, Detach, DeleteGroup, CreateAbroad
  <2> QED
    BY <1>2, <2>1, GroupWrites, BesideRemembers
<1>3. CASE Environment
  BY <1>1, <1>2, <1>3 DEF Environment, BesideUs, CreateClass, Relabel, DeleteClass, Reconfigure
<1>4. CASE HearClass
  BY <1>1, <1>4 DEF HearClass
<1>5. CASE ReconcileClass
  <2>1. UNCHANGED todo
    BY <1>5 DEF ReconcileClass, StartClass, AddClassFinalizer, RemoveClassFinalizer,
                ReadClassConfig, ApplyClass, CreateHome
  <2>2. CASE UNCHANGED <<group, seen, sync>>
    BY <1>1, <2>1, <2>2
  <2> QED
    BY <1>5, <2>1, <2>2, ClassWrites, BesideRemembers, GroupsKnown
<1>6. CASE ClassFault
  BY <1>1, <1>6 DEF ClassFault
<1>7. ASSUME NEW g \in Groups, HearGroup(g) PROVE LegacyRemembered'
  <2>1. /\ UNCHANGED <<group, sync>> /\ seen \in [Groups -> Copy \cup {None}]
        /\ seen' = [seen EXCEPT ![g] = IF group[g] = None THEN None ELSE CopyOf(group[g])]
        /\ todo' = IF group[g] = None THEN todo ELSE todo \cup {g}
    BY <1>7 DEF HearGroup, TypeOK
  <2>2. group[g] # None => CopyOf(group[g]).legacy = group[g].legacy
    BY DEF CopyOf
  <2> QED
    BY <2>1, <2>2 DEF LegacyRemembered, Remembered, Excused
<1>8. CASE Restart
  BY <1>8 DEF Restart, LegacyRemembered, Remembered, Excused
<1> QED
  BY <1>1, <1>3, <1>4, <1>5, <1>6, <1>7, <1>8, ReconcileRemembers DEF Next, vars

LEMMA InitRemembers == Init => LegacyRemembered
<1> SUFFICES ASSUME Init, NEW g \in Groups PROVE Remembered(g) /\ Excused(group[g])
  BY DEF LegacyRemembered
<1>1. PICK s \in Starts :
         group = [h \in Groups |-> IF h \in s.old THEN OldGroup(h, s.label) ELSE None]
  BY DEF Init
<1>2. seen[g] = None /\ sync[g] = None
  BY DEF Init
<1>3. ~OldGroup(g, s.label).deleting
  BY DEF OldGroup, NewGroup
<1> QED
  BY <1>1, <1>2, <1>3 DEF Remembered, Excused

\* The finalizer that older versions left is never forgotten: when the group
\* controller has nothing to do for a group it has seen, the finalizer is gone,
\* whatever failed, restarted or wrote the group in the meantime.
THEOREM LegacyGoneAtRest == Spec => []LegacyAtRest
<1>1. LegacyRemembered => LegacyAtRest
  BY DEF LegacyRemembered, Remembered, Excused, LegacyAtRest, GroupRests
<1>2. Spec => [](TypeOK /\ CopiesFaithful /\ LegacyRemembered)
  BY InitType, NextType, InitFaithful, NextFaithful, InitRemembers, NextRemembers, PTL DEF Spec
<1> QED
  BY <1>1, <1>2, PTL

(***************************************************************************)
(* Under a configuration that does not change: a class is applied with the *)
(* configuration its reconcile read.                                       *)
(***************************************************************************)

Asked(c) == c.operations /\ c.patchResource /\ c.setOwnerReferences

OwnersRead == AtClass("apply") => rec.config.setOwnerReferences

AskedRead == AtClass("apply") => Asked(rec.config)

LEMMA NextRead ==
    ASSUME TypeOK, [Next]_vars
    PROVE  /\ OwnersRead /\ config.setOwnerReferences => OwnersRead'
           /\ AskedRead /\ Asked(config) => AskedRead'
<1> USE DEF server, classController, groupController
<1>1. CASE rec' = rec \/ rec' = None
  BY <1>1 DEF OwnersRead, AskedRead, AtClass, Asked
<1>2. CASE StartClass
  <2>1. rec' # None => rec'.step # "apply"
    BY <1>2 DEF StartClass, ClassStep
  <2> QED
    BY <2>1 DEF OwnersRead, AskedRead, AtClass
<1>3. CASE ReadClassConfig
  <2>1. rec \in ClassReconcile
    BY <1>3, RecOf DEF ReadClassConfig, AtClass
  <2>2. rec' # None => rec'.config = config
    BY <1>3, <2>1 DEF ReadClassConfig, ClassReconcile
  <2> QED
    BY <2>2 DEF OwnersRead, AskedRead, AtClass, Asked
<1>4. CASE Environment
  BY <1>1, <1>4
  DEF Environment, CreateClass, Relabel, DeleteClass, Reconfigure, Collect, Retag, TakeLabel,
      Attach, Detach, DeleteGroup, CreateAbroad
<1>5. CASE HearClass \/ Restart \/ ClassFault
  BY <1>1, <1>5 DEF HearClass, Restart, ClassFault, RetryClass
<1>6. CASE ReconcileClass
  BY <1>1, <1>2, <1>3, <1>6
  DEF ReconcileClass, AddClassFinalizer, RemoveClassFinalizer, ApplyClass, CreateHome, RetryClass
<1>7. ASSUME NEW g \in Groups, HearGroup(g) \/ ReconcileGroup(g) \/ GroupFault(g)
      PROVE  rec' = rec
  BY <1>7
  DEF HearGroup, ReconcileGroup, StartGroup, FetchClass, ApplyLabels, DropLegacy, GroupFault
<1> QED
  BY <1>1, <1>4, <1>5, <1>6, <1>7 DEF Next, vars

(***************************************************************************)
(* The owner of the group beside the class.                                *)
(***************************************************************************)

LEMMA NextKin ==
    ASSUME TypeOK, CopiesFaithful, OwnersRead, Kin(group[Home]), [Next]_vars
    PROVE  Kin(group[Home])'
<1> USE DEF server, classController, groupController
<1>0. Home \in Groups /\ group \in [Groups -> Group \cup {None}]
  BY GroupsKnown DEF TypeOK
<1>1. CASE UNCHANGED group
  BY <1>1 DEF Kin, Owned
<1>2. ASSUME NEW g \in Groups, NEW o, Write(g, o), g = Home => Kin(o)
      PROVE  Kin(group[Home])'
  <2>1. group'[Home] = group[Home] \/ (g = Home /\ group'[Home] = o)
    BY <1>0, <1>2 DEF Write
  <2> QED
    BY <1>2, <2>1 DEF Kin, Owned
<1>3. CASE BesideUs
  BY <1>2, <1>3, GroupWrites DEF WriteBeside, Stays
<1>4. CASE Environment
  BY <1>1, <1>3, <1>4 DEF Environment, BesideUs, CreateClass, Relabel, DeleteClass, Reconfigure
<1>5. CASE ReconcileClass
  <2>1. ASSUME NEW o \in Group, WriteBeside(Home, o), Owned(o) PROVE Kin(group[Home])'
    BY <1>0, <1>2, <2>1 DEF WriteBeside, Kin
  <2> QED
    BY <1>1, <1>5, <2>1, ClassWrites DEF OwnersRead
<1>6. ASSUME NEW g \in Groups, ReconcileGroup(g) PROVE Kin(group[Home])'
  BY <1>1, <1>2, <1>6, ReconcileWrites DEF Stays
<1>7. CASE HearClass \/ ClassFault \/ Restart
  BY <1>1, <1>7 DEF HearClass, ClassFault, Restart
<1>8. ASSUME NEW g \in Groups, HearGroup(g) \/ GroupFault(g) PROVE UNCHANGED group
  BY <1>8 DEF HearGroup, GroupFault
<1> QED
  BY <1>1, <1>4, <1>5, <1>6, <1>7, <1>8 DEF Next, vars

LEMMA InitKin == Init => Kin(group[Home]) /\ OwnersRead /\ AskedRead
<1> SUFFICES ASSUME Init PROVE Kin(group[Home]) /\ OwnersRead /\ AskedRead
  OBVIOUS
<1>1. PICK s \in Starts :
         group = [h \in Groups |-> IF h \in s.old THEN OldGroup(h, s.label) ELSE None]
  BY DEF Init
<1>2. rec = None
  BY DEF Init
<1>3. group[Home] # None => Owned(group[Home])
  <2>1. OldGroup(Home, s.label).owners = [Nobody EXCEPT ![1] = {"addon"}]
    BY DEF OldGroup, NewGroup
  <2>2. 1 \in Uids
    BY ConstantsAssumption DEF Uids
  <2>3. OldGroup(Home, s.label).owners[1] # {}
    BY <2>1, <2>2 DEF Nobody
  <2> QED
    BY <1>1, <2>2, <2>3, GroupsKnown DEF Owned
<1> QED
  BY <1>1, <1>2, <1>3, GroupsKnown DEF Kin, OwnersRead, AskedRead, AtClass

\* The group beside the class is never left without an owner to go with: not by
\* an apply for a class of the same name made anew, not by the group controller
\* that writes back the owners its copy shows, not by the garbage collector.
THEOREM NothingOrphaned == Spec => NeverOrphaned
<1>1. TypeOK /\ CopiesFaithful /\ OwnersRead /\ Kin(group[Home])
        /\ config.setOwnerReferences /\ [Next]_vars =>
          OwnersRead' /\ Kin(group[Home])'
  BY NextRead, NextKin
<1>2. Spec => [](TypeOK /\ CopiesFaithful)
  BY InitType, NextType, InitFaithful, NextFaithful, PTL DEF Spec
<1>3. Spec /\ []config.setOwnerReferences => []Kin(group[Home])
  BY <1>1, <1>2, InitKin, PTL DEF Spec
<1>4. Kin(group[Home]) <=> (group[Home] # None => Owned(group[Home]) \/ group[Home].deleting)
  BY DEF Kin
<1> QED
  BY <1>3, <1>4, PTL DEF NeverOrphaned

(***************************************************************************)
(* What the group beside the class inherits.                               *)
(***************************************************************************)

\* Unless the class is due, its reconcile works on what the store has; or it is
\* done with it, and the finalizer is there or the group carries what it should.
Told ==
    ~due =>
        IF rec # None THEN cached # None /\ rec.object = cached
        ELSE cached # None /\ ~cached.deleting =>
                IF cached.finalizer THEN Carries(group[Home], cached)
                ELSE class # None /\ class.uid = cached.uid => class.finalizer \/ class.deleting

\* A write of the group that carries what it should makes the class due.
LEMMA WriteTold ==
    ASSUME TypeOK, Told, NEW g \in Groups, NEW o, Write(g, o), UNCHANGED <<class, cached, rec>>
    PROVE  Told'
<1>0. /\ Home \in Groups /\ group \in [Groups -> Group \cup {None}] /\ due \in BOOLEAN
      /\ cached # None => cached.uid \in Uids
  BY GroupsKnown DEF TypeOK, Class
<1> SUFFICES ASSUME ~due' PROVE Told'
  BY DEF Told
<1>1. ~due /\ (o = group[g] \/ (~Owned(o) /\ ~Owned(group[g])))
  BY <1>0 DEF Write
<1>2. cached # None /\ Carries(group[Home], cached) => Owned(group[Home])
  BY <1>0 DEF Carries, Owned
<1>3. cached # None /\ Carries(group[Home], cached) => group'[Home] = group[Home]
  BY <1>0, <1>1, <1>2 DEF Write
<1> QED
  BY <1>1, <1>3 DEF Told, Carries

LEMMA NextTold ==
    ASSUME TypeOK, ClassViews, AskedRead, Told, Asked(config), [Next]_vars
    PROVE  Told'
<1> USE DEF server, classController, groupController
<1>0. /\ class \in Class \cup {None} /\ cached \in Class \cup {None} /\ due \in BOOLEAN
      /\ rec # None => rec.object \in Class
  BY RecOf DEF TypeOK
<1>1. CASE UNCHANGED <<class, group, cached, due, rec>>
  BY <1>1 DEF Told, Carries
<1>2. CASE due' = TRUE
  BY <1>2 DEF Told
<1>3. CASE CreateClass
  <2>1. class' # None => class'.uid = lastUid + 1
    BY <1>3 DEF CreateClass
  <2>2. lastUid \in Nat /\ (cached # None => cached.uid \in Nat)
    <3>1. lastUid \in Nat
      BY UidsNat DEF TypeOK
    <3>2. cached # None => cached.uid \in Uids
      BY <1>0 DEF Class
    <3> QED
      BY <3>1, <3>2, UidsNat
  <2>3. cached # None => cached.uid <= lastUid
    BY DEF ClassViews, ViewsOf, Current
  <2>4. cached # None /\ class' # None => class'.uid # cached.uid
    BY <2>1, <2>2, <2>3
  <2> QED
    BY <1>3, <2>4 DEF CreateClass, Told, Carries
<1>4. CASE Relabel
  <2>1. PICK l \in Labels \cup {None} : class' = [class EXCEPT !.label = l] /\ class # None
    BY <1>4 DEF Relabel
  <2>2. /\ class'.uid = class.uid /\ class'.finalizer = class.finalizer
        /\ class'.deleting = class.deleting
    BY <1>0, <2>1 DEF Class
  <2> QED
    BY <1>4, <2>1, <2>2 DEF Relabel, Told, Carries
<1>5. CASE DeleteClass
  <2>1. class' = None \/ class'.deleting
    BY <1>0, <1>5 DEF DeleteClass, StoredClass, Class
  <2> QED
    BY <1>5, <2>1 DEF DeleteClass, Told, Carries
<1>6. CASE BesideUs
  <2>1. UNCHANGED <<class, cached, rec>>
    BY <1>6 DEF BesideUs, Collect, Retag, TakeLabel, Attach, Detach, DeleteGroup, CreateAbroad
  <2> QED
    BY <1>6, <2>1, GroupWrites, WriteTold DEF WriteBeside
<1>7. CASE Environment
  BY <1>1, <1>3, <1>4, <1>5, <1>6, <1>7 DEF Environment, BesideUs, Reconfigure
<1>8. CASE StartClass
  <2>1. PICK new : new = [step |-> ClassStep(cached), object |-> cached, config |-> None]
    OBVIOUS
  <2>2. cached # None => new \in ClassReconcile /\ new # None /\ new.object = cached
    BY <1>0, <2>1, NoneAssumption DEF ClassStep, ClassReconcile
  <2>3. /\ rec' = IF cached = None \/ (cached.deleting /\ ~cached.finalizer) THEN None ELSE new
        /\ UNCHANGED cached
    BY <1>8, <2>1 DEF StartClass
  <2> QED
    BY <2>2, <2>3 DEF Told
<1>9. CASE AddClassFinalizer
  <2>1. rec # None /\ rec' = None /\ UNCHANGED cached /\ ~rec.object.finalizer
    BY <1>9 DEF AddClassFinalizer, AtClass, RetryClass, ClassViews, ClassShape
  <2>2. CASE due' = due /\ class' = [class EXCEPT !.finalizer = TRUE] /\ class # None
    <3>1. class'.finalizer
      BY <1>0, <2>2 DEF Class
    <3> QED
      BY <2>1, <2>2, <3>1 DEF Told
  <2> QED
    BY <1>2, <1>9, <2>2 DEF AddClassFinalizer, RetryClass
<1>10. CASE RemoveClassFinalizer
  <2>1. rec # None /\ rec' = None /\ UNCHANGED cached /\ rec.object.deleting
    BY <1>10 DEF RemoveClassFinalizer, AtClass, RetryClass, ClassViews, ClassShape
  <2>2. CASE due' = due
    BY <2>1, <2>2 DEF Told
  <2> QED
    BY <1>2, <1>10, <2>2 DEF RemoveClassFinalizer, RetryClass
<1>11. CASE ReadClassConfig
  <2>1. rec \in ClassReconcile /\ rec # None
    BY <1>11, RecOf DEF ReadClassConfig, AtClass
  <2>2. PICK new : new = [rec EXCEPT !.step = "apply", !.config = config]
    OBVIOUS
  <2>3. rec' = new /\ new \in ClassReconcile /\ new.object = rec.object
    BY <1>11, <2>1, <2>2 DEF ReadClassConfig, Asked, ClassReconcile, TypeOK
  <2>4. new # None
    BY <2>3, NoneAssumption
  <2> QED
    BY <1>11, <2>1, <2>3, <2>4 DEF ReadClassConfig, Told
<1>12. CASE ApplyClass
  <2>1. /\ rec # None /\ rec.object \in Class /\ rec' = None /\ UNCHANGED cached
        /\ rec.config.setOwnerReferences
    BY <1>0, <1>12 DEF ApplyClass, AtClass, RetryClass, AskedRead, Asked
  <2>2. rec.object.uid \in NamedOwners \cap Uids /\ rec.object.label \in Labels \cup {None}
    BY <2>1 DEF NamedOwners, Class
  <2>3. PICK o \in Group : o = IF group[Home] = None THEN NewGroup ELSE group[Home]
    BY GroupsKnown, NewGroupType DEF TypeOK
  <2>4. PICK new : new = AppliedGroup(o, rec.object.label, NamedOwners)
    OBVIOUS
  <2>5. /\ new \in Group /\ new.label = Applied(o.label, rec.object.label)
        /\ new.owners = AppliedOwners(o.owners, NamedOwners)
    BY <2>2, <2>4, AppliedGroupType
  <2>6. Carries(new, rec.object)
    <3>1. new.owners[rec.object.uid] # {}
      BY <2>2, <2>3, <2>5, AppliedOwned DEF Group
    <3>2. rec.object.label # None => new.label.value = rec.object.label
      BY <2>5 DEF Applied
    <3> QED
      BY <2>5, <3>1, <3>2, NoneAssumption DEF Carries
  <2>7. \/ group[Home] # None /\ ~ClassDiffers(group[Home]) /\ UNCHANGED group
        \/ due' = TRUE
        \/ group'[Home] = new
    BY <1>12, <2>3, <2>4, GroupsKnown
    DEF ApplyClass, RetryClass, WriteBeside, Write, AppliedGroup, TypeOK
  <2>8. due' = TRUE \/ Carries(group'[Home], rec.object)
    BY <2>2, <2>6, <2>7 DEF ClassDiffers, Carries
  <2>9. due' = due \/ due' = TRUE
    BY <1>0, <1>12 DEF ApplyClass, RetryClass, WriteBeside, Write
  <2>10. rec.object.finalizer
    BY <1>12 DEF ApplyClass, AtClass, ClassViews, ClassShape
  <2> QED
    BY <2>1, <2>8, <2>9, <2>10 DEF Told, Carries
<1>13. CASE CreateHome
  BY <1>13 DEF CreateHome, AskedRead, Asked
<1>14. CASE ReconcileClass
  BY <1>8, <1>9, <1>10, <1>11, <1>12, <1>13, <1>14 DEF ReconcileClass
<1>15. CASE HearClass \/ ClassFault
  BY <1>2, <1>15 DEF HearClass, ClassFault, RetryClass
<1>16. ASSUME NEW g \in Groups, HearGroup(g) \/ ReconcileGroup(g) \/ GroupFault(g)
       PROVE  Told'
  <2>1. UNCHANGED <<class, cached, rec>>
    BY <1>16
    DEF HearGroup, ReconcileGroup, StartGroup, FetchClass, ApplyLabels, DropLegacy, GroupFault
  <2>2. UNCHANGED <<group, due>> \/ \E o : Write(g, o)
    BY <1>16
    DEF HearGroup, ReconcileGroup, StartGroup, FetchClass, ApplyLabels, DropLegacy, GroupFault
  <2> QED
    BY <1>1, <2>1, <2>2, WriteTold
<1>17. CASE Restart
  BY <1>17 DEF Restart, Told
<1> QED
  BY <1>1, <1>7, <1>14, <1>15, <1>16, <1>17 DEF Next, vars

\* Nothing that should make the class due is missed: once the controller has seen
\* the class and rests, the group beside it has the label and the owner reference.
THEOREM InheritsAtRest == Spec => InheritedAtRest
<1>1. TypeOK /\ ClassViews /\ AskedRead /\ Told /\ Asked(config) /\ [Next]_vars =>
        AskedRead' /\ Told'
  BY NextRead, NextTold
<1>2. Init => Told
  BY DEF Init, Told
<1>3. Spec => [](TypeOK /\ ClassViews)
  BY InitType, NextType, InitViews, NextViews, PTL DEF Spec
<1>4. Told => (ClassRests /\ class # None /\ ~class.deleting => Carries(group[Home], class))
  BY DEF Told, ClassRests
<1>5. Spec /\ []Asked(config) => []Told
  BY <1>1, <1>2, <1>3, InitKin, PTL DEF Spec
<1>6. Asked(config) <=> config.operations /\ config.patchResource /\ config.setOwnerReferences
  BY DEF Asked
<1> QED
  BY <1>4, <1>5, <1>6, PTL DEF InheritedAtRest
================================================================================
