------------------------------ MODULE ClassGroups ------------------------------
(***************************************************************************)
(* The two controllers of run_cluster_class_controller (src/controller.rs):*)
(* the ClusterClass controller (src/controllers/cluster_class.rs), which   *)
(* makes a ClusterGroup beside each class, and the ClusterGroup controller *)
(* (src/controllers/cluster_group.rs), which copies the labels of a class  *)
(* to all its groups and drops a finalizer that older versions left.       *)
(*                                                                         *)
(* One class is modelled, with the group beside it (Home) and the groups   *)
(* that the Cluster controller makes in the namespaces of its Clusters     *)
(* (Abroad).  Both controllers write by server-side apply, unforced and as *)
(* one field manager: the class controller names the few fields it wants,  *)
(* the group controller the whole group as its store has it, with the      *)
(* resourceVersion, so that the API server refuses it once the group has   *)
(* changed.  The finalizers it writes by a merge patch, without.           *)
(*                                                                         *)
(* One action is one API call; patch() and get_or_create() count as one.   *)
(***************************************************************************)
EXTENDS Naturals, FiniteSets

CONSTANTS
    Home,     \* the group in the namespace of the class, named like the class
    Abroad,   \* the groups <class>.<namespace> beside the Clusters of the class
    Labels,   \* the values of a label that the class may carry
    Configs,  \* the values FleetAddonConfig may take
    Starts,   \* how it may begin
    MaxUid,   \* bound: how often the class is created
    Kinds,    \* the disturbances that may happen
    None

Groups == {Home} \cup Abroad

Uids == 1 .. MaxUid

\* Field managers: our apply, our create (get_or_create), and users.
Managers == {"addon", "create", "user"}

Disturbances ==
    {"fault", "restart", "relabel", "delete", "team", "take", "attach", "remove",
     "reconfigure"}

Config == [operations : BOOLEAN, patchResource : BOOLEAN, setOwnerReferences : BOOLEAN]

Class == [uid : Uids, label : Labels \cup {None}, deleting : BOOLEAN, finalizer : BOOLEAN]

ClassReconcile == [step : {"addFinalizer", "config", "apply", "removeFinalizer"},
                   object : Class, config : Configs \cup {None}]

\* A label with the managers that hold it.
Cell == {x \in [value : Labels \cup {None}, by : SUBSET Managers] :
            x.value = None <=> x.by = {}}

Unset == [value |-> None, by |-> {}]

(***************************************************************************)
(* label: the label copied from the class.  owners: who holds the owner    *)
(* reference to each incarnation of the class.  team: a label of the users.*)
(* legacy: the finalizer of older versions.  other: somebody's finalizer.  *)
(***************************************************************************)
Group == [label : Cell, owners : [Uids -> SUBSET Managers], team : BOOLEAN,
          legacy : BOOLEAN, other : BOOLEAN, deleting : BOOLEAN]

\* A copy of a group; fresh: the group still has its resourceVersion.
Copy == [label : Labels \cup {None}, owners : SUBSET Uids, team : BOOLEAN,
         legacy : BOOLEAN, other : BOOLEAN, fresh : BOOLEAN]

GroupReconcile == [step : {"class", "labels", "finalizers"}, object : Copy]

\* needed: the groups of Abroad whose Clusters refer to the class.  old: the
\* groups an older version left, with the label of the class.  budget: bound, how
\* many disturbances happen.
Start == [config : Configs, needed : SUBSET Abroad, old : SUBSET Groups,
          label : Labels, budget : Nat]

ASSUME ConstantsAssumption ==
    /\ Home \notin Abroad
    /\ Configs \subseteq Config
    /\ MaxUid \in Nat \ {0}
    /\ Starts \subseteq Start
    /\ Kinds \subseteq Disturbances

ASSUME NoneAssumption ==
    None \notin Labels \cup Configs \cup Class \cup ClassReconcile \cup Group
                   \cup Copy \cup GroupReconcile

VARIABLES
    \* The API server
    class,    \* the ClusterClass
    lastUid,  \* the uid last given to it
    group,    \* the ClusterGroups
    config,   \* the FleetAddonConfig
    needed,   \* the groups of Abroad whose Clusters refer to the class
    \* The ClusterClass controller
    cached,   \* the class in its store
    due,      \* the class is due for a reconcile
    rec,      \* the reconcile in progress
    \* The ClusterGroup controller
    seen,     \* its store
    todo,     \* the groups due for a reconcile
    sync,     \* the reconcile in progress of a group
    budget

server == <<class, lastUid, group, config, needed>>
classController == <<cached, due, rec>>
groupController == <<seen, todo, sync>>
vars == <<server, classController, groupController, budget>>

(***************************************************************************)
(* The API server.                                                         *)
(***************************************************************************)
Spend(d) == d \in Kinds /\ budget > 0 /\ budget' = budget - 1

\* An object being deleted goes with its last finalizer.
Stored(o) == IF o.deleting /\ ~o.legacy /\ ~o.other THEN None ELSE o

StoredClass(o) == IF o.deleting /\ ~o.finalizer THEN None ELSE o

Owned(o) == o # None /\ \E u \in Uids : o.owners[u] # {}

\* A reconcile works on a copy of the group, and so does every copy of it.
Outdate(copy) == IF copy = None THEN None ELSE [copy EXCEPT !.fresh = FALSE]

\* A write that changes group g outdates the copies of it and, through the owner
\* reference, queues the class.
Write(g, o) ==
    /\ group' = [group EXCEPT ![g] = o]
    /\ seen' = IF o = group[g] THEN seen ELSE [seen EXCEPT ![g] = Outdate(@)]
    /\ due' = (due \/ (o # group[g] /\ (Owned(o) \/ Owned(group[g]))))

\* Others than the reconcile of g write it.
WriteBeside(g, o) ==
    /\ Write(g, o)
    /\ sync' = IF o = group[g] \/ sync[g] = None THEN sync
               ELSE [sync EXCEPT ![g].object = Outdate(@)]

\* Server-side apply of one field: unless forced it is refused when others hold
\* another value, and what the manager no longer names it lets go.
Conflict(cell, v) == v # None /\ cell.value # v /\ cell.by \ {"addon"} # {}

\* Mutant of Applied: the value is only let go of.
AppliedLeaving(cell, v) ==
    IF v = None THEN [cell EXCEPT !.by = @ \ {"addon"}]
    ELSE [value |-> v, by |-> {"addon"} \cup IF cell.value = v THEN cell.by ELSE {}]

Applied(cell, v) ==
    IF v = None
    THEN IF cell.by \subseteq {"addon"} THEN Unset ELSE [cell EXCEPT !.by = @ \ {"addon"}]
    ELSE [value |-> v, by |-> {"addon"} \cup IF cell.value = v THEN cell.by ELSE {}]

AppliedOwners(owners, named) ==
    [u \in Uids |-> IF u \in named THEN owners[u] \cup {"addon"} ELSE owners[u] \ {"addon"}]

(***************************************************************************)
(* Initially there is nothing, or what an older version left: a class under*)
(* our finalizer, and groups under the finalizer we no longer set.         *)
(***************************************************************************)
Nobody == [u \in Uids |-> {}]

NewGroup == [label |-> Unset, owners |-> Nobody, team |-> FALSE, legacy |-> FALSE,
             other |-> FALSE, deleting |-> FALSE]

OldGroup(g, l) ==
    [NewGroup EXCEPT !.label = [value |-> l, by |-> {"addon"}],
                     !.owners[1] = IF g = Home THEN {"addon"} ELSE {},
                     !.legacy = TRUE]

OldClass(l) == [uid |-> 1, label |-> l, deleting |-> FALSE, finalizer |-> TRUE]

Init ==
    /\ \E s \in Starts :
         /\ config = s.config
         /\ needed = s.needed
         /\ lastUid = IF s.old = {} THEN 0 ELSE 1
         /\ class = IF s.old = {} THEN None ELSE OldClass(s.label)
         /\ group = [g \in Groups |-> IF g \in s.old THEN OldGroup(g, s.label) ELSE None]
         /\ budget = s.budget
    /\ cached = None /\ due = FALSE /\ rec = None
    /\ seen = [g \in Groups |-> None]
    /\ todo = {}
    /\ sync = [g \in Groups |-> None]

(***************************************************************************)
(* Users, other controllers and the garbage collector.                     *)
(***************************************************************************)
CreateClass ==
    /\ class = None
    /\ lastUid < MaxUid
    /\ lastUid' = lastUid + 1
    /\ \E l \in Labels :
         class' = [uid |-> lastUid + 1, label |-> l, deleting |-> FALSE, finalizer |-> FALSE]
    /\ UNCHANGED <<group, config, needed, classController, groupController, budget>>

Relabel ==
    /\ class # None
    /\ Spend("relabel")
    /\ \E l \in (Labels \cup {None}) \ {class.label} : class' = [class EXCEPT !.label = l]
    /\ UNCHANGED <<lastUid, group, config, needed, classController, groupController>>

DeleteClass ==
    /\ class # None
    /\ ~class.deleting
    /\ Spend("delete")
    /\ class' = StoredClass([class EXCEPT !.deleting = TRUE])
    /\ UNCHANGED <<lastUid, group, config, needed, classController, groupController>>

Reconfigure ==
    /\ Spend("reconfigure")
    /\ config' \in Configs \ {config}
    /\ UNCHANGED <<class, lastUid, group, needed, classController, groupController>>

\* A user sets or removes a label that is no business of ours.
Retag(g) ==
    /\ group[g] # None
    /\ Spend("team")
    /\ WriteBeside(g, [group[g] EXCEPT !.team = ~@])
    /\ UNCHANGED <<class, lastUid, config, needed, cached, rec, todo>>

\* A user sets the label that is copied from the class.
TakeLabel(g) ==
    /\ group[g] # None
    /\ Spend("take")
    /\ \E l \in Labels \ {group[g].label.value} :
         WriteBeside(g, [group[g] EXCEPT !.label = [value |-> l, by |-> {"user"}]])
    /\ UNCHANGED <<class, lastUid, config, needed, cached, rec, todo>>

\* Another controller holds the group by a finalizer and lets it go.
Attach(g) ==
    /\ group[g] # None
    /\ ~group[g].deleting
    /\ ~group[g].other
    /\ Spend("attach")
    /\ WriteBeside(g, [group[g] EXCEPT !.other = TRUE])
    /\ UNCHANGED <<class, lastUid, config, needed, cached, rec, todo>>

Detach(g) ==
    /\ group[g] # None
    /\ group[g].other
    /\ WriteBeside(g, Stored([group[g] EXCEPT !.other = FALSE]))
    /\ UNCHANGED <<class, lastUid, config, needed, cached, rec, todo, budget>>

DeleteGroup(g) ==
    /\ group[g] # None
    /\ ~group[g].deleting
    /\ Spend("remove")
    /\ WriteBeside(g, Stored([group[g] EXCEPT !.deleting = TRUE]))
    /\ UNCHANGED <<class, lastUid, config, needed, cached, rec, todo>>

\* Owner references to what is gone are dropped; with the last one goes the group.
Collect ==
    LET o == group[Home]
        dead == {u \in Uids : o.owners[u] # {} /\ (class = None \/ class.uid # u)}
        live == {u \in Uids : o.owners[u] # {}} \ dead
    IN  /\ o # None
        /\ ~o.deleting
        /\ dead # {}
        /\ WriteBeside(Home, IF live = {} THEN Stored([o EXCEPT !.deleting = TRUE])
                             ELSE [o EXCEPT !.owners = [u \in Uids |->
                                        IF u \in dead THEN {} ELSE o.owners[u]]])
        /\ UNCHANGED <<class, lastUid, config, needed, cached, rec, todo, budget>>

\* The Cluster controller (PatchGroup in ClusterController) makes the group anew,
\* with the labels that name the class and its Clusters as owners.
CreateAbroad(g) ==
    /\ g \in needed
    /\ group[g] = None
    /\ WriteBeside(g, NewGroup)
    /\ UNCHANGED <<class, lastUid, config, needed, cached, rec, todo, budget>>

(***************************************************************************)
(* The watches.  A store takes the latest state; deleted groups queue      *)
(* nothing (applied_objects).                                              *)
(***************************************************************************)
HearClass ==
    /\ cached # class
    /\ cached' = class
    /\ due' = TRUE
    /\ UNCHANGED <<server, rec, groupController, budget>>

CopyOf(o) == [label |-> o.label.value, owners |-> {u \in Uids : o.owners[u] # {}},
              team |-> o.team, legacy |-> o.legacy, other |-> o.other, fresh |-> TRUE]

HearGroup(g) ==
    /\ IF seen[g] = None THEN group[g] # None ELSE ~seen[g].fresh
    /\ seen' = [seen EXCEPT ![g] = IF group[g] = None THEN None ELSE CopyOf(group[g])]
    /\ todo' = IF group[g] = None THEN todo ELSE todo \cup {g}
    /\ UNCHANGED <<server, classController, sync, budget>>

\* The pod is replaced; its first list of the groups queues the class.
Restart ==
    /\ Spend("restart")
    /\ cached' = None
    /\ rec' = None
    /\ due' = Owned(group[Home])
    /\ seen' = [g \in Groups |-> None]
    /\ todo' = {}
    /\ sync' = [g \in Groups |-> None]
    /\ UNCHANGED server

(***************************************************************************)
(* FleetController::reconcile for a ClusterClass.                          *)
(***************************************************************************)

\* Mutant of ClassStep: the group is made before the finalizer is there.
ClassStepUnguarded(o) == IF o.deleting THEN "removeFinalizer" ELSE "config"

\* The finalizer helper.  The cleanup of a class reads the configuration and
\* publishes an event at most: what is left is to drop the finalizer.
ClassStep(o) ==
    CASE o.deleting -> "removeFinalizer"
      [] ~o.deleting /\ ~o.finalizer -> "addFinalizer"
      [] OTHER -> "config"

StartClass ==
    /\ due
    /\ rec = None
    /\ due' = FALSE
    /\ rec' = IF cached = None \/ (cached.deleting /\ ~cached.finalizer) THEN None
              ELSE [step |-> ClassStep(cached), object |-> cached, config |-> None]
    /\ UNCHANGED <<server, cached, groupController, budget>>

AtClass(step) == rec # None /\ rec.step = step

\* Mutant of RetryClass: no error policy.
RetryClassNever == rec' = None /\ UNCHANGED due

\* error_policy: a failed reconcile is made again.
RetryClass == rec' = None /\ due' = TRUE

\* JSON patches that test the list of finalizers and not the uid.
AddClassFinalizer ==
    /\ AtClass("addFinalizer")
    /\ IF class # None /\ ~class.deleting /\ ~class.finalizer
       THEN /\ class' = [class EXCEPT !.finalizer = TRUE]
            /\ rec' = None
            /\ UNCHANGED due
       ELSE RetryClass /\ UNCHANGED class
    /\ UNCHANGED <<lastUid, group, config, needed, cached, groupController, budget>>

RemoveClassFinalizer ==
    /\ AtClass("removeFinalizer")
    /\ IF class # None /\ class.finalizer
       THEN /\ class' = StoredClass([class EXCEPT !.finalizer = FALSE])
            /\ rec' = None
            /\ UNCHANGED due
       ELSE RetryClass /\ UNCHANGED class
    /\ UNCHANGED <<lastUid, group, config, needed, cached, groupController, budget>>

\* to_bundle: nothing to do when class operations are disabled.
ReadClassConfig ==
    /\ AtClass("config")
    /\ rec' = IF config.operations THEN [rec EXCEPT !.step = "apply", !.config = config]
              ELSE None
    /\ UNCHANGED <<server, cached, due, groupController, budget>>

\* Mutant of NamedOwners: the branches are swapped.
NamedOwnersSwapped == IF rec.config.setOwnerReferences THEN {} ELSE {rec.object.uid}

\* The owner references that to_bundle leaves on the group.
NamedOwners == IF rec.config.setOwnerReferences THEN {rec.object.uid} ELSE {}

\* Mutant of ClassDiffers: a label that is there is not compared.
ClassDiffersInOwner(o) == \E u \in NamedOwners : o.owners[u] = {}

\* ResourceDiff for ClusterGroup: is all that is wanted there?
ClassDiffers(o) ==
    \/ rec.object.label # None /\ o.label.value # rec.object.label
    \/ \E u \in NamedOwners : o.owners[u] = {}

\* patch() for a class whose group may be patched: no resourceVersion, no force.
ApplyClass ==
    /\ AtClass("apply")
    /\ rec.config.patchResource
    /\ LET o == IF group[Home] = None THEN NewGroup ELSE group[Home]
       IN  IF group[Home] # None /\ ~ClassDiffers(o)
           THEN UNCHANGED <<group, seen, due, sync>> /\ rec' = None
           ELSE IF Conflict(o.label, rec.object.label)
           THEN RetryClass /\ UNCHANGED <<group, seen, sync>>
           ELSE /\ WriteBeside(Home, [o EXCEPT
                        !.label = Applied(@, rec.object.label),
                        !.owners = AppliedOwners(@, NamedOwners)])
                /\ rec' = None
    /\ UNCHANGED <<class, lastUid, config, needed, cached, todo, budget>>

\* The group of a class as it is created: the labels of the class, and the class
\* as its owner.
GroupOfClass ==
    [NewGroup EXCEPT
        !.label = IF rec.object.label = None THEN Unset
                  ELSE [value |-> rec.object.label, by |-> {"create"}],
        !.owners = [u \in Uids |-> IF u \in NamedOwners THEN {"create"} ELSE {}]]

\* get_or_create() for a class whose group may not be patched.
CreateHome ==
    /\ AtClass("apply")
    /\ ~rec.config.patchResource
    /\ IF group[Home] # None THEN UNCHANGED <<group, seen, due, sync>>
       ELSE WriteBeside(Home, GroupOfClass)
    /\ rec' = None
    /\ UNCHANGED <<class, lastUid, config, needed, cached, todo, budget>>

ClassFault ==
    /\ rec # None
    /\ Spend("fault")
    /\ RetryClass
    /\ UNCHANGED <<server, cached, groupController>>

(***************************************************************************)
(* ClusterGroup::reconcile.  Every group in the model names its class.     *)
(***************************************************************************)
StartGroup(g) ==
    /\ g \in todo
    /\ sync[g] = None
    /\ todo' = todo \ {g}
    /\ sync' = IF seen[g] = None THEN sync
               ELSE [sync EXCEPT ![g] = [step |-> "class", object |-> seen[g]]]
    /\ UNCHANGED <<server, classController, seen, budget>>

AtGroup(g, step) == sync[g] # None /\ sync[g].step = step

GotoGroup(g, step) == sync' = [sync EXCEPT ![g].step = step]

FinishGroup(g) == sync' = [sync EXCEPT ![g] = None]

\* Mutant of RetryGroup: no error policy.
RetryGroupNever(g) == FinishGroup(g) /\ UNCHANGED todo

RetryGroup(g) == FinishGroup(g) /\ todo' = todo \cup {g}

\* The copy takes the labels of the class; without the class there is an error.
FetchClass(g) ==
    /\ AtGroup(g, "class")
    /\ IF class = None THEN RetryGroup(g)
       ELSE /\ sync' = [sync EXCEPT
                 ![g].step = "labels",
                 ![g].object.label = IF class.label = None THEN @ ELSE class.label]
            /\ UNCHANGED todo
    /\ UNCHANGED <<server, classController, seen, budget>>

Differs(o, copy) ==
    \/ copy.label # None /\ o.label.value # copy.label
    \/ copy.team /\ ~o.team
    \/ \E u \in copy.owners : o.owners[u] = {}

\* What the apply of a whole copy makes of a group.
AppliedCopy(o, copy) ==
    [o EXCEPT !.label = Applied(@, copy.label),
              !.team = @ \/ copy.team,
              !.owners = AppliedOwners(@, copy.owners)]

\* Mutant of ApplyLabels: the copy is applied without its resourceVersion.
ApplyLabelsUnversioned(g) ==
    /\ AtGroup(g, "labels")
    /\ LET o == IF group[g] = None THEN NewGroup ELSE group[g]
       IN  IF Differs(o, sync[g].object)
           THEN Write(g, AppliedCopy(o, sync[g].object))
           ELSE UNCHANGED <<group, seen, due>>
    /\ GotoGroup(g, "finalizers")
    /\ UNCHANGED <<class, lastUid, config, needed, cached, rec, todo, budget>>

\* patch() of the whole copy, under its resourceVersion and uid.
ApplyLabels(g) ==
    /\ AtGroup(g, "labels")
    /\ LET copy == sync[g].object
       IN  IF group[g] # None /\ ~Differs(group[g], copy)
           THEN GotoGroup(g, "finalizers") /\ UNCHANGED <<group, seen, due, todo>>
           ELSE IF group[g] = None \/ ~copy.fresh \/ Conflict(group[g].label, copy.label)
           THEN RetryGroup(g) /\ UNCHANGED <<group, seen, due>>
           ELSE /\ Write(g, AppliedCopy(group[g], copy))
                /\ sync' = [sync EXCEPT ![g].step = "finalizers", ![g].object.fresh = FALSE]
                /\ UNCHANGED todo
    /\ UNCHANGED <<class, lastUid, config, needed, cached, rec, budget>>

\* The merge patch writes the finalizers of the copy, without ours, over those
\* of the group.  An object being deleted accepts no new ones.
DropLegacy(g) ==
    /\ AtGroup(g, "finalizers")
    /\ LET copy == sync[g].object
           o == group[g]
       IN  IF ~copy.legacy
           THEN FinishGroup(g) /\ UNCHANGED <<group, seen, due, todo>>
           ELSE IF o = None \/ (o.deleting /\ copy.other /\ ~o.other)
           THEN RetryGroup(g) /\ UNCHANGED <<group, seen, due>>
           ELSE /\ Write(g, Stored([o EXCEPT !.legacy = FALSE, !.other = copy.other]))
                /\ FinishGroup(g)
                /\ UNCHANGED todo
    /\ UNCHANGED <<class, lastUid, config, needed, cached, rec, budget>>

GroupFault(g) ==
    /\ sync[g] # None
    /\ Spend("fault")
    /\ RetryGroup(g)
    /\ UNCHANGED <<server, classController, seen>>

(***************************************************************************)
(* The specification.                                                      *)
(***************************************************************************)
Environment ==
    \/ CreateClass \/ Relabel \/ DeleteClass \/ Reconfigure \/ Collect
    \/ \E g \in Groups :
         Retag(g) \/ TakeLabel(g) \/ Attach(g) \/ Detach(g) \/ DeleteGroup(g) \/ CreateAbroad(g)

ReconcileClass ==
    \/ StartClass
    \/ AddClassFinalizer
    \/ RemoveClassFinalizer
    \/ ReadClassConfig
    \/ ApplyClass
    \/ CreateHome

ReconcileGroup(g) ==
    \/ StartGroup(g)
    \/ FetchClass(g)
    \/ ApplyLabels(g)
    \/ DropLegacy(g)

Next ==
    \/ Environment
    \/ HearClass
    \/ ReconcileClass \/ ClassFault
    \/ \E g \in Groups : HearGroup(g) \/ ReconcileGroup(g) \/ GroupFault(g)
    \/ Restart

Spec == Init /\ [][Next]_vars

\* Watches deliver, reconciles are polled to their end, the garbage collector
\* and the Cluster controller run, and whoever holds a deleted group lets it go.
Fairness ==
    /\ WF_vars(HearClass)
    /\ WF_vars(ReconcileClass)
    /\ WF_vars(Collect)
    /\ \A g \in Groups :
         /\ WF_vars(HearGroup(g))
         /\ WF_vars(ReconcileGroup(g))
         /\ WF_vars(CreateAbroad(g))
         /\ WF_vars(group[g] # None /\ group[g].deleting /\ Detach(g))

FairSpec == Spec /\ Fairness

(***************************************************************************)
(* Properties.                                                             *)
(***************************************************************************)

\* Type invariant: the objects, the copies and the reconciles in progress; a
\* label that is there has a manager.
TypeOK ==
    /\ class \in Class \cup {None}
    /\ lastUid \in 0 .. MaxUid
    /\ group \in [Groups -> Group \cup {None}]
    /\ config \in Configs
    /\ needed \subseteq Abroad
    /\ cached \in Class \cup {None}
    /\ due \in BOOLEAN
    /\ rec \in ClassReconcile \cup {None}
    /\ seen \in [Groups -> Copy \cup {None}]
    /\ todo \subseteq Groups
    /\ sync \in [Groups -> GroupReconcile \cup {None}]
    /\ budget \in Nat

\* A group is applied only while the very class the reconcile was given exists
\* under the finalizer, however old the store is: no reconcile brings back the
\* group of a class that is gone, which without an owner nothing would remove.
AppliedWhileHeld ==
    AtClass("apply") =>
        class # None /\ class.uid = rec.object.uid /\ class.finalizer

\* The controllers never undo what another wrote to the labels of a group, although
\* one writes whole copies of it: a label a user removed is not brought back and
\* one he added is not lost, a value he gave to the label of the class stays, and
\* the group controller never brings back a group that is gone.  (Finalizers of
\* others are not in it: the merge patch of DropLegacy writes back the whole list.)
OthersKept ==
    [][\A g \in Groups :
         /\ (ReconcileClass \/ ReconcileGroup(g)) /\ group[g] # None /\ group'[g] # None =>
              /\ group'[g].team = group[g].team
              /\ group[g].label.by \ {"addon"} # {} =>
                    group'[g].label.value = group[g].label.value
         /\ ReconcileGroup(g) /\ group[g] = None => group'[g] = None]_vars

Taken(g) ==
    group[g] # None /\ class # None /\ Conflict(group[g].label, class.label)

Serving(u, l) ==
    class # None /\ class.uid = u /\ class.label = l /\ ~class.deleting /\ ~Taken(Home)

\* Under a configuration that asks for it and does not change, the group beside
\* a class that stays carries its label and its owner reference in the end,
\* unless another manager holds the label at another value: the class controller
\* from its store, the group controller from the class itself, users and the
\* garbage collector may have had their say in any order.
HomeLabelled ==
    \A u \in Uids, l \in Labels :
        [](config.operations /\ config.patchResource /\ config.setOwnerReferences)
            /\ <>[]Serving(u, l) =>
                <>[](/\ group[Home] # None
                     /\ group[Home].label.value = l
                     /\ group[Home].owners[u] # {})

\* The finalizer of older versions goes from every group whose class stays, and
\* with it every group that is being deleted.
LegacyGoes ==
    \A g \in Groups :
        <>[](class # None /\ ~Taken(g)) =>
            <>[](group[g] # None => ~group[g].legacy /\ ~group[g].deleting)

\* Under a configuration that sets owner references and does not change, no group
\* is ever beside its class without an owner, unless it is being deleted: an apply
\* that names another owner, a copy written back and the collection of dead references
\* never leave one that nobody removes. "Cleanup is perfomed by owner reference".
NeverOrphaned ==
    []config.setOwnerReferences =>
        [](group[Home] # None => Owned(group[Home]) \/ group[Home].deleting)

ClassRests == ~due /\ rec = None /\ cached = class

Carries(o, c) ==
    /\ o # None
    /\ c.label # None => o.label.value = c.label
    /\ o.owners[c.uid] # {}

\* Under a configuration that asks for it and does not change, once the class
\* controller has seen the class and has nothing to do, the group beside it
\* carries its label and its owner reference: whoever writes the group or the
\* class in the meantime, or fails a call, makes the class due again.
InheritedAtRest ==
    [](config.operations /\ config.patchResource /\ config.setOwnerReferences) =>
        [](ClassRests /\ class # None /\ ~class.deleting => Carries(group[Home], class))

GroupRests(g) ==
    /\ g \notin todo
    /\ sync[g] = None
    /\ group[g] # None => seen[g] # None /\ seen[g].fresh

\* Once the group controller has seen a group and has nothing to do for it, the
\* finalizer of older versions is gone, and a group that is being deleted waits
\* for somebody else's.
LegacyAtRest ==
    \A g \in Groups : GroupRests(g) /\ group[g] # None =>
        ~group[g].legacy /\ (group[g].deleting => group[g].other)

\* The deletion of a class is never held up by our finalizer.
ClassDeletionCompletes ==
    \A u \in Uids :
        (class # None /\ class.uid = u /\ class.deleting) ~>
            (class = None \/ class.uid # u)

\* The group beside a Cluster carries the label of its class in the end: "This
\* ClusterGroup inherits ClusterClass labels".
AbroadLabelled ==
    \A g \in Abroad : \A l \in Labels :
        <>[](class # None /\ class.label = l /\ group[g] # None /\ ~Taken(g)) =>
            <>[](group[g] # None /\ group[g].label.value = l)
================================================================================
