---------------------------- MODULE MCClassGroups ----------------------------
(***************************************************************************)
(* Instances of ClassGroups: the group beside the class, and one beside a  *)
(* Cluster in namespace app.                                               *)
(***************************************************************************)
EXTENDS ClassGroups, TLC

CONSTANTS home, app, v1, v2

Full == [operations |-> TRUE, patchResource |-> TRUE, setOwnerReferences |-> TRUE]
Disabled == [Full EXCEPT !.operations = FALSE]
CreateOnly == [Full EXCEPT !.patchResource = FALSE]
Unowned == [Full EXCEPT !.setOwnerReferences = FALSE]

OnlyFull == {Full}
AllConfigs == {Full, Disabled, CreateOnly, Unowned}

\* The class controller at work on a new class or on what an older version left,
\* or class operations disabled and a group beside a Cluster.
Near == [config : {Full}, needed : {{}}, old : {{}, {Home}}, label : {v1}, budget : {2}]
Far == [config : {Disabled}, needed : {Abroad}, old : {{}, Abroad}, label : {v1},
        budget : {1}]
NearOrFar == Near \cup Far
OnlyFar == [config : {Full}, needed : {Abroad}, old : {{}}, label : {v1}, budget : {1}]

AnyDisturbance == Disturbances
Relabelling == {"relabel"}
==============================================================================
