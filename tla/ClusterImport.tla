----------------------------- MODULE ClusterImport -----------------------------
(***************************************************************************)
(* ClusterController implements Import: the refinement mapping, and what   *)
(* it is to show.                                                          *)
(***************************************************************************)
EXTENDS ClusterController

PhaseOf(o) ==
    IF o = None THEN "absent"
    ELSE IF o.deleting THEN IF o.finalizer THEN "leaving" ELSE "released"
    ELSE IF o.finalizer THEN "held" ELSE "new"

\* The owner references of the Fleet Cluster and of the groups.
Owned(c) ==
    {u \in Uids : \/ fleet[c] # None /\ fleet[c].owner = u
                  \/ \E g \in Namespaces \X Classes : <<c, u>> \in group[g]}

phases == [c \in Clusters |-> PhaseOf(capi[c])]
owners == [c \in Clusters |-> Owned(c)]

Promise == INSTANCE Import WITH phase <- phases, uid <- lastUid, owned <- owners

\* Every step of the controller, its watches, users and the garbage collector is
\* a step that Import allows or none at all: nothing is made for the first Cluster
\* of a name before it is held, it stays held until it is deleted, and nothing is
\* ever made for a Cluster that was not created.
ImportsInOrder == Promise!Spec

\* And it makes progress: a Cluster that stays is held, a deleted one let go, and
\* what belongs to one that is gone is collected.
ImportsInTheEnd == Promise!Progress
================================================================================
