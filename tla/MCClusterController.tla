-------------------------- MODULE MCClusterController --------------------------
(***************************************************************************)
(* Instances of ClusterController.  Clusters c1 and c2 live in namespace   *)
(* app, the class k1 in namespace lib, the class k2 beside the Clusters.   *)
(***************************************************************************)
EXTENDS ClusterImport, TLC

CONSTANTS c1, c2, app, lib, k1, k2, n1, n2, w1, w2

MCNamespaces == {app, lib}

\* The two watches differ in nothing.
WatchSymmetry == Permutations(Watches)

\* Where the Clusters live.
InApp == [c \in Clusters |-> app]

\* Names of the Clusters and, without a naming strategy, of their Fleet Clusters.
MCNameOf == [c \in Clusters |-> IF c = c1 THEN n1 ELSE n2]

MCClassNs == [k \in Classes |-> IF k = k2 THEN app ELSE lib]
OneClass == [c \in Clusters |-> {k1}]

\* Configurations.
Full == [enabled |-> TRUE, applyClassGroup |-> TRUE,
         patchResource |-> TRUE, setOwnerReferences |-> TRUE]
Disabled == [Full EXCEPT !.enabled = FALSE]
Sparse == [Full EXCEPT !.applyClassGroup = FALSE, !.patchResource = FALSE,
                       !.setOwnerReferences = FALSE]

OnlyFull == {Full}
Various == {Full, Disabled, Sparse}

\* Disturbances.
Quiet == {}
Crashes == {"fault", "restart"}
Dropping == {"drop"}
================================================================================
