---------------------------- MODULE MCHelmInstall ----------------------------
(* HelmInstall on a small instance. *)
EXTENDS HelmInstall

On == [oci |-> TRUE, ops |-> TRUE]
OciOnly == [oci |-> TRUE, ops |-> FALSE]

Chart(kind, version) ==
    [install |-> [kind |-> kind, version |-> version], gates |-> On, ref |-> FALSE]

Latest == Chart("latest", 0)

(* Every kind of install, and a spec whose gates go to a ConfigMap. *)
AllSpecs ==
    {Chart("none", 0), Latest, Chart("keep", 0), Chart("pinned", 1), Chart("pinned", 2),
     [Chart("pinned", 1) EXCEPT !.gates = OciOnly, !.ref = TRUE]}

LatestOnly == {Latest}

SplitGates == {[Latest EXCEPT !.gates = OciOnly]}
==============================================================================
