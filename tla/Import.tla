--------------------------------- MODULE Import ---------------------------------
(***************************************************************************)
(* What the cluster controller promises, whatever it does in between       *)
(* (FleetController in src/controllers/controller.rs), and however many    *)
(* watches it merges.  The first Cluster of a name is held by our          *)
(* finalizer before anything is made for it; while it is not being deleted *)
(* the finalizer stays; when it is deleted the finalizer goes in the end;  *)
(* objects are only given to Clusters that have been created, and those of *)
(* a Cluster that is gone are collected, however often they come back.     *)
(* When a name is used again the promise is weaker: an older state of the  *)
(* earlier Cluster may make the controller take the finalizer of the later *)
(* one, which it then gives back.                                          *)
(***************************************************************************)
EXTENDS Naturals

CONSTANTS
    Clusters,   \* the names
    Uids        \* what tells the Clusters of one name apart: 1, 2, ...

VARIABLES
    phase,   \* of the Cluster of each name
    uid,     \* the last uid of each name
    owned    \* the uids of each name that objects refer to as their owner

vars == <<phase, uid, owned>>

Phases == {"absent", "new", "held", "leaving", "released"}

Init ==
    /\ phase = [c \in Clusters |-> "absent"]
    /\ uid = [c \in Clusters |-> 0]
    /\ owned = [c \in Clusters |-> {}]

Become(c, from, to) ==
    /\ phase[c] \in from
    /\ phase' \in {[phase EXCEPT ![c] = p] : p \in to}
    /\ UNCHANGED owned

Create(c) ==
    /\ Become(c, {"absent"}, {"new"})
    /\ uid[c] + 1 \in Uids
    /\ uid' = [uid EXCEPT ![c] = @ + 1]

Hold(c) == Become(c, {"new"}, {"held"}) /\ UNCHANGED uid

\* A cleanup of an earlier Cluster of the name.
Strip(c) ==
    /\ uid[c] > 1
    /\ Become(c, {"held"}, {"new"})
    /\ UNCHANGED uid

\* Without our finalizer a deleted Cluster waits for others, or is gone.
Delete(c) ==
    /\ \/ Become(c, {"new"}, {"released", "absent"})
       \/ Become(c, {"held"}, {"leaving"})
    /\ UNCHANGED uid

Release(c) == Become(c, {"leaving"}, {"released", "absent"}) /\ UNCHANGED uid

Vanish(c) == Become(c, {"released"}, {"absent"}) /\ UNCHANGED uid

\* Is an object of this owner one to be collected?
Stale(c, u) == u # uid[c] \/ phase[c] = "absent"

\* An object is made for a Cluster u of the name, the last one or an earlier
\* one; it may take the place of others.
Own(c, u) ==
    /\ u <= uid[c]
    /\ uid[c] = 1 => phase[c] # "new"
    /\ owned' \in {[owned EXCEPT ![c] = o \cup {u}] : o \in SUBSET owned[c]}
    /\ UNCHANGED <<phase, uid>>

\* Users delete objects, the garbage collector those of earlier Clusters, and
\* an object may have several owners.
Disown ==
    /\ owned' \in {o \in [Clusters -> SUBSET Uids] : \A c \in Clusters : o[c] \subseteq owned[c]}
    /\ UNCHANGED <<phase, uid>>

Next ==
    \/ Disown
    \/ \E c \in Clusters :
         \/ Create(c) \/ Hold(c) \/ Strip(c) \/ Delete(c) \/ Release(c) \/ Vanish(c)
         \/ \E u \in Uids : Own(c, u)

Spec == Init /\ [][Next]_vars

\* A Cluster does not stay as it is where the next step is the controller's,
\* Cluster API's or the garbage collector's.
Progress ==
    \A c \in Clusters :
        /\ phase[c] = "new" ~> phase[c] # "new"
        /\ phase[c] \in {"leaving", "released"} ~> phase[c] = "absent"
        /\ \A u \in Uids : (u \in owned[c] /\ Stale(c, u)) ~> (u \notin owned[c])

FairSpec == Spec /\ Progress
=================================================================================
