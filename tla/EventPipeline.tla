----------------------------- MODULE EventPipeline -----------------------------
(***************************************************************************)
(* From the watches to the controllers: BroadcastStream, MultiDispatcher   *)
(* and broadcaster of src/multi_dispatcher.rs, the controllers that change *)
(* the set of watches (update_watches in src/controllers/addon_config.rs,  *)
(* add_namespace_dynamic_watch in src/controllers/cluster.rs), and the     *)
(* start-up barrier and the polling of src/controller.rs.                  *)
(*                                                                         *)
(* All controllers are futures of one main task: a pass of it polls each   *)
(* of them once, in any order, and it passes again only when woken.        *)
(* Reconciles are spawned: they run on other threads, share the set of     *)
(* watches under a lock, and wake the main task when they end.  A watch    *)
(* that was pushed asks the API server for nothing until it is polled.     *)
(***************************************************************************)
EXTENDS Naturals, Sequences, FiniteSets, SequencesExt

CONSTANTS
    Namespaces,
    Capacity,    \* the size of the broadcast buffer
    Budget,      \* bound: how often a label, a namespace or the selector changes
    None

(* spec.cluster.namespaceSelector: empty, or a label. *)
Selectors == {"all", "label"}

Subscribers == {"clusters", "namespaces"}

Futures == {"broadcast", "config"} \cup Subscribers

(* The reconcile of the watches, and one per namespace. *)
Tasks == {"watches"} \cup Namespaces

NamespaceEvent == [kind : {"Namespace"}, type : {"Apply", "Delete"}, ns : Namespaces]
ClusterEvent == [kind : {"Cluster"}, type : {"Apply"}, ns : Namespaces]
Event == NamespaceEvent \cup ClusterEvent

ASSUME PipelineAssumption ==
    /\ Capacity \in Nat \ {0}
    /\ Budget \in Nat
    /\ IsFiniteSet(Namespaces)
    /\ None \notin Namespaces \cup Selectors \cup {"watches"} \cup Event
    /\ "watches" \notin Namespaces

VARIABLES
    labelled,    \* the namespaces that carry the label
    selector,    \* the namespace selector of the FleetAddonConfig
    exists,      \* the namespaces that hold a Cluster
    changes,     \* how much of Budget is used
    arrived,     \* the controllers that wait at the barrier
    subscribed,  \* the receivers of the broadcast that exist
    nsWatch,     \* the watch over namespaces, which comes with one over all Clusters
    watches,     \* the watches over the Clusters of one namespace
    ready,       \* the namespaces whose watches hold a Cluster event
    lock,        \* who holds the lock of the stream
    task,        \* the next step of each spawned reconcile
    asked,       \* the selector the reconcile of the watches works with, if one runs
    todo,        \* the futures this pass of the main task has still to poll
    woken,       \* the main task is to pass again
    sending,     \* the event the broadcaster has taken and not yet sent
    queue,       \* what each receiver has not read
    configDue,   \* an event of the FleetAddonConfig asks for a reconcile
    nsStore,     \* the namespace controller's store
    nsDue,       \* the namespaces it is to reconcile
    heard,       \* the namespaces whose Cluster reached the Cluster controller
    panicked     \* the broadcaster ended

surroundings == <<labelled, selector, exists, changes>>
setup == <<arrived, subscribed>>
stream == <<nsWatch, watches, ready>>
tasks == <<lock, task, asked>>
controllers == <<configDue, nsStore, nsDue, heard>>
vars == <<surroundings, setup, stream, tasks, todo, woken, sending, queue, controllers,
          panicked>>

NoWatch == [state |-> "none", selector |-> "all", pending |-> <<>>]

(* fresh: pushed and never polled; listing: its list is under way. *)
NoWatches == [n \in Namespaces |-> [fresh |-> 0, listing |-> 0, live |-> 0]]

TypeOK ==
    /\ labelled \in SUBSET Namespaces
    /\ selector \in Selectors
    /\ exists \in SUBSET Namespaces
    /\ changes \in Nat
    /\ arrived \subseteq {"config", "cluster", "class"}
    /\ subscribed \subseteq Subscribers
    /\ nsWatch \in [state : {"none", "fresh", "listing", "live"}, selector : Selectors,
                    pending : Seq(NamespaceEvent)]
    /\ nsWatch.pending # <<>> => nsWatch.state = "live"
    /\ watches \in [Namespaces -> [fresh : Nat, listing : Nat, live : Nat]]
    /\ ready \subseteq {n \in Namespaces : watches[n].live > 0}
    /\ lock \in Tasks \cup {None}
    /\ task \in [Tasks -> {"none", "lock", "clear", "push"}]
    /\ asked \in Selectors \cup {None}
    /\ todo \in Seq(Futures)
    /\ woken \in BOOLEAN
    /\ sending \in Event \cup {None}
    /\ queue \in [Subscribers -> Seq(Event)]
    /\ \A s \in Subscribers : Len(queue[s]) <= Capacity
    /\ configDue \in BOOLEAN
    /\ nsStore \subseteq Namespaces
    /\ nsDue \subseteq Namespaces
    /\ heard \subseteq Namespaces
    /\ panicked \in BOOLEAN

Matches(sel, labels) == IF sel = "all" THEN Namespaces ELSE labels

Selected == Matches(selector, labelled)

(***************************************************************************)
(* run_fleet_addon_config_controller first updates the watches itself,     *)
(* with nobody to share the stream with; its own watch then lists the      *)
(* FleetAddonConfig once more.                                             *)
(***************************************************************************)
Init ==
    /\ labelled \in SUBSET Namespaces
    /\ selector \in Selectors
    /\ exists \in SUBSET Namespaces
    /\ changes = 0
    /\ arrived = {}
    /\ subscribed = {}
    /\ nsWatch = NoWatch
    /\ watches = NoWatches
    /\ ready = {}
    /\ lock = None
    /\ task = [t \in Tasks |-> IF t = "watches" THEN "lock" ELSE "none"]
    /\ asked = selector
    /\ todo = <<>>
    /\ woken = FALSE
    /\ sending = None
    /\ queue = [s \in Subscribers |-> <<>>]
    /\ configDue = TRUE
    /\ nsStore = {}
    /\ nsDue = {}
    /\ heard = {}
    /\ panicked = FALSE

--------------------------------------------------------------------------------
(* The surroundings. *)

Change == changes < Budget /\ changes' = changes + 1

(* The API server tells a live watch, and the watch wakes the main task. *)
Tell(type, n) ==
    /\ nsWatch' = [nsWatch EXCEPT !.pending =
                     Append(@, [kind |-> "Namespace", type |-> type, ns |-> n])]
    /\ woken' = TRUE

(* A namespace gets or loses the label. *)
Label(n) ==
    /\ Change
    /\ labelled' = IF n \in labelled THEN labelled \ {n} ELSE labelled \cup {n}
    /\ \/ /\ nsWatch.state = "live"
          /\ IF n \in Matches(nsWatch.selector, labelled')
             THEN Tell("Apply", n) ELSE Tell("Delete", n)
       \/ /\ nsWatch.state # "live"
          /\ UNCHANGED <<nsWatch, woken>>
    /\ UNCHANGED <<selector, exists, setup, watches, ready, tasks, todo, sending,
                   queue, controllers, panicked>>

(* Anything else of a selected namespace changes, an annotation for instance. *)
Touch(n) ==
    /\ nsWatch.state = "live"
    /\ n \in Matches(nsWatch.selector, labelled)
    /\ Change
    /\ Tell("Apply", n)
    /\ UNCHANGED <<labelled, selector, exists, setup, watches, ready, tasks, todo,
                   sending, queue, controllers, panicked>>

(* A user changes the selector. *)
Edit(s) ==
    /\ s # selector
    /\ Change
    /\ selector' = s
    /\ configDue' = TRUE
    /\ woken' = TRUE
    /\ UNCHANGED <<labelled, exists, setup, stream, tasks, todo, sending, queue, nsStore,
                   nsDue, heard, panicked>>

CreateCluster(n) ==
    /\ n \notin exists
    /\ exists' = exists \cup {n}
    /\ \/ /\ watches[n].live > 0
          /\ ready' = ready \cup {n}
          /\ woken' = TRUE
       \/ /\ watches[n].live = 0
          /\ UNCHANGED <<ready, woken>>
    /\ UNCHANGED <<labelled, selector, changes, setup, nsWatch, watches, tasks, todo,
                   sending, queue, controllers, panicked>>

(* The first list of a watch arrives. *)
ListNamespaces ==
    /\ nsWatch.state = "listing"
    /\ \E list \in SetToSeqs([kind : {"Namespace"}, type : {"Apply"},
                              ns : Matches(nsWatch.selector, labelled)]) :
         nsWatch' = [nsWatch EXCEPT !.state = "live", !.pending = list]
    /\ woken' = TRUE
    /\ UNCHANGED <<surroundings, setup, watches, ready, tasks, todo, sending, queue,
                   controllers, panicked>>

ListClusters(n) ==
    /\ watches[n].listing > 0
    /\ watches' = [watches EXCEPT ![n].listing = 0, ![n].live = @ + watches[n].listing]
    /\ ready' = IF n \in exists THEN ready \cup {n} ELSE ready
    /\ woken' = TRUE
    /\ UNCHANGED <<surroundings, setup, nsWatch, tasks, todo, sending, queue,
                   controllers, panicked>>

--------------------------------------------------------------------------------
(* Start-up. *)

(* run_cluster_controller subscribes both its controllers, then waits. *)
ClusterStarts ==
    /\ "cluster" \notin arrived
    /\ subscribed' = Subscribers
    /\ arrived' = arrived \cup {"cluster"}
    /\ woken' = TRUE
    /\ UNCHANGED <<surroundings, stream, tasks, todo, sending, queue, controllers, panicked>>

ClassStarts ==
    /\ "class" \notin arrived
    /\ arrived' = arrived \cup {"class"}
    /\ woken' = TRUE
    /\ UNCHANGED <<surroundings, subscribed, stream, tasks, todo, sending, queue,
                   controllers, panicked>>

(* Mutant: the barrier forgets one of the controllers. *)
BarrierOfTwo == 2

BarrierSize == 3

--------------------------------------------------------------------------------
(* Reconciles, on other threads. *)

(* Mutant: update_watches clears the stream before it has the lock. *)
FirstTaskStepUnlocked(t) == IF t = "watches" THEN "clear" ELSE "lock"

FirstTaskStep(t) == "lock"

Acquire(t) ==
    /\ task[t] = "lock"
    /\ lock = None
    /\ lock' = t
    /\ task' = [task EXCEPT ![t] = IF t = "watches" THEN "clear" ELSE "push"]
    /\ UNCHANGED <<surroundings, setup, stream, asked, todo, woken, sending, queue,
                   controllers, panicked>>

(* Mutant: the end of a reconcile goes unnoticed. *)
WokenByOthers == woken

(* The main task awaits the spawned task and is woken when it ends. *)
WokenByTask == TRUE

(* The lock goes with the guard, and the task is over. *)
Finish(t) ==
    /\ task' = [task EXCEPT ![t] = "none"]
    /\ lock' = None
    /\ woken' = WokenByTask

Clear ==
    /\ task["watches"] = "clear"
    /\ nsWatch' = NoWatch
    /\ watches' = NoWatches
    /\ ready' = {}
    /\ task' = [task EXCEPT !["watches"] = "push"]
    /\ UNCHANGED <<surroundings, setup, lock, asked, todo, woken, sending, queue,
                   controllers, panicked>>

(* The first time this is start-up code: the controller reaches the barrier. *)
PushBoth ==
    /\ task["watches"] = "push"
    /\ nsWatch' = [NoWatch EXCEPT !.state = "fresh", !.selector = asked]
    /\ arrived' = arrived \cup {"config"}
    /\ asked' = None
    /\ Finish("watches")
    /\ UNCHANGED <<surroundings, subscribed, watches, ready, todo, sending,
                   queue, controllers, panicked>>

(* add_namespace_dynamic_watch never asks whether a watch is there. *)
PushWatch(n) ==
    /\ task[n] = "push"
    /\ watches' = [watches EXCEPT ![n].fresh = @ + 1]
    /\ Finish(n)
    /\ UNCHANGED <<surroundings, setup, nsWatch, ready, asked, todo, sending, queue,
                   controllers, panicked>>

--------------------------------------------------------------------------------
(* The main task. *)

(* join! and select!: the functions, and the futures of each, in either order. *)
Pass ==
    /\ Cardinality(arrived) >= BarrierSize
    /\ todo = <<>>
    /\ woken
    /\ \E watching \in {<<"broadcast", "config">>, <<"config", "broadcast">>},
          reading \in {<<"clusters", "namespaces">>, <<"namespaces", "clusters">>} :
         todo' \in {watching \o reading, reading \o watching}
    /\ woken' = FALSE
    /\ UNCHANGED <<surroundings, setup, stream, tasks, sending, queue, controllers, panicked>>

Polling(f) == todo # <<>> /\ Head(todo) = f

(* The future is pending, and the next one is polled. *)
Polled(f) == Polling(f) /\ todo' = Tail(todo)

(* Mutant: the buffer takes one event too many. *)
FullLate(q) == \E s \in subscribed : Len(q[s]) > Capacity

(* The buffer keeps an event until every receiver has read it. *)
Full(q) == \E s \in subscribed : Len(q[s]) >= Capacity

(* The broadcaster polls the stream: only with nothing to send, and the lock. *)
Polls == Polling("broadcast") /\ sending = None

Holds == nsWatch.pending # <<>> \/ ready # {}

Contended ==
    /\ Polls
    /\ lock # None
    /\ Polled("broadcast")
    /\ UNCHANGED <<surroundings, setup, stream, tasks, woken, sending, queue, controllers,
                   panicked>>

TakeNamespace ==
    /\ Polls /\ lock = None
    /\ nsWatch.pending # <<>>
    /\ sending' = Head(nsWatch.pending)
    /\ nsWatch' = [nsWatch EXCEPT !.pending = Tail(@)]
    /\ UNCHANGED <<surroundings, setup, watches, ready, tasks, todo, woken,
                   queue, controllers, panicked>>

TakeCluster(n) ==
    /\ Polls /\ lock = None
    /\ n \in ready
    /\ sending' = [kind |-> "Cluster", type |-> "Apply", ns |-> n]
    /\ ready' = ready \ {n}
    /\ UNCHANGED <<surroundings, setup, nsWatch, watches, tasks, todo, woken,
                   queue, controllers, panicked>>

(* A set of no streams is over, and with it the broadcaster: panic!. *)
Unwatched == nsWatch = NoWatch /\ watches = NoWatches

(* No watch has an event: those polled for the first time start their list. *)
Arm ==
    /\ Polls /\ lock = None /\ ~Holds
    /\ nsWatch' = [nsWatch EXCEPT !.state = IF @ = "fresh" THEN "listing" ELSE @]
    /\ watches' = [n \in Namespaces |->
                     [fresh |-> 0, listing |-> watches[n].listing + watches[n].fresh,
                      live |-> watches[n].live]]
    /\ panicked' = (panicked \/ Unwatched)
    /\ Polled("broadcast")
    /\ UNCHANGED <<surroundings, setup, ready, tasks, woken, sending, queue, controllers>>

(* The receivers are woken; with none, broadcast_direct fails and the event is lost. *)
Send ==
    /\ Polling("broadcast") /\ sending # None
    /\ ~Full(queue)
    /\ queue' = [s \in Subscribers |->
                   IF s \in subscribed THEN Append(queue[s], sending) ELSE queue[s]]
    /\ sending' = None
    /\ woken' = TRUE
    /\ UNCHANGED <<surroundings, setup, stream, tasks, todo, controllers, panicked>>

Wait ==
    /\ Polling("broadcast") /\ sending # None
    /\ Full(queue)
    /\ Polled("broadcast")
    /\ UNCHANGED <<surroundings, setup, stream, tasks, woken, sending, queue, controllers,
                   panicked>>

(* Mutant: room in the buffer wakes nobody. *)
WokenByRoomNever(q) == FALSE

(* The receiver that reads an event last wakes a waiting sender. *)
WokenByRoom(q) == sending # None /\ ~Full(q)

Concerns(e, kind, n) == e.kind = kind /\ e.ns = n

(* A receiver skips events of the other kind, and those of other namespaces. *)
Silent(events, kind, n) == \A i \in DOMAIN events : ~Concerns(events[i], kind, n)

(* The last of these events about the namespace says that it is selected. *)
Selects(events, n) ==
    \E i \in DOMAIN events :
        /\ Concerns(events[i], "Namespace", n)
        /\ events[i].type = "Apply"
        /\ \A j \in DOMAIN events : j > i => ~Concerns(events[j], "Namespace", n)

(* A controller reads all that its receiver holds. *)
ReadAll(s) ==
    /\ Polled(s)
    /\ queue' = [queue EXCEPT ![s] = <<>>]
    /\ woken' = (woken \/ WokenByRoom(queue'))

(***************************************************************************)
(* TypedReflectHandle::poll_next updates the store; the namespace          *)
(* controller then spawns the reconciles that are due, one at a time per   *)
(* namespace.  A namespace that left the store is skipped.                 *)
(***************************************************************************)
PollNamespaces ==
    /\ ReadAll("namespaces")
    /\ LET events == queue["namespaces"]
           store == {n \in Namespaces : \/ Selects(events, n)
                                        \/ n \in nsStore /\ Silent(events, "Namespace", n)}
           due == {n \in Namespaces : n \in nsDue \/ ~Silent(events, "Namespace", n)}
       IN  /\ nsStore' = store
           /\ nsDue' = {n \in due : task[n] # "none"}
           /\ task' = [t \in Tasks |-> IF t \in due \cap store /\ task[t] = "none"
                                       THEN FirstTaskStep(t) ELSE task[t]]
    /\ UNCHANGED <<surroundings, setup, stream, lock, asked, sending, configDue, heard,
                   panicked>>

PollClusters ==
    /\ ReadAll("clusters")
    /\ heard' = heard \cup {n \in Namespaces : ~Silent(queue["clusters"], "Cluster", n)}
    /\ UNCHANGED <<surroundings, setup, stream, tasks, sending, configDue, nsStore, nsDue,
                   panicked>>

(* The controller of the dynamic watches, with the FleetAddonConfig it has. *)
PollConfig ==
    /\ Polled("config")
    /\ \/ /\ configDue /\ task["watches"] = "none"
          /\ task' = [task EXCEPT !["watches"] = FirstTaskStep("watches")]
          /\ asked' = selector
          /\ configDue' = FALSE
       \/ /\ ~(configDue /\ task["watches"] = "none")
          /\ UNCHANGED <<task, asked, configDue>>
    /\ UNCHANGED <<surroundings, setup, stream, lock, woken, sending, queue, nsStore,
                   nsDue, heard, panicked>>

--------------------------------------------------------------------------------
Environment ==
    \/ \E n \in Namespaces : Label(n) \/ Touch(n) \/ CreateCluster(n)
    \/ \E s \in Selectors : Edit(s)

Lists == ListNamespaces \/ \E n \in Namespaces : ListClusters(n)

StartUp == ClusterStarts \/ ClassStarts

WatchesTask == Acquire("watches") \/ Clear \/ PushBoth

NamespaceTask(n) == Acquire(n) \/ PushWatch(n)

MainTask ==
    \/ Pass \/ Contended \/ TakeNamespace \/ Arm \/ Send \/ Wait
    \/ PollNamespaces \/ PollClusters \/ PollConfig
    \/ \E n \in Namespaces : TakeCluster(n)

Next ==
    \/ Environment \/ Lists \/ StartUp \/ WatchesTask \/ MainTask
    \/ \E n \in Namespaces : NamespaceTask(n)

(***************************************************************************)
(* The runtime polls a woken task and every spawned one, and the API       *)
(* server answers.  The lock need not be fair.                             *)
(***************************************************************************)
Fairness ==
    /\ WF_vars(Lists) /\ WF_vars(StartUp) /\ WF_vars(MainTask) /\ WF_vars(WatchesTask)
    /\ \A n \in Namespaces : WF_vars(NamespaceTask(n))

Spec == Init /\ [][Next]_vars /\ Fairness

--------------------------------------------------------------------------------
(***************************************************************************)
(* Nothing is broadcast before both controllers of the Clusters subscribe: *)
(* the channel keeps no event for a receiver that comes later (the barrier *)
(* of run_cluster_controller and run_fleet_addon_config_controller).       *)
(***************************************************************************)
NoneUnheard == sending # None => subscribed = Subscribers

(***************************************************************************)
(* "This should not happen before controllers exit": the broadcaster never *)
(* sees the stream between clear() and push() (update_watches).            *)
(***************************************************************************)
NeverEnds == ~panicked

(***************************************************************************)
(* When the main task sleeps and no reconcile runs to wake it, nothing is  *)
(* left to do: no event in a watch, in the broadcaster or in the buffer,   *)
(* no watch that was pushed and never polled, no reconcile that is due     *)
(* (BroadcastStream::poll_next, which is Pending without a waker when the  *)
(* lock is taken, and broadcast_event, which waits for room).              *)
(***************************************************************************)
Asleep == /\ Cardinality(arrived) >= BarrierSize
          /\ todo = <<>> /\ ~woken
          /\ \A t \in Tasks : task[t] = "none"

NothingForgotten ==
    Asleep => /\ ~Holds /\ sending = None
              /\ nsWatch.state # "fresh" /\ \A n \in Namespaces : watches[n].fresh = 0
              /\ \A s \in Subscribers : queue[s] = <<>>
              /\ ~configDue /\ nsDue = {}

(***************************************************************************)
(* When the main task sleeps as above and no list is outstanding, every    *)
(* Cluster of a namespace the selector matches has reached the Cluster     *)
(* controller, whatever watches were cleared and pushed meanwhile          *)
(* (update_watches, add_namespace_dynamic_watch, BroadcastStream).         *)
(***************************************************************************)
Listing == nsWatch.state = "listing" \/ \E n \in Namespaces : watches[n].listing > 0

HeardAtRest == Asleep /\ ~Listing => exists \cap Selected \subseteq heard

(***************************************************************************)
(* A Cluster of a selected namespace reaches the Cluster controller,       *)
(* whatever is edited, labelled or pushed meanwhile: no wake-up is lost    *)
(* when the broadcaster finds the lock taken, when a watch is pushed under *)
(* it, or when the buffer is full (BroadcastStream::poll_next,             *)
(* add_namespace_dynamic_watch, broadcast_event).                          *)
(***************************************************************************)
Heard == <>[](exists \cap Selected \subseteq heard)

(***************************************************************************)
(* "If set, only clusters in the namespace matching label selector will be *)
(* imported", src/api/fleet_addon_config.rs: in the end no watch remains   *)
(* on a namespace that the selector does not match.                        *)
(***************************************************************************)
OnlySelectedWatched ==
    <>[](\A n \in Namespaces \ Selected : watches[n] = NoWatches[n])
================================================================================
