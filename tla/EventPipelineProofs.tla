-------------------------- MODULE EventPipelineProofs --------------------------
(***************************************************************************)
(* Theorems about EventPipeline, for every set of namespaces, size of the  *)
(* buffer and number of changes.  TypeOK is inductive; so is Locked, which *)
(* says who may find the stream empty, and with it NeverEnds; so is        *)
(* Started, and with it NoneUnheard.  Awake is why no wake-up is lost, and *)
(* Chain why no Cluster of a selected namespace is left behind.            *)
(***************************************************************************)
EXTENDS EventPipeline, FiniteSetTheorems, TLAPS

(* The first list of a watch, in any order, is a sequence of its events. *)
LEMMA ListType ==
    ASSUME NEW S, IsFiniteSet(S), NEW list \in SetToSeqs(S)
    PROVE  list \in Seq(S)
<1>1. Cardinality(S) \in Nat
  BY FS_CardinalityType
<1>2. list \in [1 .. Cardinality(S) -> S]
  BY DEF SetToSeqs
<1> QED
  BY <1>1, <1>2

(* Apply events for some of the namespaces are finitely many. *)
LEMMA AppliesFinite ==
    ASSUME NEW N \in SUBSET Namespaces
    PROVE  /\ IsFiniteSet([kind : {"Namespace"}, type : {"Apply"}, ns : N])
           /\ [kind : {"Namespace"}, type : {"Apply"}, ns : N] \subseteq NamespaceEvent
<1> DEFINE S == [kind : {"Namespace"}, type : {"Apply"}, ns : N]
           e(n) == [kind |-> "Namespace", type |-> "Apply", ns |-> n]
           f == [n \in N |-> e(n)]
<1>1. IsFiniteSet(N)
  BY PipelineAssumption, FS_Subset
<1>2. f \in Surjection(N, S)
  <2>1. \A s \in S : s.ns \in N /\ s = e(s.ns)
    OBVIOUS
  <2>2. f \in [N -> S]
    OBVIOUS
  <2>3. \A s \in S : \E n \in N : f[n] = s
    BY <2>1
  <2> QED
    BY <2>2, <2>3 DEF Surjection
<1>3. IsFiniteSet(S)
  BY <1>1, <1>2, FS_Surjection
<1> QED
  BY <1>3 DEF NamespaceEvent

LEMMA PassType ==
    ASSUME Pass
    PROVE  todo' \in Seq(Futures)
<1>1. PICK watching \in {<<"broadcast", "config">>, <<"config", "broadcast">>},
           reading \in {<<"clusters", "namespaces">>, <<"namespaces", "clusters">>} :
        todo' \in {watching \o reading, reading \o watching}
  BY DEF Pass
<1>2. /\ {<<"broadcast", "config">>, <<"config", "broadcast">>} \subseteq Seq(Futures)
      /\ {<<"clusters", "namespaces">>, <<"namespaces", "clusters">>} \subseteq Seq(Futures)
  BY DEF Futures, Subscribers
<1>3. watching \in Seq(Futures) /\ reading \in Seq(Futures)
  BY <1>2
<1>4. \A a, b \in Seq(Futures) : a \o b \in Seq(Futures)
  OBVIOUS
<1>5. watching \o reading \in Seq(Futures) /\ reading \o watching \in Seq(Futures)
  BY <1>3, <1>4
<1> QED
  BY <1>1, <1>5

(* The first event of a watch or of a pass leaves a shorter queue behind. *)
LEMMA TailType ==
    ASSUME NEW S, NEW q \in Seq(S), q # <<>>
    PROVE  Head(q) \in S /\ Tail(q) \in Seq(S)
  OBVIOUS

(* The room in the buffer is room for one more event. *)
LEMMA SendType ==
    ASSUME TypeOK, Send
    PROVE  /\ queue' \in [Subscribers -> Seq(Event)]
           /\ \A s \in Subscribers : Len(queue'[s]) <= Capacity
<1>1. sending \in Event
  BY DEF TypeOK, Send
<1>2. \A s \in Subscribers :
        LET q == IF s \in subscribed THEN Append(queue[s], sending) ELSE queue[s]
        IN  q \in Seq(Event) /\ Len(q) <= Capacity
  BY <1>1, PipelineAssumption DEF TypeOK, Send, Full
<1> QED
  BY <1>2 DEF Send

LEMMA ReadAllType ==
    ASSUME TypeOK, NEW s \in Subscribers, ReadAll(s)
    PROVE  /\ queue' \in [Subscribers -> Seq(Event)]
           /\ \A r \in Subscribers : Len(queue'[r]) <= Capacity
           /\ woken' \in BOOLEAN
           /\ todo' \in Seq(Futures)
<1>1. <<>> \in Seq(Event) /\ Len(<<>>) = 0
  OBVIOUS
<1>2. queue' \in [Subscribers -> Seq(Event)]
  BY <1>1 DEF TypeOK, ReadAll
<1>3. \A r \in Subscribers : Len(queue'[r]) <= Capacity
  BY <1>1, PipelineAssumption DEF TypeOK, ReadAll
<1>4. todo' \in Seq(Futures)
  BY TailType DEF TypeOK, ReadAll, Polled, Polling
<1>5. woken' \in BOOLEAN
  BY DEF TypeOK, ReadAll, WokenByRoom
<1> QED
  BY <1>2, <1>3, <1>4, <1>5

--------------------------------------------------------------------------------
(* A reconcile that changes the stream has the lock, and only that of the *)
(* watches clears it.                                                     *)
Locked ==
    /\ \A t \in Tasks : task[t] \in {"clear", "push"} <=> lock = t
    /\ \A n \in Namespaces : task[n] # "clear"

(* Once it was filled, the stream lacks its first watches only under the lock. *)
Filled == nsWatch.state = "none" => "config" \notin arrived \/ task["watches"] = "push"

(* The reconcile of the watches knows a selector. *)
Carrying == asked = None => task["watches"] = "none"

(* The main task runs once all have arrived, the Cluster controllers subscribed. *)
Started ==
    /\ todo # <<>> \/ sending # None => {"config", "cluster"} \subseteq arrived
    /\ "cluster" \in arrived => subscribed = Subscribers

IInv == TypeOK /\ Locked /\ Filled /\ Carrying /\ Started /\ NeverEnds

LEMMA InitInv == Init => IInv
<1> SUFFICES ASSUME Init PROVE IInv
  OBVIOUS
<1> USE PipelineAssumption
<1>1. watches \in [Namespaces -> [fresh : Nat, listing : Nat, live : Nat]]
  BY DEF Init, NoWatches
<1>2. nsWatch \in [state : {"none", "fresh", "listing", "live"}, selector : Selectors,
                   pending : Seq(NamespaceEvent)]
  BY DEF Init, NoWatch, Selectors
<1>3. queue \in [Subscribers -> Seq(Event)] /\ \A s \in Subscribers : Len(queue[s]) <= Capacity
  BY DEF Init
<1>4. nsWatch.pending = <<>> /\ <<>> \in Seq(Futures)
  BY DEF Init, NoWatch
<1>5. task \in [Tasks -> {"none", "lock", "clear", "push"}] /\ selector \in Selectors
  BY DEF Init
<1>6. TypeOK
  BY <1>1, <1>2, <1>3, <1>4, <1>5 DEF Init, TypeOK
<1>7. Locked
  BY DEF Init, Locked, Tasks
<1> QED
  BY <1>6, <1>7 DEF Init, IInv, Selectors, Filled, Carrying, Started, NeverEnds

(* A live watch may be told of a namespace. *)
LEMMA TellType ==
    ASSUME TypeOK, nsWatch.state = "live", NEW n \in Namespaces,
           NEW type \in {"Apply", "Delete"}, Tell(type, n)
    PROVE  /\ nsWatch' \in [state : {"none", "fresh", "listing", "live"},
                            selector : Selectors, pending : Seq(NamespaceEvent)]
           /\ nsWatch'.state = "live"
           /\ woken' \in BOOLEAN
<1>1. [kind |-> "Namespace", type |-> type, ns |-> n] \in NamespaceEvent
  BY DEF NamespaceEvent
<1>2. Append(nsWatch.pending, [kind |-> "Namespace", type |-> type, ns |-> n])
        \in Seq(NamespaceEvent)
  BY <1>1 DEF TypeOK
<1> QED
  BY <1>2 DEF TypeOK, Tell

LEMMA EnvironmentType ==
    ASSUME IInv, Environment
    PROVE  TypeOK'
<1> USE PipelineAssumption DEF IInv, surroundings, setup, stream, tasks, controllers
<1>1. ASSUME NEW n \in Namespaces, Label(n) PROVE TypeOK'
  <2>1. CASE nsWatch.state = "live"
    <3>1. Tell("Apply", n) \/ Tell("Delete", n)
      BY <1>1, <2>1 DEF Label
    <3>2. /\ nsWatch' \in [state : {"none", "fresh", "listing", "live"},
                           selector : Selectors, pending : Seq(NamespaceEvent)]
          /\ nsWatch'.state = "live"
          /\ woken' \in BOOLEAN
      BY <2>1, <3>1, TellType
    <3> QED
      BY <1>1, <3>2 DEF Label, Change, TypeOK
  <2>2. CASE nsWatch.state # "live"
    BY <1>1, <2>2 DEF Label, Change, TypeOK
  <2> QED
    BY <2>1, <2>2
<1>2. ASSUME NEW n \in Namespaces, Touch(n) PROVE TypeOK'
  BY <1>2, TellType DEF Touch, Change, TypeOK
<1>3. ASSUME NEW n \in Namespaces, CreateCluster(n) PROVE TypeOK'
  BY <1>3 DEF CreateCluster, TypeOK
<1>4. ASSUME NEW s \in Selectors, Edit(s) PROVE TypeOK'
  BY <1>4 DEF Edit, Change, TypeOK
<1> QED
  BY <1>1, <1>2, <1>3, <1>4 DEF Environment

LEMMA ListsType ==
    ASSUME IInv, Lists
    PROVE  TypeOK'
<1> USE PipelineAssumption DEF IInv, surroundings, setup, stream, tasks, controllers
<1>1. CASE ListNamespaces
  <2> DEFINE listed == [kind : {"Namespace"}, type : {"Apply"},
                         ns : Matches(nsWatch.selector, labelled)]
  <2>1. Matches(nsWatch.selector, labelled) \in SUBSET Namespaces
    BY DEF TypeOK, Matches
  <2>2. PICK list \in SetToSeqs(listed) :
          nsWatch' = [nsWatch EXCEPT !.state = "live", !.pending = list]
    BY <1>1 DEF ListNamespaces
  <2>3. list \in Seq(NamespaceEvent)
    <3>1. IsFiniteSet(listed) /\ listed \subseteq NamespaceEvent
      BY <2>1, AppliesFinite
    <3> HIDE DEF listed
    <3>2. list \in Seq(listed)
      BY <2>2, <3>1, ListType
    <3> QED
      BY <3>1, <3>2
  <2>4. /\ nsWatch' \in [state : {"none", "fresh", "listing", "live"},
                         selector : Selectors, pending : Seq(NamespaceEvent)]
        /\ nsWatch'.state = "live"
    BY <2>2, <2>3 DEF TypeOK
  <2> QED
    BY <1>1, <2>4 DEF ListNamespaces, TypeOK
<1>2. ASSUME NEW n \in Namespaces, ListClusters(n) PROVE TypeOK'
  <2>1. watches' \in [Namespaces -> [fresh : Nat, listing : Nat, live : Nat]]
    BY <1>2 DEF ListClusters, TypeOK
  <2>2. watches'[n].live > 0 /\ \A m \in Namespaces : watches'[m].live >= watches[m].live
    BY <1>2 DEF ListClusters, TypeOK
  <2>3. ready' \subseteq {m \in Namespaces : watches'[m].live > 0}
    BY <1>2, <2>1, <2>2 DEF ListClusters, TypeOK
  <2> QED
    BY <1>2, <2>1, <2>3 DEF ListClusters, TypeOK
<1> QED
  BY <1>1, <1>2 DEF Lists

LEMMA TasksType ==
    ASSUME IInv, WatchesTask \/ (\E n \in Namespaces : NamespaceTask(n))
    PROVE  TypeOK'
<1> USE PipelineAssumption DEF IInv, surroundings, setup, stream, tasks, controllers
<1>1. ASSUME NEW t \in Tasks, Acquire(t) PROVE TypeOK'
  BY <1>1 DEF Acquire, TypeOK
<1>2. CASE Clear
  <2>1. watches' \in [Namespaces -> [fresh : Nat, listing : Nat, live : Nat]]
    BY <1>2 DEF Clear, NoWatches
  <2>2. /\ nsWatch' \in [state : {"none", "fresh", "listing", "live"},
                         selector : Selectors, pending : Seq(NamespaceEvent)]
        /\ nsWatch'.pending = <<>>
    BY <1>2 DEF Clear, NoWatch, Selectors
  <2> QED
    BY <1>2, <2>1, <2>2 DEF Clear, TypeOK, Tasks
<1>3. CASE PushBoth
  <2>1. asked \in Selectors
    BY <1>3 DEF PushBoth, Carrying, TypeOK
  <2>2. nsWatch' = [state |-> "fresh", selector |-> asked, pending |-> <<>>]
    BY <1>3 DEF PushBoth, NoWatch
  <2>3. /\ nsWatch' \in [state : {"none", "fresh", "listing", "live"},
                         selector : Selectors, pending : Seq(NamespaceEvent)]
        /\ nsWatch'.pending = <<>>
    BY <2>1, <2>2
  <2>4. task' \in [Tasks -> {"none", "lock", "clear", "push"}]
    BY <1>3 DEF PushBoth, Finish, TypeOK
  <2>5. woken' \in BOOLEAN /\ lock' \in Tasks \cup {None}
    BY <1>3 DEF PushBoth, Finish, WokenByTask
  <2>6. arrived' \subseteq {"config", "cluster", "class"} /\ asked' = None
    BY <1>3 DEF PushBoth, TypeOK
  <2>7. UNCHANGED <<surroundings, subscribed, watches, ready, todo, sending, queue,
                    controllers, panicked>>
    BY <1>3 DEF PushBoth
  <2> QED
    BY <2>3, <2>4, <2>5, <2>6, <2>7 DEF TypeOK
<1>4. ASSUME NEW n \in Namespaces, PushWatch(n) PROVE TypeOK'
  <2>1. watches' \in [Namespaces -> [fresh : Nat, listing : Nat, live : Nat]]
    <3>1. watches' = [watches EXCEPT ![n] = [watches[n] EXCEPT !.fresh = @ + 1]]
      BY <1>4 DEF PushWatch
    <3>2. watches[n] \in [fresh : Nat, listing : Nat, live : Nat]
      BY DEF TypeOK
    <3>3. [watches[n] EXCEPT !.fresh = @ + 1] \in [fresh : Nat, listing : Nat, live : Nat]
      BY <3>2
    <3> QED
      BY <3>1, <3>3 DEF TypeOK
  <2>2. \A m \in Namespaces : watches'[m].live = watches[m].live
    BY <1>4 DEF PushWatch, TypeOK
  <2>3. ready' \subseteq {m \in Namespaces : watches'[m].live > 0}
    BY <1>4, <2>1, <2>2 DEF PushWatch, TypeOK
  <2> QED
    BY <1>4, <2>1, <2>3 DEF PushWatch, Finish, WokenByTask, TypeOK, Tasks
<1> QED
  BY <1>1, <1>2, <1>3, <1>4 DEF WatchesTask, NamespaceTask, Tasks

LEMMA MainTaskType ==
    ASSUME IInv, MainTask
    PROVE  TypeOK'
<1> USE PipelineAssumption DEF IInv, surroundings, setup, stream, tasks, controllers
<1>1. \A f \in Futures : Polled(f) => todo' \in Seq(Futures)
  BY TailType DEF TypeOK, Polled, Polling
<1>2. {"broadcast", "config"} \subseteq Futures /\ Subscribers \subseteq Futures
  BY DEF Futures
<1>3. CASE Pass
  BY <1>3, PassType DEF Pass, TypeOK
<1>4. CASE Contended
  BY <1>1, <1>2, <1>4 DEF Contended, TypeOK
<1>5. CASE TakeNamespace
  <2>1. nsWatch.pending \in Seq(NamespaceEvent) /\ nsWatch.pending # <<>>
    BY <1>5 DEF TakeNamespace, TypeOK
  <2>2. sending' \in Event /\ Tail(nsWatch.pending) \in Seq(NamespaceEvent)
    BY <1>5, <2>1, TailType DEF TakeNamespace, Event
  <2>3. /\ nsWatch' \in [state : {"none", "fresh", "listing", "live"},
                         selector : Selectors, pending : Seq(NamespaceEvent)]
        /\ nsWatch'.state = "live"
    BY <1>5, <2>2 DEF TakeNamespace, TypeOK
  <2> QED
    BY <1>5, <2>2, <2>3 DEF TakeNamespace, TypeOK
<1>6. ASSUME NEW n \in Namespaces, TakeCluster(n) PROVE TypeOK'
  <2>1. sending' \in Event
    BY <1>6 DEF TakeCluster, Event, ClusterEvent
  <2> QED
    BY <1>6, <2>1 DEF TakeCluster, TypeOK
<1>7. CASE Arm
  <2>1. watches' \in [Namespaces -> [fresh : Nat, listing : Nat, live : Nat]]
    <3>1. \A w \in [fresh : Nat, listing : Nat, live : Nat] :
            [fresh |-> 0, listing |-> w.listing + w.fresh, live |-> w.live]
              \in [fresh : Nat, listing : Nat, live : Nat]
      OBVIOUS
    <3> QED
      BY <1>7, <3>1 DEF Arm, TypeOK
  <2>2. \A m \in Namespaces : watches'[m].live = watches[m].live
    BY <1>7 DEF Arm, TypeOK
  <2>3. ready' \subseteq {m \in Namespaces : watches'[m].live > 0}
    BY <1>7, <2>2 DEF Arm, TypeOK
  <2>4. /\ nsWatch' \in [state : {"none", "fresh", "listing", "live"},
                         selector : Selectors, pending : Seq(NamespaceEvent)]
        /\ nsWatch'.pending = <<>>
    BY <1>7 DEF Arm, Holds, TypeOK
  <2>5. todo' \in Seq(Futures)
    BY <1>1, <1>2, <1>7 DEF Arm
  <2> QED
    BY <1>7, <2>1, <2>3, <2>4, <2>5 DEF Arm, TypeOK
<1>8. CASE Wait
  BY <1>1, <1>2, <1>8 DEF Wait, TypeOK
<1>9. CASE Send
  BY <1>9, SendType DEF Send, TypeOK
<1>11. CASE PollNamespaces
  <2>1. ReadAll("namespaces") /\ "namespaces" \in Subscribers
    BY <1>11 DEF PollNamespaces, Subscribers
  <2>2. nsStore' \subseteq Namespaces /\ nsDue' \subseteq Namespaces
    BY <1>11 DEF PollNamespaces
  <2>3. task' \in [Tasks -> {"none", "lock", "clear", "push"}]
    BY <1>11 DEF PollNamespaces, FirstTaskStep, TypeOK
  <2> QED
    BY <1>11, <2>1, <2>2, <2>3, ReadAllType DEF PollNamespaces, TypeOK
<1>12. CASE PollClusters
  <2>1. ReadAll("clusters") /\ "clusters" \in Subscribers
    BY <1>12 DEF PollClusters, Subscribers
  <2> QED
    BY <1>12, <2>1, ReadAllType DEF PollClusters, TypeOK
<1>13. CASE PollConfig
  BY <1>1, <1>2, <1>13 DEF PollConfig, FirstTaskStep, TypeOK
<1> QED
  BY <1>3, <1>4, <1>5, <1>6, <1>7, <1>8, <1>9, <1>11, <1>12, <1>13 DEF MainTask

LEMMA StepType == IInv /\ [Next]_vars => TypeOK'
<1>1. ASSUME IInv, UNCHANGED vars PROVE TypeOK'
  <2>1. UNCHANGED <<labelled, selector, exists, changes, arrived, subscribed, nsWatch,
                    watches, ready, lock, task, asked>>
    BY <1>1 DEF vars, surroundings, setup, stream, tasks
  <2>2. UNCHANGED <<todo, woken, sending, queue, configDue, nsStore, nsDue, heard, panicked>>
    BY <1>1 DEF vars, controllers
  <2> QED
    BY <1>1, <2>1, <2>2 DEF IInv, TypeOK
<1>2. ASSUME IInv, StartUp PROVE TypeOK'
  <2>1. CASE ClusterStarts
    BY <1>2, <2>1 DEF IInv, ClusterStarts, TypeOK, surroundings, stream, tasks, controllers
  <2>2. CASE ClassStarts
    BY <1>2, <2>2 DEF IInv, ClassStarts, TypeOK, surroundings, stream, tasks, controllers
  <2> QED
    BY <1>2, <2>1, <2>2 DEF StartUp
<1> QED
  BY <1>1, <1>2, EnvironmentType, ListsType, TasksType, MainTaskType DEF Next

(* The barrier lets the main task run only when all three have arrived. *)
LEMMA AllArrived ==
    ASSUME arrived \subseteq {"config", "cluster", "class"},
           Cardinality(arrived) >= BarrierSize
    PROVE  {"config", "cluster"} \subseteq arrived
<1>1. \A a, b : IsFiniteSet({a, b}) /\ Cardinality({a, b}) <= 2
  <2> TAKE a, b
  <2>1. IsFiniteSet({a}) /\ Cardinality({a}) = 1
    BY FS_Singleton
  <2>2. /\ IsFiniteSet({a} \cup {b})
        /\ Cardinality({a} \cup {b}) = IF b \in {a} THEN Cardinality({a})
                                                  ELSE Cardinality({a}) + 1
    BY <2>1, FS_AddElement
  <2>3. {a} \cup {b} = {a, b}
    OBVIOUS
  <2> QED
    BY <2>1, <2>2, <2>3
<1>2. ASSUME NEW a, NEW b, arrived \subseteq {a, b} PROVE FALSE
  <2>1. Cardinality(arrived) <= Cardinality({a, b})
    BY <1>1, <1>2, FS_Subset
  <2>2. Cardinality({a, b}) \in Nat /\ Cardinality(arrived) \in Nat
    BY <1>1, <1>2, FS_Subset, FS_CardinalityType
  <2> QED
    <3>1. Cardinality({a, b}) <= 2 /\ Cardinality(arrived) >= 3
      BY <1>1 DEF BarrierSize
    <3> QED
      BY <2>1, <2>2, <3>1
<1>3. "config" \in arrived
  BY <1>2
<1>4. "cluster" \in arrived
  BY <1>2
<1> QED
  BY <1>3, <1>4

LEMMA LockStep ==
    ASSUME IInv, [Next]_vars
    PROVE  Locked' /\ Carrying'
<1> USE PipelineAssumption DEF IInv, TypeOK, Locked, Carrying
<1>1. CASE UNCHANGED vars \/ Environment \/ Lists \/ StartUp
  <2>1. UNCHANGED tasks
    BY <1>1 DEF vars, Environment, Label, Touch, CreateCluster, Edit, Lists, ListNamespaces,
                ListClusters, StartUp, ClusterStarts, ClassStarts
  <2> QED
    BY <2>1 DEF tasks
<1>2. ASSUME NEW t \in Tasks, Acquire(t) PROVE Locked' /\ Carrying'
  BY <1>2 DEF Acquire, Tasks
<1>3. CASE Clear
  BY <1>3 DEF Clear, Tasks
<1>4. CASE PushBoth
  BY <1>4 DEF PushBoth, Finish, Tasks
<1>5. ASSUME NEW n \in Namespaces, PushWatch(n) PROVE Locked' /\ Carrying'
  BY <1>5 DEF PushWatch, Finish, Tasks
<1>6. CASE PollNamespaces
  BY <1>6 DEF PollNamespaces, FirstTaskStep, Tasks
<1>7. CASE PollConfig
  BY <1>7 DEF PollConfig, FirstTaskStep, Tasks, Selectors
<1>8. ASSUME MainTask, ~PollNamespaces, ~PollConfig PROVE Locked' /\ Carrying'
  <2>1. UNCHANGED tasks
    BY <1>8 DEF MainTask, Pass, Contended, TakeNamespace, TakeCluster, Arm, Send, Wait,
                PollClusters
  <2> QED
    BY <2>1 DEF tasks
<1> QED
  BY <1>1, <1>2, <1>3, <1>4, <1>5, <1>6, <1>7, <1>8
  DEF Next, WatchesTask, NamespaceTask, Tasks

LEMMA FilledStep ==
    ASSUME IInv, [Next]_vars
    PROVE  Filled'
<1> USE PipelineAssumption DEF IInv, TypeOK, Filled, setup, stream, tasks
<1>1. ASSUME UNCHANGED vars \/ Environment \/ Lists \/ StartUp PROVE Filled'
  <2>1. nsWatch'.state = "none" => nsWatch.state = "none"
    <3>1. ASSUME NEW n \in Namespaces, NEW type, Tell(type, n)
          PROVE  nsWatch'.state = nsWatch.state
      BY <3>1 DEF Tell
    <3>2. ASSUME NEW n \in Namespaces, Label(n) \/ Touch(n)
          PROVE  nsWatch'.state = nsWatch.state
      BY <3>1, <3>2 DEF Label, Touch
    <3>3. CASE ListNamespaces
      BY <3>3 DEF ListNamespaces
    <3>4. ASSUME UNCHANGED vars \/ StartUp \/ (\E n \in Namespaces : CreateCluster(n))
                 \/ (\E n \in Selectors : Edit(n)) \/ (\E n \in Namespaces : ListClusters(n))
          PROVE  UNCHANGED nsWatch
      BY <3>4 DEF vars, CreateCluster, Edit, ListClusters, StartUp, ClusterStarts, ClassStarts
    <3> QED
      BY <1>1, <3>2, <3>3, <3>4 DEF Environment, Lists
  <2>2. UNCHANGED task /\ ("config" \in arrived' => "config" \in arrived)
    BY <1>1 DEF vars, Environment, Label, Touch, CreateCluster, Edit, Lists,
                ListNamespaces, ListClusters, StartUp, ClusterStarts, ClassStarts
  <2> QED
    BY <2>1, <2>2
<1>2. ASSUME NEW t \in Tasks, Acquire(t) PROVE Filled'
  BY <1>2 DEF Acquire, Tasks
<1>3. CASE Clear
  BY <1>3 DEF Clear, Tasks
<1>4. CASE PushBoth
  BY <1>4 DEF PushBoth, NoWatch
<1>5. ASSUME NEW n \in Namespaces, PushWatch(n) PROVE Filled'
  BY <1>5 DEF PushWatch, Finish, Tasks
<1>6. ASSUME MainTask PROVE Filled'
  <2>1. nsWatch'.state = "none" => nsWatch.state = "none"
    <3>1. CASE TakeNamespace
      BY <3>1 DEF TakeNamespace
    <3>2. CASE Arm
      BY <3>2 DEF Arm
    <3>3. ASSUME ~TakeNamespace, ~Arm PROVE UNCHANGED nsWatch
      BY <1>6, <3>3 DEF MainTask, Pass, Contended, TakeCluster, Send, Wait,
                        PollNamespaces, PollClusters, PollConfig
    <3> QED
      BY <3>1, <3>2, <3>3
  <2>2. UNCHANGED arrived
    BY <1>6 DEF MainTask, Pass, Contended, TakeNamespace, TakeCluster, Arm, Send, Wait,
                PollNamespaces, PollClusters, PollConfig
  <2>3. task["watches"] = "push" => task'["watches"] = "push"
    BY <1>6 DEF MainTask, Pass, Contended, TakeNamespace, TakeCluster, Arm, Send, Wait,
                PollNamespaces, PollClusters, PollConfig, FirstTaskStep, Tasks
  <2> QED
    BY <2>1, <2>2, <2>3
<1> QED
  BY <1>1, <1>2, <1>3, <1>4, <1>5, <1>6 DEF Next, WatchesTask, NamespaceTask, Tasks

LEMMA StartedStep ==
    ASSUME IInv, [Next]_vars
    PROVE  Started'
<1> USE DEF IInv, Started, setup, stream
<1>1. CASE UNCHANGED vars \/ Environment \/ Lists
  <2>1. UNCHANGED <<todo, sending, arrived, subscribed>>
    BY <1>1 DEF vars, Environment, Label, Touch, CreateCluster, Edit, Lists,
                ListNamespaces, ListClusters
  <2> QED
    BY <2>1
<1>2. CASE StartUp
  BY <1>2 DEF StartUp, ClusterStarts, ClassStarts
<1>3. CASE WatchesTask \/ (\E n \in Namespaces : NamespaceTask(n))
  <2>1. UNCHANGED <<todo, sending, subscribed>>
    BY <1>3 DEF WatchesTask, NamespaceTask, Acquire, Clear, PushBoth, PushWatch
  <2>2. arrived' \in {arrived, arrived \cup {"config"}}
    BY <1>3 DEF WatchesTask, NamespaceTask, Acquire, Clear, PushBoth, PushWatch
  <2> QED
    BY <2>1, <2>2
<1>4. CASE Pass
  <2>1. {"config", "cluster"} \subseteq arrived
    BY <1>4, AllArrived DEF Pass, TypeOK
  <2> QED
    BY <1>4, <2>1 DEF Pass
<1>5. ASSUME MainTask, ~Pass PROVE Started'
  <2>1. todo # <<>>
    BY <1>5 DEF MainTask, Contended, TakeNamespace, TakeCluster, Arm, Send, Wait,
                PollNamespaces, PollClusters, PollConfig, Polls, ReadAll, Polled, Polling
  <2>2. UNCHANGED <<arrived, subscribed>>
    BY <1>5 DEF MainTask, Contended, TakeNamespace, TakeCluster, Arm, Send, Wait,
                PollNamespaces, PollClusters, PollConfig
  <2> QED
    BY <2>1, <2>2
<1> QED
  BY <1>1, <1>2, <1>3, <1>4, <1>5 DEF Next

(* Between clear() and push() the lock keeps the broadcaster out. *)
LEMMA EndsStep ==
    ASSUME IInv, [Next]_vars
    PROVE  NeverEnds'
<1>1. ASSUME Arm PROVE UNCHANGED panicked
  <2> SUFFICES ASSUME Unwatched PROVE FALSE
    BY <1>1 DEF Arm, IInv, TypeOK
  <2>1. "config" \in arrived
    BY <1>1 DEF Arm, Polls, Polling, IInv, Started
  <2>2. task["watches"] = "push"
    BY <2>1 DEF Unwatched, NoWatch, IInv, Filled
  <2>3. lock = "watches"
    BY <2>2 DEF IInv, Locked, Tasks
  <2> QED
    BY <1>1, <2>3, PipelineAssumption DEF Arm
<1>2. UNCHANGED panicked
  BY <1>1 DEF Next, vars, Environment, Label, Touch, CreateCluster, Edit, Lists,
              ListNamespaces, ListClusters, StartUp, ClusterStarts, ClassStarts,
              WatchesTask, NamespaceTask, Acquire, Clear, PushBoth, PushWatch,
              MainTask, Pass, Contended, TakeNamespace, TakeCluster, Send, Wait,
              PollNamespaces, PollClusters, PollConfig
<1> QED
  BY <1>2 DEF IInv, NeverEnds

LEMMA StepInv == IInv /\ [Next]_vars => IInv'
  BY StepType, LockStep, FilledStep, StartedStep, EndsStep DEF IInv

LEMMA Invariant == Spec => []IInv
  BY InitInv, StepInv, PTL DEF Spec

--------------------------------------------------------------------------------
(***************************************************************************)
(* Every reachable state is well typed, and no receiver holds more than    *)
(* the buffer has room for (MultiDispatcher::new).                         *)
(***************************************************************************)
THEOREM PipelineTypeCorrect == Spec => []TypeOK
<1>1. IInv => TypeOK
  BY DEF IInv
<1> QED
  BY <1>1, Invariant, PTL

(***************************************************************************)
(* The broadcaster never finds the stream empty, so the process does not   *)
(* panic, however the selector changes and the reconciles interleave.      *)
(***************************************************************************)
THEOREM BroadcasterNeverEnds == Spec => []NeverEnds
<1>1. IInv => NeverEnds
  BY DEF IInv
<1> QED
  BY <1>1, Invariant, PTL

(***************************************************************************)
(* No event is broadcast before both controllers of the Clusters listen.   *)
(***************************************************************************)
THEOREM NoEventUnheard == Spec => []NoneUnheard
<1>1. IInv => NoneUnheard
  BY DEF IInv, Started, NoneUnheard
<1> QED
  BY <1>1, Invariant, PTL

--------------------------------------------------------------------------------
(* No wake-up is lost: whoever has something to do is polled in this pass, or *)
(* there is another pass, or a reconcile that runs, or a receiver with events *)
(* to read, will see to it.                                                   *)
Scheduled(f) == woken \/ \E i \in DOMAIN todo : todo[i] = f

Running == \E t \in Tasks : task[t] # "none"

Unpolled == nsWatch.state = "fresh" \/ \E n \in Namespaces : watches[n].fresh # 0

Held == Holds \/ Unpolled => Scheduled("broadcast") \/ Running \/ sending # None

Unsent == sending # None => Scheduled("broadcast") \/ Full(queue)

Unread == \A s \in Subscribers : queue[s] # <<>> => Scheduled(s)

ConfigWaits == configDue => Scheduled("config") \/ task["watches"] # "none"

NamespaceWaits == \A n \in nsDue : Scheduled("namespaces") \/ task[n] # "none"

Awake == Held /\ Unsent /\ Unread /\ ConfigWaits /\ NamespaceWaits

(* A future stays scheduled while others are polled. *)
LEMMA StaysScheduled ==
    ASSUME TypeOK, NEW f, NEW g, f # g, Polled(g), woken => woken', Scheduled(f)
    PROVE  Scheduled(f)'
<1>1. CASE woken
  BY <1>1 DEF Scheduled
<1>2. ASSUME NEW i \in DOMAIN todo, todo[i] = f PROVE Scheduled(f)'
  <2>1. todo \in Seq(Futures) /\ todo # <<>> /\ todo' = Tail(todo) /\ todo[1] = g
    BY DEF TypeOK, Polled, Polling
  <2>2. i \in 2 .. Len(todo)
    BY <1>2, <2>1
  <2>3. i - 1 \in DOMAIN todo' /\ todo'[i - 1] = todo[i]
    BY <2>1, <2>2
  <2> QED
    BY <1>2, <2>3 DEF Scheduled
<1> QED
  BY <1>1, <1>2 DEF Scheduled

(* A pass polls every future. *)
LEMMA PassSchedules ==
    ASSUME Pass, NEW f \in Futures
    PROVE  Scheduled(f)'
<1>1. PICK watching \in {<<"broadcast", "config">>, <<"config", "broadcast">>},
           reading \in {<<"clusters", "namespaces">>, <<"namespaces", "clusters">>} :
        todo' \in {watching \o reading, reading \o watching}
  BY DEF Pass
<1>2. /\ {<<"broadcast", "config">>, <<"config", "broadcast">>} \subseteq Seq(Futures)
      /\ {<<"clusters", "namespaces">>, <<"namespaces", "clusters">>} \subseteq Seq(Futures)
  BY DEF Futures, Subscribers
<1>3. \A x, y : /\ 1 \in DOMAIN <<x, y>> /\ <<x, y>>[1] = x
                /\ 2 \in DOMAIN <<x, y>> /\ <<x, y>>[2] = y
  OBVIOUS
<1>4. (\E i \in DOMAIN watching : watching[i] = f) \/ (\E i \in DOMAIN reading : reading[i] = f)
  <2>1. CASE f \in {"broadcast", "config"}
    BY <1>3, <2>1
  <2>2. CASE f \in {"clusters", "namespaces"}
    BY <1>3, <2>2
  <2> QED
    BY <2>1, <2>2 DEF Futures, Subscribers
<1>5. watching \in Seq(Futures) /\ reading \in Seq(Futures)
  BY <1>2
<1>6. PICK p, q \in Seq(Futures) :
        /\ todo' = p \o q
        /\ (\E i \in DOMAIN p : p[i] = f) \/ (\E i \in DOMAIN q : q[i] = f)
  <2> HIDE DEF Pass
  <2>1. CASE todo' = watching \o reading
    BY <1>4, <1>5, <2>1
  <2>2. CASE todo' = reading \o watching
    BY <1>4, <1>5, <2>2
  <2> QED
    BY <1>1, <2>1, <2>2
<1>7. todo' \in Seq(Futures) /\ Len(todo') = Len(p) + Len(q)
  BY <1>6
<1>8. ASSUME NEW i \in DOMAIN p, p[i] = f
      PROVE  i \in DOMAIN todo' /\ todo'[i] = f
  BY <1>6, <1>7, <1>8
<1>9. ASSUME NEW i \in DOMAIN q, q[i] = f
      PROVE  Len(p) + i \in DOMAIN todo' /\ todo'[Len(p) + i] = f
  BY <1>6, <1>7, <1>9
<1> QED
  BY <1>6, <1>8, <1>9 DEF Scheduled

LEMMA InitAwake == Init => Awake
<1> SUFFICES ASSUME Init PROVE Awake
  OBVIOUS
<1>1. ~Holds /\ ~Unpolled /\ sending = None
  BY DEF Init, Holds, Unpolled, NoWatch, NoWatches
<1>2. \A s \in Subscribers : queue[s] = <<>>
  BY DEF Init
<1>3. task["watches"] # "none"
  BY DEF Init, Tasks
<1> QED
  BY <1>1, <1>2, <1>3 DEF Init, Awake, Held, Unsent, Unread, ConfigWaits, NamespaceWaits

(* Whatever happens while the main task is woken leaves it awake. *)
LEMMA WokenIsAwake ==
    ASSUME woken'
    PROVE  Awake'
  BY DEF Awake, Held, Unsent, Unread, ConfigWaits, NamespaceWaits, Scheduled

LEMMA AwakeEnvironment ==
    ASSUME Awake, ~woken', UNCHANGED vars \/ Environment \/ Lists \/ StartUp
    PROVE  Awake'
<1>1. UNCHANGED <<nsWatch, watches, ready, task, todo, woken, sending, queue, configDue, nsDue,
                  subscribed>>
  BY DEF vars, Environment, Label, Tell, Touch, CreateCluster, Edit, Lists, ListNamespaces,
         ListClusters, StartUp, ClusterStarts, ClassStarts, surroundings, setup, stream,
         tasks, controllers
<1> QED
  BY <1>1 DEF Awake, Held, Unsent, Unread, ConfigWaits, NamespaceWaits, Scheduled, Running,
              Unpolled, Holds, Full

(* A reconcile wakes the main task when it ends, and runs until then. *)
LEMMA AwakeTasks ==
    ASSUME IInv, Awake, ~woken', WatchesTask \/ (\E n \in Namespaces : NamespaceTask(n))
    PROVE  Awake'
<1>1. /\ ~PushBoth
      /\ \A n \in Namespaces : ~PushWatch(n)
  BY DEF PushBoth, PushWatch, Finish, WokenByTask
<1>2. PICK t \in Tasks : Acquire(t) \/ (t = "watches" /\ Clear)
  BY <1>1 DEF WatchesTask, NamespaceTask, Tasks
<1>3. task \in [Tasks -> {"none", "lock", "clear", "push"}]
  BY DEF IInv, TypeOK
<1>4. task' \in [Tasks -> {"none", "lock", "clear", "push"}] /\ task'[t] # "none"
  BY <1>2, <1>3 DEF Acquire, Clear
<1>5. \A u \in Tasks : task[u] # "none" => task'[u] # "none"
  BY <1>2, <1>3, <1>4 DEF Acquire, Clear
<1>6. UNCHANGED <<todo, woken, sending, queue, configDue, nsDue, subscribed>>
  BY <1>2 DEF Acquire, Clear, setup, controllers
<1>7. Running'
  BY <1>4 DEF Running
<1>8. nsDue \subseteq Tasks /\ "watches" \in Tasks
  BY DEF IInv, TypeOK, Tasks
<1> QED
  BY <1>5, <1>6, <1>7, <1>8
  DEF Awake, Held, Unsent, Unread, ConfigWaits, NamespaceWaits, Scheduled, Full

(* The broadcaster is the future that is polled. *)
LEMMA AwakeBroadcaster ==
    ASSUME IInv, Awake, ~woken',
           \/ Contended \/ TakeNamespace \/ Arm \/ Send \/ Wait
           \/ \E n \in Namespaces : TakeCluster(n)
    PROVE  Awake'
<1> USE PipelineAssumption
<1>1. ~Send
  BY DEF Send
<1>2. UNCHANGED <<task, woken, queue, configDue, nsDue, subscribed>>
  BY <1>1 DEF Contended, TakeNamespace, Arm, Wait, TakeCluster, setup, tasks, controllers
<1>3. ~woken /\ Polling("broadcast") /\ (UNCHANGED todo \/ Polled("broadcast"))
  BY <1>1, <1>2 DEF Contended, TakeNamespace, Arm, Wait, TakeCluster, Polls
<1>4. \A f : f # "broadcast" /\ Scheduled(f) => Scheduled(f)'
  <2>1. CASE UNCHANGED todo
    BY <1>2, <2>1 DEF Scheduled
  <2>2. CASE Polled("broadcast")
    BY <1>2, <2>2, StaysScheduled DEF IInv
  <2> QED
    BY <1>3, <2>1, <2>2
<1>5. Unread' /\ ConfigWaits' /\ NamespaceWaits'
  BY <1>2, <1>4 DEF Awake, Unread, ConfigWaits, NamespaceWaits, Subscribers
<1>6. CASE Contended
  <2>1. Running'
    BY <1>2, <1>6 DEF Contended, IInv, TypeOK, Locked, Running
  <2>2. sending' = None
    BY <1>6 DEF Contended, Polls
  <2> QED
    BY <1>5, <2>1, <2>2 DEF Awake, Held, Unsent
<1>7. ASSUME TakeNamespace \/ \E n \in Namespaces : TakeCluster(n) PROVE Awake'
  <2>1. UNCHANGED todo
    BY <1>7 DEF TakeNamespace, TakeCluster
  <2>2. Scheduled("broadcast")'
    BY <1>3, <2>1 DEF Polling, Scheduled, IInv, TypeOK
  <2> QED
    BY <1>5, <2>2 DEF Awake, Held, Unsent
<1>8. CASE Arm
  <2>1. sending' = None
    BY <1>8 DEF Arm, Polls
  <2>2. ~Holds'
    BY <1>8 DEF Arm, Holds, IInv, TypeOK
  <2>3. ~Unpolled'
    BY <1>8 DEF Arm, Unpolled, IInv, TypeOK
  <2> QED
    BY <1>5, <2>1, <2>2, <2>3 DEF Awake, Held, Unsent
<1>9. CASE Wait
  BY <1>2, <1>5, <1>9 DEF Wait, Awake, Held, Unsent, Full
<1> QED
  BY <1>1, <1>6, <1>7, <1>8, <1>9

(* A controller reads all its receiver holds: then there is room, or the other *)
(* receiver is still to be read.                                              *)
LEMMA AwakeReceiver ==
    ASSUME IInv, Awake, ~woken', NEW s \in Subscribers, ReadAll(s),
           UNCHANGED <<nsWatch, watches, ready, sending, subscribed>>,
           \A t \in Tasks : task[t] # "none" => task'[t] # "none"
    PROVE  Held' /\ Unsent' /\ Unread'
<1>1. Polled(s) /\ ~woken /\ ~WokenByRoom(queue')
  BY DEF ReadAll
<1>2. \A f : f # s /\ Scheduled(f) => Scheduled(f)'
  BY <1>1, StaysScheduled DEF IInv
<1>3. Held'
  BY <1>2 DEF Awake, Held, Holds, Unpolled, Running, Subscribers
<1>4. Unsent'
  BY <1>1 DEF Unsent, WokenByRoom, Full
<1>5. queue' = [queue EXCEPT ![s] = <<>>] /\ queue \in [Subscribers -> Seq(Event)]
  BY DEF ReadAll, IInv, TypeOK
<1>6. Unread'
  BY <1>2, <1>5 DEF Awake, Unread
<1> QED
  BY <1>3, <1>4, <1>6

LEMMA AwakeControllers ==
    ASSUME IInv, Awake, ~woken', PollNamespaces \/ PollClusters \/ PollConfig
    PROVE  Awake'
<1> USE DEF setup, stream, tasks, controllers
<1>1. CASE PollNamespaces
  <2>1. ReadAll("namespaces") /\ "namespaces" \in Subscribers
    BY <1>1 DEF PollNamespaces, Subscribers
  <2>2. \A t \in Tasks : task[t] # "none" => task'[t] # "none"
    BY <1>1 DEF PollNamespaces
  <2>3. Held' /\ Unsent' /\ Unread'
    BY <1>1, <2>1, <2>2, AwakeReceiver DEF PollNamespaces
  <2>4. ConfigWaits'
    <3>1. Scheduled("config") => Scheduled("config")'
      BY <2>1, StaysScheduled DEF ReadAll, IInv
    <3> QED
      BY <1>1, <2>2, <3>1 DEF PollNamespaces, Awake, ConfigWaits, Tasks
  <2>5. \A n \in nsDue' : n \in Tasks /\ task[n] # "none"
    BY <1>1 DEF PollNamespaces, Tasks
  <2>6. NamespaceWaits'
    BY <2>2, <2>5 DEF NamespaceWaits
  <2> QED
    BY <2>3, <2>4, <2>6 DEF Awake
<1>2. CASE PollClusters
  <2>1. ReadAll("clusters") /\ "clusters" \in Subscribers
    BY <1>2 DEF PollClusters, Subscribers
  <2>2. UNCHANGED <<task, configDue, nsDue>>
    BY <1>2 DEF PollClusters
  <2>3. Held' /\ Unsent' /\ Unread'
    BY <1>2, <2>1, <2>2, AwakeReceiver DEF PollClusters
  <2>4. \A f : f # "clusters" /\ Scheduled(f) => Scheduled(f)'
    BY <2>1, StaysScheduled DEF ReadAll, IInv
  <2> QED
    BY <2>2, <2>3, <2>4 DEF Awake, ConfigWaits, NamespaceWaits
<1>3. CASE PollConfig
  <2>1. Polled("config") /\ UNCHANGED <<woken, nsWatch, watches, ready, sending, queue,
                                        subscribed, nsDue>>
    BY <1>3 DEF PollConfig
  <2>2. \A f : f # "config" /\ Scheduled(f) => Scheduled(f)'
    BY <2>1, StaysScheduled DEF IInv
  <2>3. \A t \in Tasks : task[t] # "none" => task'[t] # "none"
    BY <1>3 DEF PollConfig, FirstTaskStep, IInv, TypeOK
  <2>4. Held' /\ Unsent' /\ Unread'
    BY <2>1, <2>2, <2>3 DEF Awake, Held, Unsent, Unread, Holds, Unpolled, Running, Full,
                            Subscribers
  <2>5. ConfigWaits'
    BY <1>3 DEF PollConfig, ConfigWaits, FirstTaskStep, IInv, TypeOK, Tasks
  <2>6. NamespaceWaits'
    BY <2>1, <2>2, <2>3 DEF Awake, NamespaceWaits, IInv, TypeOK, Tasks
  <2> QED
    BY <2>4, <2>5, <2>6 DEF Awake
<1> QED
  BY <1>1, <1>2, <1>3

LEMMA StepAwake == IInv /\ IInv' /\ Awake /\ [Next]_vars => Awake'
<1> SUFFICES ASSUME IInv, IInv', Awake, [Next]_vars, ~woken' PROVE Awake'
  BY WokenIsAwake
<1>1. CASE UNCHANGED vars \/ Environment \/ Lists \/ StartUp
  BY <1>1, AwakeEnvironment
<1>2. CASE WatchesTask \/ (\E n \in Namespaces : NamespaceTask(n))
  BY <1>2, AwakeTasks
<1>3. CASE Pass
  <2>1. \A f \in Futures : Scheduled(f)'
    BY <1>3, PassSchedules
  <2> QED
    BY <2>1 DEF Awake, Held, Unsent, Unread, ConfigWaits, NamespaceWaits, Futures, Subscribers
<1>4. CASE \/ Contended \/ TakeNamespace \/ Arm \/ Send \/ Wait
           \/ \E n \in Namespaces : TakeCluster(n)
  BY <1>4, AwakeBroadcaster
<1>5. CASE PollNamespaces \/ PollClusters \/ PollConfig
  BY <1>5, AwakeControllers
<1> QED
  BY <1>1, <1>2, <1>3, <1>4, <1>5 DEF Next, MainTask

(***************************************************************************)
(* While the main task sleeps and no reconcile runs, nothing is left to do *)
(* anywhere: no interleaving of pushes, polls and full buffers loses a     *)
(* wake-up.                                                                *)
(***************************************************************************)
THEOREM NothingIsForgotten == Spec => []NothingForgotten
<1>1. IInv /\ Awake => NothingForgotten
  <2> SUFFICES ASSUME IInv, Awake, Asleep PROVE NothingForgotten
    BY DEF NothingForgotten
  <2>1. \A f : ~Scheduled(f)
    BY DEF Asleep, Scheduled
  <2>2. ~Running /\ task["watches"] = "none" /\ \A n \in Namespaces : task[n] = "none"
    BY DEF Asleep, Running, Tasks
  <2>3. \A s \in Subscribers : queue[s] = <<>>
    BY <2>1 DEF Awake, Unread
  <2>4. sending = None
    <3>1. \A s \in subscribed : Len(queue[s]) = 0
      BY <2>3 DEF IInv, TypeOK
    <3>2. ~Full(queue)
      BY <3>1, PipelineAssumption DEF Full
    <3> QED
      BY <2>1, <3>2 DEF Awake, Unsent
  <2>5. ~Holds /\ ~Unpolled
    BY <2>1, <2>2, <2>4 DEF Awake, Held
  <2>6. ~configDue /\ nsDue = {}
    BY <2>1, <2>2 DEF Awake, ConfigWaits, NamespaceWaits, IInv, TypeOK
  <2> QED
    BY <2>3, <2>4, <2>5, <2>6 DEF NothingForgotten, Unpolled
<1>2. Spec => []Awake
  BY InitInv, InitAwake, StepInv, StepAwake, Invariant, PTL DEF Spec
<1> QED
  BY <1>1, <1>2, Invariant, PTL
--------------------------------------------------------------------------------
(***************************************************************************)
(* A Cluster that no watch is about to tell of is not left behind.  The    *)
(* argument follows a namespace from the live watch over namespaces, whose *)
(* last word on it is somewhere between the watch and the controller's     *)
(* store, to the reconcile that pushes a watch over its Clusters, and a    *)
(* Cluster from that watch to the Cluster controller.  A clear() cuts the  *)
(* chain at its head only: the watch that replaces it lists anew.          *)
(***************************************************************************)

(* The event that is neither in the stream nor in the buffer. *)
Sent == IF sending = None THEN <<>> ELSE <<sending>>

(* The last event about the namespace, wherever it is, selects it. *)
Passes(n) ==
    \/ Selects(nsWatch.pending, n)
    \/ /\ Silent(nsWatch.pending, "Namespace", n)
       /\ Selects(Sent, n)
    \/ /\ Silent(nsWatch.pending, "Namespace", n)
       /\ Silent(Sent, "Namespace", n)
       /\ Selects(queue["namespaces"], n)

Silence(n) ==
    /\ Silent(nsWatch.pending, "Namespace", n)
    /\ Silent(Sent, "Namespace", n)
    /\ Silent(queue["namespaces"], "Namespace", n)

Watched(n) == watches[n].fresh > 0 \/ watches[n].listing > 0 \/ watches[n].live > 0

(* The controller has seen to the namespace, or will. *)
Kept(n) == n \in nsStore /\ (n \in nsDue \/ task[n] # "none" \/ Watched(n))

Followed(n) ==
    nsWatch.state = "live" /\ n \in Matches(nsWatch.selector, labelled) =>
        Passes(n) \/ (Silence(n) /\ Kept(n))

(* The Cluster of a live watch is known, or an event tells of it. *)
Told(n) ==
    n \in exists /\ watches[n].live > 0 =>
        \/ n \in ready \cup heard
        \/ ~Silent(Sent, "Cluster", n)
        \/ ~Silent(queue["clusters"], "Cluster", n)

(* The watch over namespaces is the one the FleetAddonConfig asks for. *)
Sought ==
    configDue \/ IF task["watches"] = "none"
                 THEN nsWatch.state # "none" /\ nsWatch.selector = selector
                 ELSE asked = selector

Chain == Sought /\ \A n \in Namespaces : Followed(n) /\ Told(n)

(* Sequences of events. *)
LEMMA EmptyIsSilent == \A kind, n : Silent(<<>>, kind, n) /\ ~Selects(<<>>, n)
  BY DEF Silent, Selects

LEMMA SelectsIsHeard ==
    ASSUME NEW events, NEW n, Selects(events, n)
    PROVE  ~Silent(events, "Namespace", n)
  BY DEF Silent, Selects

LEMMA OneEvent ==
    ASSUME NEW e, NEW n, NEW kind
    PROVE  /\ Silent(<<e>>, kind, n) <=> ~Concerns(e, kind, n)
           /\ Selects(<<e>>, n) <=> Concerns(e, "Namespace", n) /\ e.type = "Apply"
<1>1. DOMAIN <<e>> = {1} /\ <<e>>[1] = e
  OBVIOUS
<1> QED
  BY <1>1 DEF Silent, Selects

LEMMA AppendedEvent ==
    ASSUME NEW S, NEW events \in Seq(S), NEW e \in S, NEW n, NEW kind
    PROVE  /\ Silent(Append(events, e), kind, n) <=>
                Silent(events, kind, n) /\ ~Concerns(e, kind, n)
           /\ Concerns(e, "Namespace", n) /\ e.type = "Apply" =>
                Selects(Append(events, e), n)
           /\ ~Concerns(e, "Namespace", n) /\ Selects(events, n) =>
                Selects(Append(events, e), n)
<1> DEFINE longer == Append(events, e)
           last == Len(events) + 1
<1>1. /\ Len(events) \in Nat /\ DOMAIN events = 1 .. Len(events)
      /\ DOMAIN longer = 1 .. last
      /\ longer[last] = e
      /\ \A i \in DOMAIN events : longer[i] = events[i]
  OBVIOUS
<1>2. DOMAIN longer = DOMAIN events \cup {last}
  BY <1>1
<1>3. \A i \in DOMAIN longer : ~(i > last)
  BY <1>1
<1> HIDE DEF longer, last
<1>4. Silent(longer, kind, n) <=> Silent(events, kind, n) /\ ~Concerns(e, kind, n)
  BY <1>1, <1>2 DEF Silent
<1>5. ASSUME Concerns(e, "Namespace", n), e.type = "Apply" PROVE Selects(longer, n)
  BY <1>1, <1>2, <1>3, <1>5 DEF Selects
<1>6. ASSUME ~Concerns(e, "Namespace", n), Selects(events, n) PROVE Selects(longer, n)
  BY <1>1, <1>2, <1>6 DEF Selects
<1> QED
  BY <1>4, <1>5, <1>6 DEF longer

LEMMA TakenEvent ==
    ASSUME NEW S, NEW events \in Seq(S), events # <<>>, NEW n
    PROVE  /\ Silent(events, "Namespace", n) =>
                /\ Silent(Tail(events), "Namespace", n)
                /\ Silent(<<Head(events)>>, "Namespace", n)
           /\ Selects(events, n) =>
                \/ Selects(Tail(events), n)
                \/ /\ Silent(Tail(events), "Namespace", n)
                   /\ Selects(<<Head(events)>>, n)
<1> DEFINE rest == Tail(events)
<1>1. /\ Len(events) \in Nat /\ Len(events) >= 1
      /\ DOMAIN events = 1 .. Len(events)
      /\ DOMAIN rest = 1 .. Len(events) - 1
      /\ \A i \in DOMAIN rest : rest[i] = events[i + 1]
      /\ Head(events) = events[1]
  OBVIOUS
<1> HIDE DEF rest
<1>2. ASSUME Silent(events, "Namespace", n)
      PROVE  Silent(rest, "Namespace", n) /\ ~Concerns(Head(events), "Namespace", n)
  BY <1>1, <1>2 DEF Silent
<1>3. ASSUME Selects(events, n)
      PROVE  \/ Selects(rest, n)
             \/ /\ Silent(rest, "Namespace", n)
                /\ Concerns(Head(events), "Namespace", n) /\ Head(events).type = "Apply"
  <2>1. PICK i \in DOMAIN events :
          /\ Concerns(events[i], "Namespace", n) /\ events[i].type = "Apply"
          /\ \A j \in DOMAIN events : j > i => ~Concerns(events[j], "Namespace", n)
    BY <1>3 DEF Selects
  <2>2. CASE i = 1
    <3>1. \A j \in DOMAIN rest : j + 1 \in DOMAIN events /\ j + 1 > i
      BY <1>1, <2>2
    <3> QED
      BY <1>1, <2>1, <2>2, <3>1 DEF Silent
  <2>3. CASE i # 1
    <3>1. i - 1 \in DOMAIN rest /\ rest[i - 1] = events[i]
      BY <1>1, <2>3
    <3>2. \A j \in DOMAIN rest : j > i - 1 => j + 1 \in DOMAIN events /\ j + 1 > i
      BY <1>1
    <3> QED
      BY <1>1, <2>1, <3>1, <3>2 DEF Selects
  <2> QED
    BY <2>2, <2>3
<1> QED
  BY <1>2, <1>3, OneEvent DEF rest

(* A list of the selected namespaces selects each of them. *)
LEMMA ListSelects ==
    ASSUME NEW N \in SUBSET Namespaces, NEW n \in N,
           NEW list \in SetToSeqs([kind : {"Namespace"}, type : {"Apply"}, ns : N])
    PROVE  Selects(list, n)
<1> DEFINE S == [kind : {"Namespace"}, type : {"Apply"}, ns : N]
           D == 1 .. Cardinality(S)
<1>1. IsFiniteSet(S) /\ Cardinality(S) \in Nat
  BY AppliesFinite, FS_CardinalityType
<1>2. list \in [D -> S] /\ \A i, j \in D : i # j => list[i] # list[j]
  BY DEF SetToSeqs
<1>3. list \in Injection(D, S)
  BY <1>2 DEF Injection, IsInjective
<1>4. Cardinality(D) = Cardinality(S)
  BY <1>1, FS_Interval
<1> HIDE DEF D
<1>5. list \in Surjection(D, S)
  BY <1>1, <1>3, <1>4, FS_Injection
<1>6. [kind |-> "Namespace", type |-> "Apply", ns |-> n] \in S
  OBVIOUS
<1>7. PICK i \in D : list[i] = [kind |-> "Namespace", type |-> "Apply", ns |-> n]
  BY <1>5, <1>6 DEF Surjection
<1>8. DOMAIN list = D
  BY <1>2
<1>9. ASSUME NEW j \in D, j > i PROVE ~Concerns(list[j], "Namespace", n)
  <2>1. j # i
    <3>1. D \subseteq Nat
      BY <1>1 DEF D
    <3> QED
      BY <1>9, <3>1
  <2>2. list[j] \in S /\ list[j] # list[i]
    BY <1>2, <2>1
  <2> QED
    BY <1>7, <2>2 DEF Concerns
<1> QED
  BY <1>7, <1>8, <1>9 DEF Selects, Concerns

(* A step that touches no part of what is known about the namespace. *)
LEMMA FollowedKept ==
    ASSUME NEW n \in Namespaces, Followed(n),
           nsWatch'.state = "live" => nsWatch.state = "live",
           nsWatch'.selector = nsWatch.selector, nsWatch'.pending = nsWatch.pending,
           queue'["namespaces"] = queue["namespaces"],
           UNCHANGED <<labelled, sending, nsStore, nsDue>>,
           task[n] # "none" => task'[n] # "none" \/ Watched(n)',
           Watched(n) => Watched(n)'
    PROVE  Followed(n)'
<1>1. Passes(n)' <=> Passes(n)
  BY DEF Passes, Sent
<1>2. Silence(n)' <=> Silence(n)
  BY DEF Silence, Sent
<1>3. Kept(n) => Kept(n)'
  BY DEF Kept
<1>4. Matches(nsWatch.selector, labelled)' = Matches(nsWatch.selector, labelled)
  BY DEF Matches
<1> QED
  BY <1>1, <1>2, <1>3, <1>4 DEF Followed

LEMMA ToldKept ==
    ASSUME NEW n \in Namespaces, Told(n),
           n \in exists' /\ watches'[n].live > 0 => n \in exists /\ watches[n].live > 0,
           queue'["clusters"] = queue["clusters"],
           UNCHANGED sending, ready \subseteq ready', heard \subseteq heard'
    PROVE  Told(n)'
  BY DEF Told, Sent

(* The live watch is told of what changes in a namespace. *)
LEMMA FollowedTell ==
    ASSUME IInv, NEW n \in Namespaces, NEW m \in Namespaces, Followed(n),
           nsWatch.state = "live", NEW type \in {"Apply", "Delete"}, Tell(type, m),
           n \in Matches(nsWatch.selector, labelled') /\ n # m =>
               n \in Matches(nsWatch.selector, labelled),
           m \in Matches(nsWatch.selector, labelled') => type = "Apply",
           UNCHANGED <<sending, queue, nsStore, nsDue, task, watches>>
    PROVE  Followed(n)'
<1> DEFINE e == [kind |-> "Namespace", type |-> type, ns |-> m]
<1>1. nsWatch.pending \in Seq(NamespaceEvent) /\ e \in NamespaceEvent
  BY DEF IInv, TypeOK, NamespaceEvent
<1>2. nsWatch' = [nsWatch EXCEPT !.pending = Append(@, e)]
  BY DEF Tell
<1>3. /\ nsWatch'.pending = Append(nsWatch.pending, e)
      /\ nsWatch'.selector = nsWatch.selector
  BY <1>2 DEF IInv, TypeOK
<1>4. Concerns(e, "Namespace", n) <=> n = m
  BY DEF Concerns
<1> SUFFICES ASSUME n \in Matches(nsWatch.selector, labelled')
             PROVE  Passes(n)' \/ (Silence(n)' /\ Kept(n)')
  BY <1>3 DEF Followed, Matches
<1>5. CASE n = m
  <2>1. Selects(nsWatch'.pending, n)
    BY <1>1, <1>3, <1>4, <1>5, AppendedEvent
  <2> QED
    BY <2>1 DEF Passes
<1>6. CASE n # m
  <2>1. /\ Silent(nsWatch'.pending, "Namespace", n) <=> Silent(nsWatch.pending, "Namespace", n)
        /\ Selects(nsWatch.pending, n) => Selects(nsWatch'.pending, n)
    BY <1>1, <1>3, <1>4, <1>6, AppendedEvent
  <2>2. Passes(n) => Passes(n)'
    BY <2>1 DEF Passes, Sent
  <2>3. Silence(n) => Silence(n)'
    BY <2>1 DEF Silence, Sent
  <2>4. Kept(n) => Kept(n)'
    BY DEF Kept, Watched
  <2> QED
    BY <1>6, <2>2, <2>3, <2>4 DEF Followed
<1> QED
  BY <1>5, <1>6

LEMMA ChainEnvironment ==
    ASSUME IInv, Chain, Environment
    PROVE  Chain'
<1>1. Sought'
  <2>1. ASSUME NEW s \in Selectors, Edit(s) PROVE Sought'
    BY <2>1 DEF Edit, Sought
  <2>2. ASSUME NEW n \in Namespaces, Label(n) \/ Touch(n) \/ CreateCluster(n) PROVE Sought'
    <3>1. UNCHANGED <<configDue, task, asked, selector>>
      BY <2>2 DEF Label, Touch, CreateCluster, tasks, controllers
    <3>2. nsWatch'.state = nsWatch.state /\ nsWatch'.selector = nsWatch.selector
      BY <2>2 DEF Label, Touch, CreateCluster, Tell, IInv, TypeOK
    <3> QED
      BY <3>1, <3>2 DEF Chain, Sought
  <2> QED
    BY <2>1, <2>2 DEF Environment
<1>2. ASSUME NEW n \in Namespaces PROVE Followed(n)' /\ Told(n)'
  <2>1. Followed(n) /\ Told(n)
    BY DEF Chain
  <2>2. ASSUME NEW m \in Namespaces, Label(m) PROVE Followed(n)'
    <3>1. UNCHANGED <<sending, queue, nsStore, nsDue, task, watches>>
      BY <2>2 DEF Label, tasks, controllers
    <3>2. CASE nsWatch.state # "live"
      <4>1. nsWatch'.state # "live"
        BY <2>2, <3>2 DEF Label
      <4> QED
        BY <4>1 DEF Followed
    <3>3. CASE nsWatch.state = "live"
      <4>1. PICK type \in {"Apply", "Delete"} :
              /\ Tell(type, m)
              /\ m \in Matches(nsWatch.selector, labelled') => type = "Apply"
        BY <2>2, <3>3 DEF Label
      <4>2. n \in Matches(nsWatch.selector, labelled') /\ n # m =>
              n \in Matches(nsWatch.selector, labelled)
        BY <2>2 DEF Label, Matches
      <4> QED
        BY <2>1, <3>1, <3>3, <4>1, <4>2, FollowedTell
    <3> QED
      BY <3>2, <3>3
  <2>3. ASSUME NEW m \in Namespaces, Touch(m) PROVE Followed(n)'
    <3>1. UNCHANGED <<labelled, sending, queue, nsStore, nsDue, task, watches>>
      BY <2>3 DEF Touch, tasks, controllers
    <3> QED
      BY <2>1, <2>3, <3>1, FollowedTell DEF Touch
  <2>4. ASSUME (\E s \in Selectors : Edit(s)) \/ (\E m \in Namespaces : CreateCluster(m))
        PROVE  Followed(n)'
    <3>1. UNCHANGED <<nsWatch, watches, labelled, sending, queue, nsStore, nsDue, task>>
      BY <2>4 DEF Edit, CreateCluster, stream, tasks, controllers
    <3>2. Watched(n)' <=> Watched(n)
      BY <3>1 DEF Watched
    <3> QED
      BY <2>1, <3>1, <3>2, FollowedKept
  <2>5. Told(n)'
    <3>1. ready \subseteq ready' /\ UNCHANGED <<sending, queue, heard, watches>>
      BY DEF Environment, Label, Touch, CreateCluster, Edit, stream, controllers
    <3>2. CASE n \in exists' => n \in exists
      BY <2>1, <3>1, <3>2, ToldKept
    <3>3. CASE CreateCluster(n)
      BY <3>1, <3>3 DEF CreateCluster, Told, IInv, TypeOK
    <3>4. (n \in exists' => n \in exists) \/ CreateCluster(n)
      BY DEF Environment, Label, Touch, CreateCluster, Edit
    <3> QED
      BY <3>2, <3>3, <3>4
  <2> QED
    BY <2>2, <2>3, <2>4, <2>5 DEF Environment
<1> QED
  BY <1>1, <1>2 DEF Chain

LEMMA ChainLists ==
    ASSUME IInv, Chain, Lists
    PROVE  Chain'
<1>1. CASE ListNamespaces
  <2>1. PICK list \in SetToSeqs([kind : {"Namespace"}, type : {"Apply"},
                                 ns : Matches(nsWatch.selector, labelled)]) :
          nsWatch' = [nsWatch EXCEPT !.state = "live", !.pending = list]
    BY <1>1 DEF ListNamespaces
  <2>2. /\ nsWatch'.pending = list /\ nsWatch'.selector = nsWatch.selector
        /\ nsWatch'.state = "live"
    BY <2>1 DEF IInv, TypeOK
  <2>3. UNCHANGED <<labelled, selector, exists, watches, ready, task, asked, sending, queue,
                    configDue, heard>>
    BY <1>1 DEF ListNamespaces, surroundings, tasks, controllers
  <2>4. Sought'
    BY <2>2, <2>3 DEF Chain, Sought
  <2>5. ASSUME NEW n \in Namespaces PROVE Followed(n)' /\ Told(n)'
    <3>1. Matches(nsWatch.selector, labelled) \subseteq Namespaces
      BY DEF Matches, IInv, TypeOK
    <3>2. n \in Matches(nsWatch.selector, labelled) => Selects(list, n)
      BY <3>1, ListSelects
    <3>3. Followed(n)'
      BY <2>2, <2>3, <3>2 DEF Followed, Passes, Matches
    <3> QED
      BY <2>3, <3>3 DEF Chain, Told, Sent
  <2> QED
    BY <2>4, <2>5 DEF Chain
<1>2. ASSUME NEW m \in Namespaces, ListClusters(m) PROVE Chain'
  <2>1. UNCHANGED <<labelled, selector, exists, nsWatch, task, asked, sending, queue,
                    configDue, nsStore, nsDue, heard>>
    BY <1>2 DEF ListClusters, surroundings, tasks, controllers
  <2>2. Sought'
    BY <2>1 DEF Chain, Sought
  <2>3. ready \subseteq ready' /\ (m \in exists => m \in ready')
    BY <1>2 DEF ListClusters
  <2>4. watches[m].listing > 0
        /\ watches' = [watches EXCEPT ![m].listing = 0, ![m].live = @ + watches[m].listing]
    BY <1>2 DEF ListClusters
  <2>5. watches[m].listing \in Nat /\ watches[m].live \in Nat
    BY DEF IInv, TypeOK
  <2>6. watches'[m].live > 0 /\ \A n \in Namespaces \ {m} : watches'[n] = watches[n]
    BY <2>4, <2>5 DEF IInv, TypeOK
  <2>7. ASSUME NEW n \in Namespaces PROVE Followed(n)' /\ Told(n)'
    <3>1. Watched(n) => Watched(n)'
      BY <2>6 DEF Watched
    <3>2. Followed(n)'
      BY <2>1, <3>1, FollowedKept DEF Chain
    <3>3. CASE n = m
      BY <2>1, <2>3, <3>2, <3>3 DEF Told
    <3>4. CASE n # m
      BY <2>1, <2>3, <2>6, <3>2, <3>4, ToldKept DEF Chain
    <3> QED
      BY <3>2, <3>3, <3>4
  <2> QED
    BY <2>2, <2>7 DEF Chain
<1> QED
  BY <1>1, <1>2 DEF Lists

(* Reconciles: a cleared stream has no live watch that could have told. *)
LEMMA ChainTasks ==
    ASSUME IInv, Chain, WatchesTask \/ (\E n \in Namespaces : NamespaceTask(n))
    PROVE  Chain'
<1> USE PipelineAssumption
<1>1. task \in [Tasks -> {"none", "lock", "clear", "push"}]
  BY DEF IInv, TypeOK
<1>2. UNCHANGED <<labelled, selector, exists, sending, queue, configDue, nsStore, nsDue, heard>>
  BY DEF WatchesTask, NamespaceTask, Acquire, Clear, PushBoth, PushWatch, surroundings,
         controllers
<1>3. ASSUME NEW t \in Tasks, Acquire(t) PROVE Chain'
  <2>1. UNCHANGED <<nsWatch, watches, ready, asked>>
    BY <1>3 DEF Acquire, stream
  <2>2. \A u \in Tasks : task[u] = "none" <=> task'[u] = "none"
    BY <1>1, <1>3 DEF Acquire
  <2>3. Sought'
    BY <1>2, <2>1, <2>2 DEF Chain, Sought, Tasks
  <2>4. ASSUME NEW n \in Namespaces PROVE Followed(n)' /\ Told(n)'
    <3>1. Watched(n)' <=> Watched(n)
      BY <2>1 DEF Watched
    <3> QED
      BY <1>2, <2>1, <2>2, <3>1, FollowedKept, ToldKept DEF Chain, Tasks
  <2> QED
    BY <2>3, <2>4 DEF Chain
<1>4. CASE Clear
  <2>1. /\ nsWatch'.state = "none" /\ \A n \in Namespaces : watches'[n].live = 0
        /\ UNCHANGED asked
    BY <1>4 DEF Clear, NoWatch, NoWatches
  <2>2. task["watches"] # "none" /\ task'["watches"] # "none"
    BY <1>1, <1>4 DEF Clear, Tasks
  <2>3. Sought'
    BY <1>2, <2>1, <2>2 DEF Chain, Sought
  <2> QED
    BY <2>1, <2>3 DEF Chain, Followed, Told
<1>5. CASE PushBoth
  <2>1. nsWatch'.state = "fresh" /\ nsWatch'.selector = asked /\ UNCHANGED <<watches, ready>>
    BY <1>5 DEF PushBoth, NoWatch
  <2>2. task["watches"] # "none" /\ task'["watches"] = "none"
    BY <1>1, <1>5 DEF PushBoth, Finish, Tasks
  <2>3. Sought'
    BY <1>2, <2>1, <2>2 DEF Chain, Sought
  <2>4. \A n \in Namespaces : Told(n)'
    BY <1>2, <2>1 DEF Chain, Told, Sent
  <2> QED
    BY <2>1, <2>3, <2>4 DEF Chain, Followed
<1>6. ASSUME NEW m \in Namespaces, PushWatch(m) PROVE Chain'
  <2>1. UNCHANGED <<nsWatch, ready, asked>>
    BY <1>6 DEF PushWatch
  <2>2. \A u \in Tasks \ {m} : task'[u] = task[u]
    BY <1>1, <1>6 DEF PushWatch, Finish
  <2>3. /\ watches'[m].fresh > 0
        /\ \A n \in Namespaces : watches'[n].live = watches[n].live
        /\ \A n \in Namespaces \ {m} : watches'[n] = watches[n]
    BY <1>6 DEF PushWatch, IInv, TypeOK
  <2>4. Sought'
    BY <1>2, <2>1, <2>2 DEF Chain, Sought, Tasks
  <2>5. ASSUME NEW n \in Namespaces PROVE Followed(n)' /\ Told(n)'
    <3>1. Watched(n) => Watched(n)'
      BY <2>3 DEF Watched
    <3>2. task[n] # "none" => task'[n] # "none" \/ Watched(n)'
      BY <2>2, <2>3 DEF Watched, Tasks
    <3> QED
      BY <1>2, <2>1, <2>3, <3>1, <3>2, FollowedKept, ToldKept DEF Chain
  <2> QED
    BY <2>4, <2>5 DEF Chain
<1> QED
  BY <1>3, <1>4, <1>5, <1>6 DEF WatchesTask, NamespaceTask, Tasks

(***************************************************************************)
(* The broadcaster hands events on, one place further and in their order.  *)
(* With the receivers of both controllers there, none is lost.             *)
(***************************************************************************)
LEMMA PipeTake ==
    ASSUME IInv, TakeNamespace, NEW n \in Namespaces
    PROVE  /\ Passes(n) => Passes(n)'
           /\ Silence(n) => Silence(n)'
           /\ \A m : Silent(Sent, "Cluster", m)
<1> DEFINE pending == nsWatch.pending
           e == Head(nsWatch.pending)
<1>1. /\ pending \in Seq(NamespaceEvent) /\ pending # <<>> /\ e \in NamespaceEvent
      /\ sending = None /\ sending' = e /\ nsWatch'.pending = Tail(pending) /\ queue' = queue
  BY DEF TakeNamespace, Polls, IInv, TypeOK
<1>2. e # None
  BY <1>1, PipelineAssumption DEF Event
<1>3. Sent = <<>> /\ Sent' = <<e>>
  BY <1>1, <1>2 DEF Sent
<1>4. /\ Silent(pending, "Namespace", n) =>
           Silent(Tail(pending), "Namespace", n) /\ Silent(<<e>>, "Namespace", n)
      /\ Selects(pending, n) =>
           \/ Selects(Tail(pending), n)
           \/ Silent(Tail(pending), "Namespace", n) /\ Selects(<<e>>, n)
  BY <1>1, TakenEvent
<1> HIDE DEF e
<1> QED
  BY <1>1, <1>3, <1>4, EmptyIsSilent DEF Passes, Silence

LEMMA PipeTakeCluster ==
    ASSUME IInv, NEW m \in Namespaces, TakeCluster(m), NEW n \in Namespaces
    PROVE  /\ Passes(n) => Passes(n)'
           /\ Silence(n) => Silence(n)'
           /\ ~Silent(Sent, "Cluster", m)'
           /\ \A k : Silent(Sent, "Cluster", k)
<1> DEFINE e == [kind |-> "Cluster", type |-> "Apply", ns |-> m]
<1>1. e \in Event /\ sending = None /\ sending' = e /\ UNCHANGED <<nsWatch, queue>>
  BY DEF TakeCluster, Polls, Event, ClusterEvent
<1>2. Sent = <<>> /\ Sent' = <<e>>
  BY <1>1, PipelineAssumption DEF Sent
<1>3. ~Concerns(e, "Namespace", n) /\ Concerns(e, "Cluster", m)
  BY DEF Concerns
<1>4. Silent(<<e>>, "Namespace", n) /\ ~Silent(<<e>>, "Cluster", m)
  BY <1>3, OneEvent
<1> HIDE DEF e
<1> QED
  BY <1>1, <1>2, <1>4, EmptyIsSilent DEF Passes, Silence

LEMMA PipeSend ==
    ASSUME IInv, Send, NEW n \in Namespaces
    PROVE  /\ Passes(n) => Passes(n)'
           /\ Silence(n) => Silence(n)'
           /\ ~Silent(Sent, "Cluster", n) \/ ~Silent(queue["clusters"], "Cluster", n) =>
                ~Silent(queue'["clusters"], "Cluster", n)
<1> DEFINE q == queue["namespaces"]
           r == queue["clusters"]
<1>1. sending \in Event /\ sending # None /\ sending' = None /\ UNCHANGED nsWatch
  BY DEF Send, IInv, TypeOK, stream
<1>2. subscribed = Subscribers
  BY <1>1 DEF IInv, Started
<1>3. q \in Seq(Event) /\ r \in Seq(Event)
  BY DEF IInv, TypeOK, Subscribers
<1>4. queue'["namespaces"] = Append(q, sending) /\ queue'["clusters"] = Append(r, sending)
  BY <1>2 DEF Send, Subscribers
<1>5. Sent = <<sending>> /\ Sent' = <<>>
  BY <1>1 DEF Sent
<1>6. \A kind \in {"Namespace", "Cluster"} :
        Silent(Sent, kind, n) <=> ~Concerns(sending, kind, n)
  BY <1>5, OneEvent
<1>7. Selects(Sent, n) <=> Concerns(sending, "Namespace", n) /\ sending.type = "Apply"
  BY <1>5, OneEvent
<1>8. /\ Silent(Append(q, sending), "Namespace", n) <=>
           Silent(q, "Namespace", n) /\ ~Concerns(sending, "Namespace", n)
      /\ Concerns(sending, "Namespace", n) /\ sending.type = "Apply" =>
           Selects(Append(q, sending), n)
      /\ ~Concerns(sending, "Namespace", n) /\ Selects(q, n) => Selects(Append(q, sending), n)
  BY <1>1, <1>3, AppendedEvent
<1>9. Silent(Append(r, sending), "Cluster", n) <=>
        Silent(r, "Cluster", n) /\ ~Concerns(sending, "Cluster", n)
  BY <1>1, <1>3, AppendedEvent
<1>10. Passes(n) => Passes(n)'
  BY <1>1, <1>4, <1>5, <1>6, <1>7, <1>8, EmptyIsSilent DEF Passes
<1>11. Silence(n) => Silence(n)'
  BY <1>1, <1>4, <1>5, <1>6, <1>8, EmptyIsSilent DEF Silence
<1> QED
  BY <1>4, <1>6, <1>9, <1>10, <1>11

LEMMA ChainBroadcaster ==
    ASSUME IInv, Chain,
           \/ Contended \/ TakeNamespace \/ Arm \/ Send \/ Wait
           \/ \E n \in Namespaces : TakeCluster(n)
    PROVE  Chain'
<1>1. UNCHANGED <<labelled, selector, exists, task, asked, configDue, nsStore, nsDue, heard>>
  BY DEF Contended, TakeNamespace, Arm, Send, Wait, TakeCluster, surroundings, tasks,
         controllers
<1>2. /\ nsWatch'.selector = nsWatch.selector
      /\ nsWatch'.state = "live" <=> nsWatch.state = "live"
      /\ nsWatch.state # "none" => nsWatch'.state # "none"
  <2>1. CASE TakeNamespace
    BY <2>1 DEF TakeNamespace, IInv, TypeOK
  <2>2. CASE Arm
    BY <2>2 DEF Arm, IInv, TypeOK
  <2>3. CASE ~TakeNamespace /\ ~Arm
    BY <2>3 DEF Contended, Send, Wait, TakeCluster, stream
  <2> QED
    BY <2>1, <2>2, <2>3
<1>3. \A n \in Namespaces : /\ watches'[n].live = watches[n].live
                            /\ Watched(n) => Watched(n)'
  <2>1. CASE Arm
    BY <2>1 DEF Arm, Watched, IInv, TypeOK
  <2>2. CASE UNCHANGED watches
    BY <2>2 DEF Watched
  <2>3. Arm \/ UNCHANGED watches
    BY DEF Contended, TakeNamespace, Send, Wait, TakeCluster, stream
  <2> QED
    BY <2>1, <2>2, <2>3
<1>4. Sought'
  BY <1>1, <1>2 DEF Chain, Sought
<1>5. ASSUME NEW n \in Namespaces PROVE Followed(n)' /\ Told(n)'
  <2>1. Kept(n) => Kept(n)'
    BY <1>1, <1>3 DEF Kept
  <2>2. ASSUME Passes(n) => Passes(n)', Silence(n) => Silence(n)' PROVE Followed(n)'
    <3>1. Matches(nsWatch.selector, labelled)' = Matches(nsWatch.selector, labelled)
      BY <1>1, <1>2 DEF Matches
    <3> QED
      BY <1>2, <2>1, <2>2, <3>1 DEF Chain, Followed
  <2>3. CASE TakeNamespace
    <3>1. /\ Passes(n) => Passes(n)'
          /\ Silence(n) => Silence(n)'
          /\ Silent(Sent, "Cluster", n)
      BY <2>3, PipeTake
    <3>2. UNCHANGED <<ready, queue>>
      BY <2>3 DEF TakeNamespace
    <3>3. Told(n)'
      BY <1>1, <1>3, <3>1, <3>2 DEF Chain, Told
    <3> QED
      BY <2>2, <3>1, <3>3
  <2>4. ASSUME NEW m \in Namespaces, TakeCluster(m) PROVE Followed(n)' /\ Told(n)'
    <3>1. /\ Passes(n) => Passes(n)'
          /\ Silence(n) => Silence(n)'
          /\ ~Silent(Sent, "Cluster", m)' /\ Silent(Sent, "Cluster", n)
      BY <2>4, PipeTakeCluster
    <3>2. ready' = ready \ {m} /\ UNCHANGED queue
      BY <2>4 DEF TakeCluster
    <3>3. Told(n)'
      BY <1>1, <1>3, <3>1, <3>2 DEF Chain, Told
    <3> QED
      BY <2>2, <3>1, <3>3
  <2>5. CASE Send
    <3>1. /\ Passes(n) => Passes(n)'
          /\ Silence(n) => Silence(n)'
          /\ ~Silent(Sent, "Cluster", n) \/ ~Silent(queue["clusters"], "Cluster", n) =>
               ~Silent(queue'["clusters"], "Cluster", n)
      BY <2>5, PipeSend
    <3>2. UNCHANGED ready
      BY <2>5 DEF Send, stream
    <3>3. Told(n)'
      BY <1>1, <1>3, <3>1, <3>2 DEF Chain, Told
    <3> QED
      BY <2>2, <3>1, <3>3
  <2>6. CASE Contended \/ Arm \/ Wait
    <3>1. UNCHANGED <<sending, queue, ready>>
      BY <2>6 DEF Contended, Arm, Wait, stream
    <3>2. nsWatch'.pending = nsWatch.pending
      BY <2>6 DEF Contended, Arm, Wait, stream, IInv, TypeOK
    <3> QED
      BY <1>1, <1>2, <1>3, <3>1, <3>2, FollowedKept, ToldKept DEF Chain
  <2> QED
    BY <2>3, <2>4, <2>5, <2>6
<1> QED
  BY <1>4, <1>5 DEF Chain

LEMMA ChainNamespaces ==
    ASSUME IInv, Chain, PollNamespaces
    PROVE  Chain'
<1> USE PipelineAssumption
<1>1. UNCHANGED <<labelled, selector, exists, nsWatch, watches, ready, asked, sending,
                  configDue, heard>>
  BY DEF PollNamespaces, surroundings, stream
<1>2. /\ queue'["namespaces"] = <<>> /\ queue'["clusters"] = queue["clusters"]
  BY DEF PollNamespaces, ReadAll, IInv, TypeOK, Subscribers
<1>3. task'["watches"] = task["watches"]
  BY DEF PollNamespaces, Tasks
<1>4. Sought'
  BY <1>1, <1>3 DEF Chain, Sought
<1>5. ASSUME NEW n \in Namespaces PROVE Followed(n)' /\ Told(n)'
  <2> DEFINE events == queue["namespaces"]
  <2>1. ASSUME Selects(events, n) \/ (n \in nsStore /\ Silent(events, "Namespace", n)),
               n \in nsDue \/ ~Silent(events, "Namespace", n) \/ task[n] # "none" \/ Watched(n)
        PROVE  Kept(n)'
    <3>1. n \in nsStore'
      BY <2>1 DEF PollNamespaces
    <3>2. CASE task[n] # "none"
      <4>1. task'[n] = task[n]
        BY <3>2 DEF PollNamespaces, Tasks
      <4> QED
        BY <3>1, <3>2, <4>1 DEF Kept
    <3>3. CASE task[n] = "none" /\ (n \in nsDue \/ ~Silent(events, "Namespace", n))
      <4>1. task'[n] = FirstTaskStep(n)
        BY <2>1, <3>3 DEF PollNamespaces, Tasks
      <4> QED
        BY <3>1, <4>1 DEF Kept, FirstTaskStep
    <3>4. CASE Watched(n)
      BY <1>1, <3>1, <3>4 DEF Kept, Watched
    <3> QED
      BY <2>1, <3>2, <3>3, <3>4
  <2>2. Silent(queue'["namespaces"], "Namespace", n)
    BY <1>2, EmptyIsSilent
  <2>3. Passes(n) => Passes(n)' \/ (Silence(n)' /\ Kept(n)')
    <3>1. Selects(events, n) => Kept(n)'
      BY <2>1, SelectsIsHeard
    <3> QED
      BY <1>1, <2>2, <3>1 DEF Passes, Silence, Sent
  <2>4. Silence(n) /\ Kept(n) => Silence(n)' /\ Kept(n)'
    BY <1>1, <2>1, <2>2 DEF Silence, Kept, Sent
  <2>5. Followed(n)'
    BY <1>1, <2>3, <2>4 DEF Chain, Followed, Matches
  <2>6. Told(n)'
    BY <1>1, <1>2, ToldKept DEF Chain
  <2> QED
    BY <2>5, <2>6
<1> QED
  BY <1>4, <1>5 DEF Chain

LEMMA ChainControllers ==
    ASSUME IInv, Chain, Pass \/ PollClusters \/ PollConfig
    PROVE  Chain'
<1> USE PipelineAssumption
<1>1. UNCHANGED <<labelled, selector, exists, nsWatch, watches, ready, sending, nsStore, nsDue>>
  BY DEF Pass, PollClusters, PollConfig, surroundings, stream, controllers
<1>2. queue'["namespaces"] = queue["namespaces"]
  BY DEF Pass, PollClusters, PollConfig, ReadAll, IInv, TypeOK, Subscribers
<1>3. \A n \in Namespaces : task'[n] = task[n]
  <2>1. CASE Pass \/ PollClusters
    BY <2>1 DEF Pass, PollClusters, tasks
  <2>2. CASE PollConfig
    BY <2>2 DEF PollConfig, IInv, TypeOK, Tasks
  <2> QED
    BY <2>1, <2>2
<1>4. Sought'
  <2>1. CASE UNCHANGED <<task, asked, configDue>>
    BY <1>1, <2>1 DEF Chain, Sought
  <2>2. CASE task'["watches"] = FirstTaskStep("watches") /\ asked' = selector
    BY <1>1, <2>2 DEF Sought, FirstTaskStep
  <2>3. \/ UNCHANGED <<task, asked, configDue>>
        \/ task'["watches"] = FirstTaskStep("watches") /\ asked' = selector
    BY DEF Pass, PollClusters, PollConfig, tasks, controllers, IInv, TypeOK, Tasks
  <2> QED
    BY <2>1, <2>2, <2>3
<1>5. ASSUME NEW n \in Namespaces PROVE Followed(n)' /\ Told(n)'
  <2>1. Watched(n)' <=> Watched(n)
    BY <1>1 DEF Watched
  <2>2. Followed(n)'
    BY <1>1, <1>2, <1>3, <2>1, FollowedKept DEF Chain
  <2>3. CASE PollClusters
    BY <1>1, <2>2, <2>3 DEF PollClusters, Chain, Told, Sent
  <2>4. CASE Pass \/ PollConfig
    <3>1. UNCHANGED <<queue, heard>>
      BY <2>4 DEF Pass, PollConfig, controllers
    <3> QED
      BY <1>1, <1>3, <2>2, <3>1, ToldKept DEF Chain
  <2> QED
    BY <2>3, <2>4
<1> QED
  BY <1>4, <1>5 DEF Chain

LEMMA StepChain == IInv /\ Chain /\ [Next]_vars => Chain'
<1>1. ASSUME Chain, UNCHANGED vars \/ StartUp PROVE Chain'
  <2>1. UNCHANGED <<labelled, selector, exists, nsWatch, watches, ready, task, asked, sending,
                    queue, configDue, nsStore, nsDue, heard>>
    BY <1>1 DEF vars, StartUp, ClusterStarts, ClassStarts, surroundings, stream, tasks,
                controllers
  <2> QED
    BY <1>1, <2>1 DEF Chain, Sought, Followed, Told, Passes, Silence, Kept, Watched, Sent,
                      Matches
<1> QED
  BY <1>1, ChainEnvironment, ChainLists, ChainTasks, ChainBroadcaster, ChainNamespaces,
     ChainControllers DEF Next, MainTask

(***************************************************************************)
(* While the main task sleeps, no reconcile runs and no list is under way, *)
(* every Cluster of a selected namespace has reached the Cluster controller*)
(* (update_watches, add_namespace_dynamic_watch, BroadcastStream).         *)
(***************************************************************************)
THEOREM HeardWhenAtRest == Spec => []HeardAtRest
<1>1. Init => Chain
  BY DEF Init, Chain, Sought, Followed, Told, NoWatch, NoWatches
<1>2. IInv /\ NothingForgotten /\ Chain => HeardAtRest
  <2> SUFFICES ASSUME IInv, NothingForgotten, Chain, Asleep, ~Listing,
                      NEW n \in exists, n \in Selected
               PROVE  n \in heard
    BY DEF HeardAtRest
  <2>1. n \in Namespaces
    BY DEF IInv, TypeOK
  <2>2. /\ nsWatch.pending = <<>> /\ ready = {} /\ sending = None /\ nsDue = {} /\ ~configDue
        /\ nsWatch.state # "fresh" /\ watches[n].fresh = 0
        /\ queue["namespaces"] = <<>> /\ queue["clusters"] = <<>>
    BY <2>1 DEF NothingForgotten, Holds, Subscribers
  <2>3. task["watches"] = "none" /\ task[n] = "none"
    BY <2>1 DEF Asleep, Tasks
  <2>4. nsWatch.state = "live" /\ nsWatch.selector = selector
    BY <2>2, <2>3 DEF Chain, Sought, Listing, IInv, TypeOK
  <2>5. ~Passes(n)
    BY <2>2, EmptyIsSilent DEF Passes, Sent
  <2>6. Watched(n)
    BY <2>1, <2>2, <2>3, <2>4, <2>5 DEF Chain, Followed, Kept, Selected
  <2>7. watches[n].live > 0
    BY <2>1, <2>2, <2>6 DEF Watched, Listing
  <2>8. Told(n)
    BY <2>1 DEF Chain
  <2> QED
    BY <2>2, <2>7, <2>8, EmptyIsSilent DEF Told, Sent
<1>3. IInv /\ Chain /\ [Next]_vars => Chain'
  BY StepChain
<1> QED
  BY <1>1, <1>2, <1>3, Invariant, NothingIsForgotten, PTL DEF Spec
================================================================================
