------------------------------- MODULE ConfigSync -------------------------------
(***************************************************************************)
(* The configuration sync: FleetAddonConfig::reconcile_config_sync in      *)
(* src/controllers/addon_config.rs, under the first controller of          *)
(* run_fleet_addon_config_controller (src/controller.rs).                  *)
(*                                                                         *)
(* It reads the ConfigMap fleet-controller, replaces the URL and the CA of *)
(* the API server in it as spec.config.server asks, from up to two other   *)
(* objects, and applies the whole ConfigMap by force.  The ConfigMap has   *)
(* other writers: helm, which puts the values of the chart back, and users.*)
(* What is applied carries the resourceVersion of what was read, so that   *)
(* the API server refuses it when the ConfigMap has changed, force or not. *)
(* The objects that the URL and the CA are read from come, go and change   *)
(* their contents, and nobody watches them.                                *)
(*                                                                         *)
(* One action is one API call; patch(), a GET and an apply, counts as one. *)
(***************************************************************************)
EXTENDS Naturals

CONSTANTS
    Servers,   \* the values spec.config.server may take
    Others,    \* the values of the rest of the Fleet configuration
    Contents,  \* the texts of CAs and URLs, in the settings and in objects
    Starts,    \* what these objects may hold to begin with
    Budget,    \* bound: edits by others, failures and restarts
    Empty,     \* an Endpoints object without an address or a port
    None

\* The objects the values are read from: the CA and the Endpoints of the local
\* cluster, and the ConfigMap that the FleetAddonConfig refers to.
Sources == {"kube-root-ca.crt", "referenced", "endpoints"}

\* What an object may hold; None: there is none, or none that can be read.
Holdings(o) == Contents \cup {None} \cup (IF o = "endpoints" THEN {Empty} ELSE {})

\* A URL or a CA, by where it comes from: the chart's values, the FleetAddonConfig
\* itself, or an object.
FromChart == [from |-> "chart", text |-> None]
Value == {FromChart} \cup [from : Sources \cup {"spec"}, text : Contents]

Server == [kind : {"unset"}]
            \cup [kind : {"inferLocal"}, on : BOOLEAN]
            \cup [kind : {"custom"}, url : Contents \cup {None}, ca : BOOLEAN]

\* The ConfigMap; readable: its string parses as a Fleet configuration.
ConfigMap == [url : Value, ca : Value, other : Others, readable : BOOLEAN]

\* A copy of it; fresh: the ConfigMap still has its resourceVersion.
Copy == [url : Value, ca : Value, other : Others, fresh : BOOLEAN]

Reconcile == [step : {"get"}, server : Servers]
               \cup [step : {"certificate", "url", "patch"}, server : Servers, copy : Copy]

ASSUME ConstantsAssumption ==
    /\ Servers \subseteq Server
    /\ Others # {}
    /\ \A f \in Starts : f \in [Sources -> Contents \cup {None, Empty}]
                        /\ \A o \in Sources : f[o] \in Holdings(o)
    /\ Budget \in Nat
    /\ None \notin Servers \cup ConfigMap \cup Reconcile \cup Sources \cup Contents
    /\ Empty \notin Contents \cup {None}

VARIABLES
    server,   \* spec.config.server of the FleetAddonConfig; None: there is none
    map,      \* the ConfigMap fleet-controller, or None
    sources,  \* what the objects hold
    held,     \* history: what each has held since the last reconcile began
    known,    \* the FleetAddonConfig in the store
    due,      \* an event or a requeue asks for a reconcile
    rec,      \* the reconcile in progress, or None
    budget

world == <<server, map, sources>>
vars == <<server, map, sources, held, known, due, rec, budget>>

Init ==
    /\ server \in Servers \cup {None}
    /\ map \in {None} \cup
            [url : {FromChart}, ca : {FromChart}, other : Others, readable : {TRUE}]
    /\ sources \in Starts
    /\ held = [o \in Sources |-> {sources[o]}]
    /\ known = None
    /\ due = FALSE
    /\ rec = None
    /\ budget = Budget

Spend == budget > 0 /\ budget' = budget - 1

(***************************************************************************)
(* The API server.                                                         *)
(***************************************************************************)
Copied == rec # None /\ rec.step # "get"

\* The ConfigMap becomes m.  The controller watches it, but hears nothing of an
\* object that does not parse; Controller::watches reports what is applied and
\* what is deleted.
Write(m) ==
    /\ map' = m
    /\ due' = (due \/ IF m = None THEN map.readable ELSE m.readable)

WriteBeside(m) ==
    /\ Write(m)
    /\ rec' = IF Copied THEN [rec EXCEPT !.copy.fresh = FALSE] ELSE rec

(***************************************************************************)
(* Users, helm and the cluster.                                            *)
(***************************************************************************)
Edit ==
    /\ Spend
    /\ server' \in (Servers \cup {None}) \ {server}
    /\ UNCHANGED <<map, sources, held, known, due, rec>>

\* helm installs or upgrades the chart: its values are back, the rest may change.
HelmWrites ==
    /\ Spend
    /\ \E other \in Others :
         LET m == [url |-> FromChart, ca |-> FromChart, other |-> other, readable |-> TRUE]
         IN  m # map /\ WriteBeside(m)
    /\ UNCHANGED <<server, sources, held, known>>

\* A user edits what is none of our business, or breaks it.
UserWrites ==
    /\ map # None
    /\ Spend
    /\ \E other \in Others, readable \in BOOLEAN :
         LET m == [map EXCEPT !.other = other, !.readable = readable]
         IN  m # map /\ WriteBeside(m)
    /\ UNCHANGED <<server, sources, held, known>>

HelmUninstalls ==
    /\ map # None
    /\ Spend
    /\ WriteBeside(None)
    /\ UNCHANGED <<server, sources, held, known>>

\* One of the objects comes, goes or holds another text: a CA is rotated, an
\* endpoint moves, or loses its address.  Nobody watches them.
SourceChanges ==
    /\ Spend
    /\ \E o \in Sources :
         \E text \in Holdings(o) :
            /\ text # sources[o]
            /\ sources' = [sources EXCEPT ![o] = text]
            /\ held' = [held EXCEPT ![o] = @ \cup {text}]
    /\ UNCHANGED <<server, map, known, due, rec>>

(***************************************************************************)
(* The controller.                                                         *)
(***************************************************************************)
Hear ==
    /\ known # server
    /\ known' = server
    /\ due' = (due \/ server # None)
    /\ UNCHANGED <<world, held, rec, budget>>

\* The pod is replaced; the first list of the ConfigMap is an event.
Restart ==
    /\ Spend
    /\ known' = None
    /\ rec' = None
    /\ due' = (map # None /\ map.readable)
    /\ UNCHANGED <<world, held>>

Start ==
    /\ due
    /\ rec = None
    /\ due' = FALSE
    /\ rec' = IF known = None THEN None ELSE [step |-> "get", server |-> known]
    /\ held' = [o \in Sources |-> {sources[o]}]
    /\ UNCHANGED <<world, known, budget>>

At(step) == rec # None /\ rec.step = step

\* Mutant of Retry: the error is logged only.
RetryNever == rec' = None /\ UNCHANGED due

\* error_policy
Retry == rec' = None /\ due' = TRUE

\* sync_fleet_config: the GET, and is there anything to look up?
GetConfig ==
    /\ At("get")
    /\ IF map = None THEN Retry
       ELSE IF ~map.readable THEN Retry
       ELSE /\ rec' = [step |-> IF rec.server.kind = "unset" THEN "patch" ELSE "certificate",
                       server |-> rec.server,
                       copy |-> [url |-> map.url, ca |-> map.ca, other |-> map.other,
                                 fresh |-> TRUE]]
            /\ UNCHANGED due
    /\ UNCHANGED <<world, held, known, budget>>

Infers(s) == s.kind = "inferLocal" /\ s.on

\* The object with the CA that the settings ask for.
AskedCa(s) ==
    IF Infers(s) THEN "kube-root-ca.crt"
    ELSE IF s.kind = "custom" /\ s.ca THEN "referenced" ELSE None

NamesUrl(s) == s.kind = "custom" /\ s.url # None

NamedUrl(s) == [from |-> "spec", text |-> s.url]

Read(o) == [from |-> o, text |-> sources[o]]

\* Mutant of UpdateCertificate: a CA of the object is not read again.
UpdateCertificateOnce ==
    /\ At("certificate")
    /\ LET o == AskedCa(rec.server)
       IN  IF o = None \/ rec.copy.ca.from = o
           THEN rec' = [rec EXCEPT !.step = "url"] /\ UNCHANGED due
           ELSE IF sources[o] = None THEN Retry
           ELSE rec' = [rec EXCEPT !.step = "url", !.copy.ca = Read(o)] /\ UNCHANGED due
    /\ UNCHANGED <<world, held, known, budget>>

UpdateCertificate ==
    /\ At("certificate")
    /\ LET o == AskedCa(rec.server)
       IN  IF o = None THEN rec' = [rec EXCEPT !.step = "url"] /\ UNCHANGED due
           ELSE IF sources[o] = None THEN Retry
           ELSE rec' = [rec EXCEPT !.step = "url", !.copy.ca = Read(o)] /\ UNCHANGED due
    /\ UNCHANGED <<world, held, known, budget>>

\* Mutant of UrlFor: an endpoint without an address gives a URL.
UrlForEmpty(s, url) ==
    IF Infers(s) THEN Read("endpoints") ELSE IF NamesUrl(s) THEN NamedUrl(s) ELSE url

\* The URL that takes the place of url.  An endpoint without an address is no
\* error: the URL stays as it is.
UrlFor(s, url) ==
    IF Infers(s) THEN IF sources["endpoints"] = Empty THEN url ELSE Read("endpoints")
    ELSE IF NamesUrl(s) THEN NamedUrl(s) ELSE url

UpdateUrl ==
    /\ At("url")
    /\ IF Infers(rec.server) /\ sources["endpoints"] = None THEN Retry
       ELSE /\ rec' = [rec EXCEPT !.step = "patch",
                                  !.copy.url = UrlFor(rec.server, rec.copy.url)]
            /\ UNCHANGED due
    /\ UNCHANGED <<world, held, known, budget>>

\* What the ConfigMap becomes when a copy of it is applied.
Applied(copy) ==
    [url |-> copy.url, ca |-> copy.ca, other |-> copy.other, readable |-> TRUE]

\* Mutant of Patch: forced, and without the resourceVersion.
PatchUnversioned ==
    /\ At("patch")
    /\ IF map = None THEN Retry /\ UNCHANGED map
       ELSE /\ Write(IF map.url # rec.copy.url \/ map.ca # rec.copy.ca
                     THEN Applied(rec.copy) ELSE map)
            /\ rec' = None
    /\ UNCHANGED <<server, sources, held, known, budget>>

\* patch(): nothing is written when URL and CA are as wanted, whatever the rest.
Patch ==
    /\ At("patch")
    /\ LET copy == rec.copy
       IN  IF map = None THEN Retry /\ UNCHANGED map
           ELSE IF ~map.readable THEN Retry /\ UNCHANGED map
           ELSE IF map.url = copy.url /\ map.ca = copy.ca
           THEN rec' = None /\ UNCHANGED <<map, due>>
           ELSE IF ~copy.fresh THEN Retry /\ UNCHANGED map
           ELSE Write(Applied(copy)) /\ rec' = None
    /\ UNCHANGED <<server, sources, held, known, budget>>

Fault ==
    /\ rec # None
    /\ Spend
    /\ Retry
    /\ UNCHANGED <<world, held, known>>

Environment == Edit \/ HelmWrites \/ UserWrites \/ HelmUninstalls \/ SourceChanges

Sync == Start \/ GetConfig \/ UpdateCertificate \/ UpdateUrl \/ Patch

Next == Environment \/ Hear \/ Sync \/ Fault \/ Restart

Spec == Init /\ [][Next]_vars

\* The watches deliver and a reconcile is polled to its end.
FairSpec == Spec /\ WF_vars(Hear) /\ WF_vars(Sync)

(***************************************************************************)
(* Properties.                                                             *)
(***************************************************************************)

\* Type invariant: the objects, the store and the reconcile in progress.
TypeOK ==
    /\ server \in Servers \cup {None}
    /\ map \in ConfigMap \cup {None}
    /\ sources \in [Sources -> Contents \cup {None, Empty}]
    /\ \A o \in Sources : sources[o] \in Holdings(o)
    /\ held \in [Sources -> SUBSET (Contents \cup {None, Empty})]
    /\ known \in Servers \cup {None}
    /\ due \in BOOLEAN
    /\ rec \in Reconcile \cup {None}
    /\ budget \in Nat

\* The sync never undoes what another wrote to the ConfigMap between its read
\* and its apply, although it applies all of it and by force: the rest of the
\* configuration stays, so do a URL and a CA its settings do not ask for, it
\* never repairs what it cannot read and never makes the ConfigMap anew.
OthersKept ==
    [][Patch /\ map' # map =>
         /\ map # None /\ map.readable
         /\ map'.other = map.other
         /\ ~Infers(rec.server) /\ ~NamesUrl(rec.server) => map'.url = map.url
         /\ AskedCa(rec.server) = None => map'.ca = map.ca]_vars

Present == map # None /\ map.readable

\* Nothing is on its way that would start a reconcile.
Idle == rec = None /\ ~due /\ known = server

\* What has been there to be read from an object since the last reconcile began.
Texts(o) == [from : {o}, text : held[o] \cap Contents]

\* The CA is of the object that s asks for, and the URL as well unless there was
\* none, with a text that was there when the last reconcile began or since.
AsAsked(m, s) ==
    /\ AskedCa(s) # None => m.ca \in Texts(AskedCa(s))
    /\ Infers(s) => m.url \in Texts("endpoints") \/ Empty \in held["endpoints"]
    /\ NamesUrl(s) => m.url = NamedUrl(s)

\* When nothing would start a reconcile any more, URL and CA are as the settings
\* ask for, and as fresh as the last reconcile could make them: helm, users and
\* failures in between do not leave those of earlier settings, of an object that
\* was not there or of an earlier reconcile.  That is all: nobody watches the
\* objects, so that a CA rotated or an endpoint moved after that is not followed.
SyncedAtRest ==
    Idle /\ server # None /\ Present => AsAsked(map, server)

\* Once edits end and the objects are there, URL and CA are as the settings ask
\* for and stay so, whoever wrote the ConfigMap in between and whichever calls
\* failed.  A CA that could not be read is read once it is there: the error is
\* retried.
EventuallySynced ==
    \A s \in Servers :
        <>[](server = s /\ Present /\ \A o \in Sources : sources[o] # None) =>
            <>[](map # None /\ AsAsked(map, s))
=================================================================================
