--------------------------- MODULE ConfigSyncProofs ---------------------------
(***************************************************************************)
(* Theorems about ConfigSync, for every set of settings and of values of   *)
(* the rest of the configuration, and every number of edits and failures.  *)
(* A copy with the resourceVersion of the ConfigMap differs from it only   *)
(* where the settings ask for a value: hence OthersKept.  Unless a         *)
(* reconcile is due, what it has found and written is of the objects as    *)
(* they were when it began, or are since: SyncedAtRest.                    *)
(***************************************************************************)
EXTENDS ConfigSync, TLAPS

Holding == [step : {"certificate", "url", "patch"}, server : Servers, copy : Copy]

LEMMA CopiedType ==
    ASSUME TypeOK, Copied
    PROVE  rec \in Holding
  BY ConstantsAssumption DEF TypeOK, Copied, Reconcile, Holding

LEMMA HoldingType == \A r \in Holding : r \in Reconcile /\ r # None /\ r.step # "get"
  BY ConstantsAssumption DEF Reconcile, Holding

\* A reconcile that goes on, with another copy of the ConfigMap.
LEMMA CopyChanged ==
    ASSUME NEW r \in Holding, NEW step \in {"certificate", "url", "patch"}, NEW copy \in Copy
    PROVE  /\ [r EXCEPT !.step = step, !.copy = copy] \in Holding
           /\ [r EXCEPT !.step = step, !.copy = copy].copy = copy
           /\ [r EXCEPT !.step = step, !.copy = copy].server = r.server
  BY DEF Holding

LEMMA AskedType == \A s \in Servers : AskedCa(s) \in {"kube-root-ca.crt", "referenced", None}
  BY DEF AskedCa

\* What is read from an object that can be read.
LEMMA ReadValue ==
    ASSUME TypeOK, NEW o \in Sources, sources[o] # None, sources[o] # Empty
    PROVE  /\ Read(o) \in Value
           /\ sources[o] \in held[o] => Read(o) \in Texts(o)
<1>1. sources[o] \in Contents
  BY DEF TypeOK, Holdings
<1> QED
  BY <1>1 DEF Read, Value, Texts

LEMMA CaRead ==
    ASSUME TypeOK, NEW s \in Servers, AskedCa(s) # None, sources[AskedCa(s)] # None
    PROVE  AskedCa(s) \in Sources /\ sources[AskedCa(s)] # Empty
<1>1. AskedCa(s) \in {"kube-root-ca.crt", "referenced"}
  BY AskedType
<1> QED
  BY <1>1, ConstantsAssumption DEF TypeOK, Holdings, Sources

(***************************************************************************)
(* Types.                                                                  *)
(***************************************************************************)
LEMMA InitType == Init => TypeOK
<1> SUFFICES ASSUME Init PROVE TypeOK
  OBVIOUS
<1>1. /\ sources \in [Sources -> Contents \cup {None, Empty}]
      /\ \A o \in Sources : sources[o] \in Holdings(o)
  BY ConstantsAssumption DEF Init
<1>2. held \in [Sources -> SUBSET (Contents \cup {None, Empty})]
  BY <1>1 DEF Init
<1>3. map \in ConfigMap \cup {None}
  BY DEF Init, ConfigMap, Value
<1> QED
  BY <1>1, <1>2, <1>3, ConstantsAssumption DEF Init, TypeOK

LEMMA OutdatedType ==
    ASSUME TypeOK, Copied
    PROVE  /\ [rec EXCEPT !.copy.fresh = FALSE] \in Holding
           /\ ~[rec EXCEPT !.copy.fresh = FALSE].copy.fresh
<1>1. rec \in Holding /\ rec.copy \in Copy
  BY CopiedType DEF Holding
<1>2. PICK copy : copy = [rec.copy EXCEPT !.fresh = FALSE]
  OBVIOUS
<1>3. copy \in Copy /\ ~copy.fresh
  BY <1>1, <1>2 DEF Copy
<1>4. [rec EXCEPT !.copy.fresh = FALSE] = [rec EXCEPT !.copy = copy]
  BY <1>1, <1>2
<1>5. [rec EXCEPT !.copy = copy] \in Holding /\ [rec EXCEPT !.copy = copy].copy = copy
  BY <1>1, <1>3 DEF Holding
<1> QED
  BY <1>3, <1>4, <1>5

LEMMA WriteType ==
    ASSUME TypeOK, NEW m \in ConfigMap \cup {None}, Write(m), m = None => map # None
    PROVE  map' \in ConfigMap \cup {None} /\ due' \in BOOLEAN
<1>1. map' \in ConfigMap \cup {None}
  BY DEF Write
<1>2. due' \in BOOLEAN
  BY DEF Write, TypeOK
<1> QED
  BY <1>1, <1>2

LEMMA BesideType ==
    ASSUME TypeOK, NEW m \in ConfigMap \cup {None}, WriteBeside(m), m = None => map # None,
           budget' \in Nat, UNCHANGED <<server, sources, held, known>>
    PROVE  TypeOK'
<1>1. map' \in ConfigMap \cup {None} /\ due' \in BOOLEAN
  BY WriteType DEF WriteBeside
<1>2. rec' \in Reconcile \cup {None}
  BY OutdatedType, HoldingType DEF WriteBeside, TypeOK
<1> QED
  BY <1>1, <1>2 DEF TypeOK

LEMMA EnvironmentType == TypeOK /\ Environment => TypeOK'
<1> SUFFICES ASSUME TypeOK, Environment PROVE TypeOK'
  OBVIOUS
<1>0. budget \in Nat /\ None \notin ConfigMap
  BY ConstantsAssumption DEF TypeOK
<1>1. CASE Edit
  BY <1>0, <1>1 DEF Edit, Spend, TypeOK
<1>2. CASE HelmWrites
  <2>1. PICK other \in Others :
            WriteBeside([url |-> FromChart, ca |-> FromChart, other |-> other, readable |-> TRUE])
    BY <1>2 DEF HelmWrites
  <2>2. [url |-> FromChart, ca |-> FromChart, other |-> other, readable |-> TRUE] \in ConfigMap
    BY DEF ConfigMap, Value
  <2> QED
    BY <1>0, <1>2, <2>1, <2>2, BesideType DEF HelmWrites, Spend
<1>3. CASE UserWrites
  <2>1. PICK other \in Others, readable \in BOOLEAN :
            WriteBeside([map EXCEPT !.other = other, !.readable = readable])
    BY <1>3 DEF UserWrites
  <2>2. [map EXCEPT !.other = other, !.readable = readable] \in ConfigMap
    BY <1>3 DEF UserWrites, TypeOK, ConfigMap
  <2> QED
    BY <1>0, <1>3, <2>1, <2>2, BesideType DEF UserWrites, Spend
<1>4. CASE HelmUninstalls
  BY <1>0, <1>4, BesideType DEF HelmUninstalls, Spend
<1>5. CASE SourceChanges
  <2>1. PICK o \in Sources :
            \E text \in Holdings(o) :
              /\ sources' = [sources EXCEPT ![o] = text]
              /\ held' = [held EXCEPT ![o] = held[o] \cup {text}]
    BY <1>5 DEF SourceChanges
  <2>2. PICK text \in Holdings(o) :
            /\ sources' = [sources EXCEPT ![o] = text]
            /\ held' = [held EXCEPT ![o] = held[o] \cup {text}]
    BY <2>1
  <2>3. text \in Contents \cup {None, Empty}
    BY <2>2 DEF Holdings
  <2>4. /\ sources' \in [Sources -> Contents \cup {None, Empty}]
        /\ \A p \in Sources : sources'[p] \in Holdings(p)
    BY <2>2, <2>3 DEF TypeOK
  <2>5. held' \in [Sources -> SUBSET (Contents \cup {None, Empty})]
    BY <2>2, <2>3 DEF TypeOK
  <2> QED
    BY <1>0, <1>5, <2>4, <2>5 DEF SourceChanges, Spend, TypeOK
<1> QED
  BY <1>1, <1>2, <1>3, <1>4, <1>5 DEF Environment

\* A copy changes only where the settings ask for a value.
Changes(copy, new) ==
    /\ new.fresh = copy.fresh
    /\ new.other = copy.other
    /\ ~Infers(rec.server) /\ ~NamesUrl(rec.server) => new.url = copy.url
    /\ AskedCa(rec.server) = None => new.ca = copy.ca

GoesOn ==
    \E step \in {"url", "patch"}, new \in Copy :
        /\ Copied
        /\ rec' = [rec EXCEPT !.step = step, !.copy = new]
        /\ Changes(rec.copy, new)

LEMMA CertificateGoesOn ==
    ASSUME TypeOK, UpdateCertificate
    PROVE  GoesOn \/ Retry
<1>1. Copied /\ rec \in Holding /\ rec.copy \in Copy /\ rec.server \in Servers
  BY CopiedType DEF UpdateCertificate, At, Copied, Holding
<1>2. CASE rec' = [rec EXCEPT !.step = "url"]
  <2>1. rec' = [rec EXCEPT !.step = "url", !.copy = rec.copy]
    BY <1>1, <1>2 DEF Holding
  <2> QED
    BY <1>1, <2>1 DEF GoesOn, Changes
<1>3. CASE /\ AskedCa(rec.server) # None /\ sources[AskedCa(rec.server)] # None
           /\ rec' = [rec EXCEPT !.step = "url", !.copy.ca = Read(AskedCa(rec.server))]
  <2>1. PICK new : new = [rec.copy EXCEPT !.ca = Read(AskedCa(rec.server))]
    OBVIOUS
  <2>2. Read(AskedCa(rec.server)) \in Value
    BY <1>1, <1>3, CaRead, ReadValue
  <2>3. /\ new \in Copy /\ new.fresh = rec.copy.fresh /\ new.other = rec.copy.other
        /\ new.url = rec.copy.url
    BY <1>1, <2>1, <2>2 DEF Copy
  <2>4. rec' = [rec EXCEPT !.step = "url", !.copy = new]
    BY <1>1, <1>3, <2>1 DEF Holding
  <2> QED
    BY <1>1, <1>3, <2>3, <2>4 DEF GoesOn, Changes
<1> QED
  BY <1>2, <1>3 DEF UpdateCertificate

\* The URL that takes the place of one: another, or the same if none is asked for.
LEMMA UrlType ==
    ASSUME TypeOK, NEW s \in Servers, NEW url \in Value,
           ~(Infers(s) /\ sources["endpoints"] = None)
    PROVE  /\ UrlFor(s, url) \in Value
           /\ ~Infers(s) /\ ~NamesUrl(s) => UrlFor(s, url) = url
<1>1. "endpoints" \in Sources
  BY DEF Sources
<1>2. NamesUrl(s) => NamedUrl(s) \in Value
  BY ConstantsAssumption DEF NamesUrl, NamedUrl, Server, Value
<1> QED
  BY <1>1, <1>2, ReadValue DEF UrlFor

LEMMA UrlGoesOn ==
    ASSUME TypeOK, UpdateUrl
    PROVE  GoesOn \/ Retry
<1>1. Copied /\ rec \in Holding /\ rec.copy \in Copy /\ rec.server \in Servers
  BY CopiedType DEF UpdateUrl, At, Copied, Holding
<1>2. CASE /\ ~(Infers(rec.server) /\ sources["endpoints"] = None)
           /\ rec' = [rec EXCEPT !.step = "patch", !.copy.url = UrlFor(rec.server, rec.copy.url)]
  <2>1. PICK new : new = [rec.copy EXCEPT !.url = UrlFor(rec.server, rec.copy.url)]
    OBVIOUS
  <2>2. /\ UrlFor(rec.server, rec.copy.url) \in Value
        /\ ~Infers(rec.server) /\ ~NamesUrl(rec.server) =>
                UrlFor(rec.server, rec.copy.url) = rec.copy.url
    BY <1>1, <1>2, UrlType DEF Copy
  <2>3. /\ new \in Copy /\ new.fresh = rec.copy.fresh /\ new.other = rec.copy.other
        /\ new.ca = rec.copy.ca /\ new.url = UrlFor(rec.server, rec.copy.url)
    BY <1>1, <2>1, <2>2 DEF Copy
  <2>4. rec' = [rec EXCEPT !.step = "patch", !.copy = new]
    BY <1>1, <1>2, <2>1 DEF Holding
  <2> QED
    BY <1>1, <2>2, <2>3, <2>4 DEF GoesOn, Changes
<1> QED
  BY <1>2 DEF UpdateUrl

LEMMA GoesOnType ==
    ASSUME TypeOK, GoesOn
    PROVE  rec' \in Reconcile
  BY CopiedType, CopyChanged, HoldingType DEF GoesOn

\* The copy of a ConfigMap that was read.
CopyOf(m) == [url |-> m.url, ca |-> m.ca, other |-> m.other, fresh |-> TRUE]

LEMMA ReadType ==
    ASSUME TypeOK, GetConfig
    PROVE  \/ Retry
           \/ /\ map # None /\ map.readable
              /\ rec'.copy = CopyOf(map) /\ rec' \in Holding
<1>1. rec # None /\ rec.server \in Servers
  BY DEF GetConfig, At, TypeOK, Reconcile
<1>2. CASE map # None /\ map.readable /\
           rec' = [step |-> IF rec.server.kind = "unset" THEN "patch" ELSE "certificate",
                   server |-> rec.server, copy |-> CopyOf(map)]
  <2>1. map \in ConfigMap
    BY <1>2 DEF TypeOK
  <2>2. CopyOf(map) \in Copy
    BY <2>1 DEF ConfigMap, Copy, CopyOf
  <2> QED
    BY <1>1, <1>2, <2>2 DEF Holding
<1> QED
  BY <1>2 DEF GetConfig, CopyOf

LEMMA AppliedType == \A copy \in Copy : Applied(copy) \in ConfigMap
  BY DEF Copy, Applied, ConfigMap

LEMMA SyncType == TypeOK /\ (Sync \/ Hear \/ Fault \/ Restart) => TypeOK'
<1> SUFFICES ASSUME TypeOK, Sync \/ Hear \/ Fault \/ Restart PROVE TypeOK'
  OBVIOUS
<1> USE DEF world
<1>1. CASE Start
  <2>1. known # None => [step |-> "get", server |-> known] \in Reconcile
    BY DEF TypeOK, Reconcile
  <2>2. held' \in [Sources -> SUBSET (Contents \cup {None, Empty})]
    BY <1>1 DEF Start, TypeOK
  <2> QED
    BY <1>1, <2>1, <2>2 DEF Start, TypeOK
<1>2. CASE GetConfig
  <2>1. rec' \in Reconcile \cup {None}
    BY <1>2, ReadType, HoldingType DEF Retry
  <2>2. due' \in BOOLEAN
    BY <1>2 DEF GetConfig, Retry, TypeOK
  <2> QED
    BY <1>2, <2>1, <2>2 DEF GetConfig, TypeOK
<1>3. CASE UpdateCertificate
  <2>1. rec' \in Reconcile \cup {None}
    BY <1>3, CertificateGoesOn, GoesOnType DEF Retry
  <2>2. due' \in BOOLEAN
    BY <1>3 DEF UpdateCertificate, Retry, TypeOK
  <2> QED
    BY <1>3, <2>1, <2>2 DEF UpdateCertificate, TypeOK
<1>4. CASE UpdateUrl
  <2>1. rec' \in Reconcile \cup {None}
    BY <1>4, UrlGoesOn, GoesOnType DEF Retry
  <2>2. due' \in BOOLEAN
    BY <1>4 DEF UpdateUrl, Retry, TypeOK
  <2> QED
    BY <1>4, <2>1, <2>2 DEF UpdateUrl, TypeOK
<1>5. CASE Patch
  <2>1. Copied /\ rec.copy \in Copy
    BY <1>5, CopiedType DEF Patch, At, Copied, Holding
  <2>2. CASE Write(Applied(rec.copy)) /\ rec' = None
    <3>1. Applied(rec.copy) \in ConfigMap /\ None \notin ConfigMap
      BY <2>1, AppliedType, ConstantsAssumption
    <3>2. map' \in ConfigMap \cup {None} /\ due' \in BOOLEAN
      BY <2>2, <3>1, WriteType
    <3> QED
      BY <1>5, <2>2, <3>2 DEF Patch, TypeOK
  <2>3. CASE Retry /\ UNCHANGED map
    BY <1>5, <2>3 DEF Patch, Retry, TypeOK
  <2>4. CASE rec' = None /\ UNCHANGED <<map, due>>
    BY <1>5, <2>4 DEF Patch, TypeOK
  <2> QED
    BY <1>5, <2>2, <2>3, <2>4 DEF Patch
<1>6. CASE Hear
  BY <1>6 DEF Hear, TypeOK
<1>7. CASE Fault
  BY <1>7 DEF Fault, Spend, Retry, TypeOK
<1>8. CASE Restart
  <2>1. due' \in BOOLEAN
    BY <1>8 DEF Restart, TypeOK, ConfigMap
  <2> QED
    BY <1>8, <2>1 DEF Restart, Spend, TypeOK
<1> QED
  BY <1>1, <1>2, <1>3, <1>4, <1>5, <1>6, <1>7, <1>8 DEF Sync

LEMMA NextType == TypeOK /\ [Next]_vars => TypeOK'
<1>1. TypeOK /\ UNCHANGED vars => TypeOK'
  BY DEF TypeOK, vars
<1> QED
  BY <1>1, EnvironmentType, SyncType DEF Next

\* The type invariant holds for every value of the constants: what the sync puts
\* together and applies is always a Fleet configuration.
THEOREM TypeCorrect == Spec => []TypeOK
  BY InitType, NextType, PTL DEF Spec

(***************************************************************************)
(* What a copy is worth.                                                   *)
(***************************************************************************)

\* A copy that the API server would accept is the ConfigMap, but for what the
\* settings ask for.
CopyFaithful ==
    Copied /\ rec.copy.fresh =>
        /\ map # None /\ map.readable
        /\ rec.copy.other = map.other
        /\ ~Infers(rec.server) /\ ~NamesUrl(rec.server) => rec.copy.url = map.url
        /\ AskedCa(rec.server) = None => rec.copy.ca = map.ca

LEMMA BesideFaithful ==
    ASSUME TypeOK, NEW m, WriteBeside(m)
    PROVE  CopyFaithful'
<1>1. CASE Copied
  <2>1. ~rec'.copy.fresh
    BY <1>1, OutdatedType DEF WriteBeside
  <2> QED
    BY <2>1 DEF CopyFaithful
<1>2. CASE ~Copied
  BY <1>2 DEF WriteBeside, CopyFaithful, Copied
<1> QED
  BY <1>1, <1>2

LEMMA NextFaithful == TypeOK /\ CopyFaithful /\ [Next]_vars => CopyFaithful'
<1> SUFFICES ASSUME TypeOK, CopyFaithful, [Next]_vars PROVE CopyFaithful'
  OBVIOUS
<1> USE DEF world
<1>1. ASSUME UNCHANGED <<map, rec>> PROVE CopyFaithful'
  BY <1>1 DEF CopyFaithful, Copied
<1>2. ASSUME rec' = None PROVE CopyFaithful'
  BY <1>2 DEF CopyFaithful, Copied
<1>3. CASE Environment
  BY <1>1, <1>3, BesideFaithful
  DEF Environment, Edit, HelmWrites, UserWrites, HelmUninstalls, SourceChanges
<1>4. CASE Start
  BY <1>1, <1>4 DEF Start, CopyFaithful, Copied
<1>5. CASE GetConfig
  <2>1. CASE /\ map # None /\ map.readable
             /\ rec'.copy = CopyOf(map) /\ rec' \in Holding
    BY <1>5, <2>1 DEF GetConfig, CopyFaithful, CopyOf
  <2> QED
    BY <1>2, <1>5, <2>1, ReadType DEF Retry
<1>6. CASE UNCHANGED map /\ GoesOn
  <2>1. PICK step \in {"url", "patch"}, new \in Copy :
            /\ Copied
            /\ rec' = [rec EXCEPT !.step = step, !.copy = new]
            /\ Changes(rec.copy, new)
    BY <1>6 DEF GoesOn
  <2>2. rec'.copy = new /\ rec'.server = rec.server
    <3>1. rec \in Holding
      BY <2>1, CopiedType
    <3> QED
      BY <2>1, <3>1 DEF Holding
  <2>3. CASE ~new.fresh
    BY <2>2, <2>3 DEF CopyFaithful
  <2>4. CASE new.fresh
    <3>1. /\ map # None /\ map.readable
          /\ rec.copy.other = map.other
          /\ ~Infers(rec.server) /\ ~NamesUrl(rec.server) => rec.copy.url = map.url
          /\ AskedCa(rec.server) = None => rec.copy.ca = map.ca
      BY <2>1, <2>4 DEF CopyFaithful, Changes
    <3>2. /\ new.other = map.other
          /\ ~Infers(rec.server) /\ ~NamesUrl(rec.server) => new.url = map.url
          /\ AskedCa(rec.server) = None => new.ca = map.ca
      BY <2>1, <3>1 DEF Changes
    <3>3. /\ (Infers(rec.server))' = Infers(rec.server)
          /\ (NamesUrl(rec.server))' = NamesUrl(rec.server)
          /\ (AskedCa(rec.server))' = AskedCa(rec.server)
      BY <2>2 DEF NamesUrl, AskedCa, Infers
    <3> QED
      BY <1>6, <2>2, <3>1, <3>2, <3>3 DEF CopyFaithful
  <2> QED
    BY <2>3, <2>4
<1>7. CASE UpdateCertificate
  BY <1>2, <1>6, <1>7, CertificateGoesOn DEF UpdateCertificate, Retry
<1>8. CASE UpdateUrl
  BY <1>2, <1>6, <1>8, UrlGoesOn DEF UpdateUrl, Retry
<1>9. CASE Patch
  BY <1>2, <1>9 DEF Patch, Retry
<1>10. CASE Hear
  BY <1>1, <1>10 DEF Hear
<1>11. CASE Fault \/ Restart
  BY <1>2, <1>11 DEF Fault, Retry, Restart
<1>12. CASE UNCHANGED vars
  BY <1>1, <1>12 DEF vars
<1> QED
  BY <1>3, <1>4, <1>5, <1>7, <1>8, <1>9, <1>10, <1>11, <1>12 DEF Next, Sync

LEMMA PatchKeepsOthers ==
    ASSUME TypeOK, CopyFaithful, Patch, map' # map
    PROVE  /\ map # None /\ map.readable
           /\ map'.other = map.other
           /\ ~Infers(rec.server) /\ ~NamesUrl(rec.server) => map'.url = map.url
           /\ AskedCa(rec.server) = None => map'.ca = map.ca
<1>1. /\ map' = Applied(rec.copy) /\ rec.copy.fresh /\ Copied
  BY DEF Patch, Write, At, Copied
<1>2. /\ map'.other = rec.copy.other /\ map'.url = rec.copy.url /\ map'.ca = rec.copy.ca
  BY <1>1 DEF Applied
<1> QED
  BY <1>1, <1>2 DEF CopyFaithful

\* The forced apply of the whole ConfigMap never undoes what another wrote to it
\* between the read and the apply, nor a URL or a CA the settings do not ask for.
THEOREM OthersAreKept == Spec => OthersKept
<1>1. Init => CopyFaithful
  BY DEF Init, CopyFaithful, Copied
<1>2. TypeOK /\ CopyFaithful /\ [Next]_vars =>
        [Patch /\ map' # map =>
           /\ map # None /\ map.readable
           /\ map'.other = map.other
           /\ ~Infers(rec.server) /\ ~NamesUrl(rec.server) => map'.url = map.url
           /\ AskedCa(rec.server) = None => map'.ca = map.ca]_vars
  BY PatchKeepsOthers
<1> QED
  BY <1>1, <1>2, NextFaithful, TypeCorrect, PTL DEF Spec, OthersKept

(***************************************************************************)
(* Nothing that is asked for is forgotten.  Unless another reconcile is    *)
(* due, the one in progress was started for the settings in the store, and *)
(* its copy has what they ask for as far as it has come.                   *)
(***************************************************************************)

\* What can be read now counts among what could be read since the last start.
Remembered == \A o \in Sources : sources[o] \in held[o]

CaAsAsked(m, s) == AskedCa(s) # None => m.ca \in Texts(AskedCa(s))

Served ==
    ~due /\ known # None =>
        IF rec = None THEN Present => AsAsked(map, known)
        ELSE /\ rec.server = known
             /\ rec.step = "url" => CaAsAsked(rec.copy, known)
             /\ rec.step = "patch" => AsAsked(rec.copy, known)

LEMMA NextRemembered == TypeOK /\ Remembered /\ [Next]_vars => Remembered'
<1> SUFFICES ASSUME TypeOK, Remembered, [Next]_vars PROVE Remembered'
  OBVIOUS
<1> USE DEF world
<1>1. ASSUME UNCHANGED <<sources, held>> PROVE Remembered'
  BY <1>1 DEF Remembered
<1>2. CASE Start
  BY <1>2 DEF Start, Remembered
<1>3. CASE SourceChanges
  BY <1>3 DEF SourceChanges, Remembered, TypeOK
<1> QED
  BY <1>1, <1>2, <1>3
  DEF Next, Environment, Edit, HelmWrites, UserWrites, HelmUninstalls, Hear, Sync, GetConfig,
      UpdateCertificate, UpdateUrl, Patch, Fault, Restart, vars

\* While a reconcile is not started anew, what could be read since stays.
LEMMA StillAsked ==
    ASSUME \A o \in Sources : held[o] \subseteq held'[o], NEW s \in Servers,
           NEW m, NEW n, n.url = m.url, n.ca = m.ca
    PROVE  /\ CaAsAsked(m, s) => CaAsAsked(n, s)'
           /\ AsAsked(m, s) => AsAsked(n, s)'
<1>1. \A o \in Sources : Texts(o) \subseteq Texts(o)'
  BY DEF Texts
<1>2. AskedCa(s) \in Sources \cup {None} /\ "endpoints" \in Sources
  BY AskedType DEF Sources
<1> QED
  BY <1>1, <1>2 DEF CaAsAsked, AsAsked

LEMMA CertificateServed ==
    ASSUME TypeOK, Remembered, UpdateCertificate, Served
    PROVE  Served'
<1>1. Copied /\ rec \in Holding /\ rec.copy \in Copy /\ rec.server \in Servers
  BY CopiedType DEF UpdateCertificate, At, Copied, Holding
<1>2. CASE due'
  BY <1>2 DEF Served
<1>3. CASE ~due' /\ known' = known /\ rec.server = known /\ known # None
  <2>1. /\ rec' # None /\ rec'.server = known /\ rec'.step = "url"
        /\ AskedCa(known) # None => rec'.copy.ca \in Texts(AskedCa(known))
    <3>1. CASE AskedCa(rec.server) = None /\ rec' = [rec EXCEPT !.step = "url"]
      <4>1. rec' \in Holding
        BY <1>1, <3>1 DEF Holding
      <4> QED
        BY <1>1, <1>3, <3>1, <4>1, HoldingType DEF Holding
    <3>2. CASE /\ AskedCa(rec.server) # None /\ sources[AskedCa(rec.server)] # None
               /\ rec' = [rec EXCEPT !.step = "url", !.copy.ca = Read(AskedCa(rec.server))]
      <4>1. PICK new : new = [rec.copy EXCEPT !.ca = Read(AskedCa(rec.server))]
        OBVIOUS
      <4>2. Read(AskedCa(rec.server)) \in Value \cap Texts(AskedCa(rec.server))
        BY <1>1, <3>2, CaRead, ReadValue DEF Remembered
      <4>3. new \in Copy /\ new.ca = Read(AskedCa(rec.server))
        BY <1>1, <4>1, <4>2 DEF Copy
      <4>4. rec' = [rec EXCEPT !.step = "url", !.copy = new]
        BY <1>1, <3>2, <4>1 DEF Holding
      <4>5. rec' \in Holding /\ rec'.step = "url" /\ rec'.copy = new /\ rec'.server = rec.server
        BY <1>1, <4>3, <4>4 DEF Holding
      <4> QED
        BY <1>3, <4>2, <4>3, <4>5, HoldingType
    <3> QED
      BY <1>3, <3>1, <3>2 DEF UpdateCertificate, Retry
  <2>2. held' = held
    BY DEF UpdateCertificate
  <2>3. CaAsAsked(rec.copy, known)'
    BY <1>3, <2>1, <2>2 DEF CaAsAsked, Texts, AskedCa, Infers
  <2> QED
    BY <1>3, <2>1, <2>3 DEF Served, CaAsAsked
<1>4. known' = known /\ (due' \/ due' = due)
  BY DEF UpdateCertificate, Retry
<1>5. CASE ~due' /\ known' = None
  BY <1>5 DEF Served
<1> QED
  BY <1>1, <1>2, <1>3, <1>4, <1>5, HoldingType DEF Served

LEMMA UrlServed ==
    ASSUME TypeOK, Remembered, UpdateUrl, Served
    PROVE  Served'
<1>1. /\ Copied /\ rec \in Holding /\ rec.copy \in Copy /\ rec.server \in Servers
      /\ rec.step = "url"
  BY CopiedType DEF UpdateUrl, At, Copied, Holding
<1>2. ASSUME ~due, known # None
      PROVE  rec.server = known /\ CaAsAsked(rec.copy, known)
  BY <1>1, <1>2, HoldingType DEF Served
<1>3. CASE Retry
  BY <1>3 DEF Retry, Served
<1>4. CASE /\ ~(Infers(rec.server) /\ sources["endpoints"] = None) /\ UNCHANGED due
           /\ rec' = [rec EXCEPT !.step = "patch", !.copy.url = UrlFor(rec.server, rec.copy.url)]
  <2>1. PICK new : new = [rec.copy EXCEPT !.url = UrlFor(rec.server, rec.copy.url)]
    OBVIOUS
  <2>2. UrlFor(rec.server, rec.copy.url) \in Value
    BY <1>1, <1>4, UrlType DEF Copy
  <2>3. /\ new \in Copy /\ new.ca = rec.copy.ca /\ new.url = UrlFor(rec.server, rec.copy.url)
    BY <1>1, <2>1, <2>2 DEF Copy
  <2>4. rec' = [rec EXCEPT !.step = "patch", !.copy = new]
    BY <1>1, <1>4, <2>1 DEF Holding
  <2>5. rec' \in Holding /\ rec'.step = "patch" /\ rec'.copy = new /\ rec'.server = rec.server
    BY <1>1, <2>3, <2>4 DEF Holding
  <2>6. Infers(rec.server) => new.url \in Texts("endpoints") \/ Empty \in held["endpoints"]
    <3>1. "endpoints" \in Sources
      BY DEF Sources
    <3>2. CASE sources["endpoints"] = Empty
      BY <3>1, <3>2 DEF Remembered
    <3>3. CASE sources["endpoints"] # Empty
      BY <1>4, <2>3, <3>1, <3>3, ReadValue DEF Remembered, UrlFor
    <3> QED
      BY <3>2, <3>3
  <2>7. NamesUrl(rec.server) => new.url = NamedUrl(rec.server)
    BY <2>3 DEF UrlFor, NamesUrl, Infers
  <2>8. ~due /\ known # None => AsAsked(new, known)
    BY <1>2, <2>3, <2>6, <2>7 DEF AsAsked, CaAsAsked
  <2>9. known' = known /\ held' = held
    BY DEF UpdateUrl
  <2>10. ~due /\ known # None => AsAsked(new, known)'
    BY <1>1, <1>2, <2>8, <2>9, StillAsked
  <2> QED
    BY <1>2, <1>4, <2>5, <2>9, <2>10, HoldingType DEF Served, AsAsked
<1> QED
  BY <1>3, <1>4 DEF UpdateUrl

\* A copy with what is asked for leads to an apply, or the ConfigMap is right.
LEMMA PatchServed ==
    ASSUME TypeOK, Patch, Served
    PROVE  Served'
<1>1. rec \in Holding /\ rec.copy \in Copy /\ rec # None /\ rec.step = "patch"
  BY CopiedType, HoldingType DEF Patch, At, Copied, Holding
<1>2. CASE due'
  BY <1>2 DEF Served
<1>3. CASE ~due'
  <2>1. Applied(rec.copy).readable
    BY DEF Applied
  <2>2. /\ rec' = None /\ UNCHANGED <<map, due, known, held>>
        /\ map.url = rec.copy.url /\ map.ca = rec.copy.ca
    <3>1. Applied(rec.copy) # None
      BY <1>1, AppliedType, ConstantsAssumption
    <3> QED
      BY <1>3, <2>1, <3>1 DEF Patch, Retry, Write
  <2>3. known # None => known \in Servers /\ AsAsked(rec.copy, known)
    BY <1>1, <1>3, <2>2 DEF Served, TypeOK
  <2>4. known # None => AsAsked(map, known)'
    BY <2>2, <2>3, StillAsked
  <2> QED
    BY <2>2, <2>4 DEF Served, Present, AsAsked
<1> QED
  BY <1>2, <1>3

\* The ConfigMap, the settings and the reconcile stay; the objects may change.
LEMMA QuietServed ==
    ASSUME TypeOK, Served, UNCHANGED <<map, known, due, rec>>,
           \A o \in Sources : held[o] \subseteq held'[o]
    PROVE  Served'
<1>1. ASSUME known # None
      PROVE  /\ AsAsked(map, known) => AsAsked(map, known)'
             /\ AsAsked(rec.copy, known) => AsAsked(rec.copy, known)'
             /\ CaAsAsked(rec.copy, known) => CaAsAsked(rec.copy, known)'
  <2>1. known \in Servers
    BY <1>1 DEF TypeOK
  <2> QED
    BY <2>1, StillAsked
<1> QED
  BY <1>1 DEF Served, Present

LEMMA BesideServed ==
    ASSUME TypeOK, Served, NEW m, WriteBeside(m), UNCHANGED <<known, held>>
    PROVE  Served'
<1>1. CASE due'
  BY <1>1 DEF Served
<1>2. CASE ~due'
  <2>1. ~due /\ ~Present'
    BY <1>2 DEF WriteBeside, Write, Present
  <2>2. CASE Copied
    <3>1. rec \in Holding /\ rec # None
      BY <2>2, CopiedType, HoldingType
    <3>2. rec' = [rec EXCEPT !.copy.fresh = FALSE] /\ rec' \in Holding
      BY <2>2, OutdatedType DEF WriteBeside
    <3>3. /\ rec'.server = rec.server /\ rec'.step = rec.step
          /\ rec'.copy.url = rec.copy.url /\ rec'.copy.ca = rec.copy.ca
      BY <3>1, <3>2 DEF Holding, Copy
    <3>4. ASSUME known # None
          PROVE  /\ rec.step = "url" => CaAsAsked(rec.copy, known)'
                 /\ rec.step = "patch" => AsAsked(rec.copy, known)'
      <4>1. /\ known \in Servers
            /\ rec.step = "url" => CaAsAsked(rec.copy, known)
            /\ rec.step = "patch" => AsAsked(rec.copy, known)
        BY <2>1, <3>1, <3>4 DEF Served, TypeOK
      <4>2. PICK n : n = rec'.copy
        OBVIOUS
      <4>3. n.url = rec.copy.url /\ n.ca = rec.copy.ca
        BY <3>3, <4>2
      <4>4. /\ rec.step = "url" => CaAsAsked(n, known)'
            /\ rec.step = "patch" => AsAsked(n, known)'
        BY <4>1, <4>3, StillAsked
      <4> QED
        BY <4>2, <4>4 DEF CaAsAsked, AsAsked
    <3>5. known # None => rec'.server = known
      BY <2>1, <3>1, <3>3 DEF Served
    <3>6. rec' # None
      BY <3>2, HoldingType
    <3> QED
      BY <3>3, <3>4, <3>5, <3>6 DEF Served, AsAsked, CaAsAsked
  <2>3. CASE ~Copied
    <3>1. rec' = rec /\ (rec # None => rec.step = "get")
      BY <2>3 DEF WriteBeside, Copied
    <3> QED
      BY <2>1, <3>1 DEF Served
  <2> QED
    BY <2>2, <2>3
<1> QED
  BY <1>1, <1>2

LEMMA NextServed ==
    ASSUME TypeOK, Remembered, Served, [Next]_vars
    PROVE  Served'
<1> USE DEF world
<1>1. ASSUME UNCHANGED <<map, held, known, due, rec>> PROVE Served'
  BY <1>1, QuietServed
<1>2. ASSUME due' \/ known' = None PROVE Served'
  BY <1>2 DEF Served
<1>3. CASE SourceChanges
  <2>1. UNCHANGED <<map, known, due, rec>> /\ \A o \in Sources : held[o] \subseteq held'[o]
    BY <1>3 DEF SourceChanges, TypeOK
  <2> QED
    BY <2>1, QuietServed
<1>4. CASE Environment
  BY <1>1, <1>3, <1>4, BesideServed
  DEF Environment, Edit, HelmWrites, UserWrites, HelmUninstalls
<1>5. CASE Hear
  BY <1>2, <1>5 DEF Hear
<1>6. CASE Start
  <2>1. known # None =>
            LET r == [step |-> "get", server |-> known]
            IN  r # None /\ r.server = known /\ r.step = "get"
    BY ConstantsAssumption DEF TypeOK, Reconcile
  <2> QED
    BY <1>2, <1>6, <2>1 DEF Start, Served
<1>7. CASE GetConfig
  <2>1. CASE Retry
    BY <1>2, <2>1 DEF Retry
  <2>2. CASE ~Retry
    <3>1. /\ rec # None /\ rec.server \in Servers /\ UNCHANGED <<due, known>>
          /\ rec' = [step |-> IF rec.server.kind = "unset" THEN "patch" ELSE "certificate",
                     server |-> rec.server, copy |-> CopyOf(map)]
      BY <1>7, <2>2 DEF GetConfig, At, TypeOK, Reconcile, CopyOf
    <3>2. /\ rec'.server = rec.server
          /\ rec'.step = IF rec.server.kind = "unset" THEN "patch" ELSE "certificate"
      BY <3>1
    <3>3. rec' # None
      BY <1>7, <2>2, ReadType, HoldingType
    <3>4. rec.server.kind = "unset" =>
            AskedCa(rec.server) = None /\ ~Infers(rec.server) /\ ~NamesUrl(rec.server)
      BY DEF AskedCa, Infers, NamesUrl
    <3> QED
      BY <3>1, <3>2, <3>3, <3>4 DEF Served, AsAsked, CaAsAsked
  <2> QED
    BY <2>1, <2>2
<1>8. CASE Fault \/ Restart
  BY <1>2, <1>8 DEF Fault, Retry, Restart
<1>9. CASE UNCHANGED vars
  BY <1>1, <1>9 DEF vars
<1> QED
  BY <1>4, <1>5, <1>6, <1>7, <1>8, <1>9, CertificateServed, UrlServed, PatchServed
  DEF Next, Sync

\* When nothing would start a reconcile any more, URL and CA are of where the settings
\* ask for them, with a text that the object held when the last reconcile began or
\* since: whichever objects came, went and changed, whoever wrote the ConfigMap and
\* whichever calls failed.  (A text that changes after that is not followed:
\* update_certificate and update_url read objects that nobody watches.)
THEOREM NothingForgotten == Spec => []SyncedAtRest
<1>1. Init => Served /\ Remembered
  BY DEF Init, Served, Remembered
<1>2. TypeOK /\ Remembered /\ Served /\ [Next]_vars => Served' /\ Remembered'
  BY NextServed, NextRemembered
<1>3. TypeOK /\ Served => SyncedAtRest
  BY DEF Served, Idle, SyncedAtRest
<1> QED
  BY <1>1, <1>2, <1>3, TypeCorrect, PTL DEF Spec
===============================================================================
