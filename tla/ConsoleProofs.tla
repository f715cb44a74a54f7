--------------------------- MODULE ConsoleProofs ----------------------------
(***************************************************************************)
(* Proofs about Console for any number of threads, runs, files and upsets: *)
(* the inductive invariants of its parts, and from them that               *)
(* requests which overlap lose no target and tell the truth about it       *)
(* (RequestsHold), and that a listing shows what was there and the pages   *)
(* made of one agree about it (ViewsHold: ListingsAreTrue, PagesAgree).    *)
(* That the cap on runs in flight holds is left to the model checker: it   *)
(* does only while the timing ConsoleLaunch states (Prompt) lasts.         *)
(***************************************************************************)
EXTENDS Console, FiniteSetTheorems, WellFoundedInduction, TLAPS

(***************************************************************************)
(* Requests: what a thread holds, and what it knows of the target.         *)
(***************************************************************************)
\* at what step a thread is with which request; a server that may not write has none that
\* does.
RequestAt(h) ==
    /\ at[h] \in {"idle", "parse", "stat", "text", "unlink", "open", "fill", "note", "popen", "pump"}
    /\ at[h] \in {"parse", "stat"} => req[h].kind \in {"target", "targets"}
    /\ at[h] = "text" => req[h].kind = "target" /\ ~Hidden(saw[h])
    /\ at[h] = "unlink" => req[h].kind = "delete"
    /\ at[h] \in {"open", "fill"} => req[h].kind = "put" /\ req[h].yaml \in {"plain", "secret"}
    /\ at[h] \in {"note", "popen"} => req[h].kind = "launch" /\ req[h].plan \in BOOLEAN
    /\ at[h] = "popen" => req[h].run \in Launches
    /\ at[h] = "pump" => req[h].kind = "stream"
    /\ ~allow => at[h] \notin {"unlink", "open", "fill", "note", "popen"}

\* A thread under whom nobody changed the target still knows it.
KnownAt(h) ==
    h \notin touched =>
        /\ at[h] \in {"parse", "stat", "text", "unlink", "note", "popen"} => file # "absent"
        /\ at[h] \in {"stat", "text", "note", "popen"} => file = saw[h]
        /\ at[h] = "open" /\ file # "absent" => req[h].overwrite

\* The type of the requests' state.
RequestType ==
    /\ at = [h \in Threads |-> at[h]] /\ req = [h \in Threads |-> req[h]]
    /\ saw = [h \in Threads |-> saw[h]]
    /\ child \in [Launches -> {"none", "noted", "plan", "spawned", "running", "refused"}]
    /\ asked = [r \in Launches |-> asked[r]] /\ conf = [r \in Launches |-> conf[r]]
    /\ touched \subseteq Threads
\* Every thread's place, and what it knows.
ThreadInv == \A h \in Threads : RequestAt(h) /\ KnownAt(h)

\* A run that was noted is the one thread's that noted it, with the target it checked.
NotedInv ==
    \A h \in Threads : at[h] = "popen" =>
        /\ child[req[h].run] = "noted" /\ asked[req[h].run] = saw[h]
        /\ \A g \in Threads : at[g] = "popen" /\ req[g].run = req[h].run => g = h

\* The asterisks in a target are the editor's; a server that may not write did not.
TargetInv ==
    /\ file = "masked" => masked
    /\ ~allow => touched = {} \/ edited
    /\ ~allow => \A r \in Launches : child[r] = "none"

\* Every thread that pumps holds one slot.
Pumping == {h \in Threads : at[h] = "pump"}
\* A slot is held by a thread that pumps, and by no other.
SlotInv == IsFiniteSet(Pumping) /\ held = Cardinality(Pumping) /\ held <= MAX_STREAMS

\* The inductive invariant of the requests.
RequestInv ==
    /\ RequestType /\ ThreadInv /\ NotedInv /\ TargetInv /\ SlotInv
    /\ AnswersHold /\ RunsGetTheirTarget

(***************************************************************************)
(* Listings: the cache, and what a thread has seen.                        *)
(***************************************************************************)
ListType ==
    /\ version \in [Paths -> Nat] /\ written \in Nat
    /\ step \in [Listers -> {"idle", "stat", "read", "prune", "failed"}]
    /\ DOMAIN cache \subseteq Paths
    /\ live \in [Listers -> SUBSET Paths] /\ found \in [Listers -> SUBSET Paths]
    /\ stale \in [Listers -> SUBSET Paths] /\ key \in [Listers -> Nat]
    /\ rows = [t \in Listers |-> rows[t]] /\ \A t \in Listers : DOMAIN rows[t] \subseteq Paths
    /\ been \in [Listers -> [Paths -> SUBSET Nat]] /\ crossed \subseteq Listers

\* No version is given out twice; and an entry that hits is the content of the file, even
\* if it was read after the file had changed.
CacheInv ==
    /\ \A p \in Paths : version[p] <= written
    /\ \A t \in Listers : step[t] = "read" => live[t] # {} /\ key[t] \in 1 .. written
    /\ \A p \in DOMAIN cache : cache[p][1] \in 1 .. written
    /\ \A p \in DOMAIN cache : cache[p][1] = version[p] => cache[p][2] = version[p]

\* A thread that lists has witnessed the present; what it has not to summarise any more is
\* on its page, or was away for a time.
SeenAt(t) ==
    /\ step[t] # "idle" => \A p \in Paths : version[p] \in been[t][p]
    /\ step[t] = "idle" => rows[t] = << >>
    /\ \A p \in DOMAIN rows[t] : rows[t][p] \in been[t][p]
    /\ step[t] \in {"stat", "read", "prune"} =>
          \A p \in Paths : 0 \notin been[t][p] =>
              p \in DOMAIN rows[t] \/ (step[t] # "prune" /\ p \in live[t])

\* Of two threads that prune at one time both are marked, and an unmarked one finds what it
\* is about to drop.
PruneInv ==
    /\ \A t, u \in Listers : step[t] = "prune" /\ step[u] = "prune" /\ t # u => t \in crossed
    /\ \A t \in Listers : step[t] = "prune" => t \in crossed \/ stale[t] \subseteq DOMAIN cache
    /\ \A t \in Listers : step[t] = "failed" => t \in crossed

\* The inductive invariant of the listings.
ListInv == ListType /\ CacheInv /\ (\A t \in Listers : SeenAt(t)) /\ PruneInv

(***************************************************************************)
(* Pages: what a listing is.                                               *)
(***************************************************************************)
\* A page is made of some number of records.
PageInv == \E n \in Nat : page \in [1 .. n -> Summaries]

\* Requests, listings and pages; a part at rest satisfies its own invariant too.
ConsoleInv == RequestInv /\ ListInv /\ PageInv

(***************************************************************************)
(* Requests.                                                               *)
(***************************************************************************)
\* What _route and its gates let through.
LEMMA AdmittedIs ==
    ASSUME NEW r \in Admitted
    PROVE  /\ r.kind \in Writes => allow
           /\ r.kind = "put" => r.yaml \in {"plain", "secret"}
           /\ r.kind = "launch" => r.plan \in BOOLEAN
<1>1. r \in Arriving /\ ~Refused(r)
  BY DEF Admitted
<1>2. r.kind \in Writes => allow
  BY <1>1 DEF Refused, WriteRefusal
<1>3. r.kind = "put" => r \in Put
  BY <1>1 DEF Arriving, Plain, Launch
<1>4. r.kind = "launch" => r \in Launch
  BY <1>1 DEF Arriving, Plain, Put
<1>5. r.kind = "put" => r.yaml \in {"plain", "secret"}
  BY <1>1, <1>3 DEF Put, Texts, Refused, PutRefusal, Placeholder, Hidden, Loads
<1>6. r.kind = "launch" => r.plan \in BOOLEAN
  BY <1>4 DEF Launch
<1> QED
  BY <1>2, <1>5, <1>6

\* The step of a request thread; what it leaves alone of another thread g: where that one
\* is, and whether it knows that the file was changed under it.
Serves(h) == (\E r \in Admitted : Receive(h, r)) \/ Refuse4xx(h) \/ Handle(h)
Stays(g) ==
    /\ at'[g] = at[g] /\ req'[g] = req[g] /\ saw'[g] = saw[g]
    /\ g \in touched => g \in touched'
    /\ file' # file => at[g] = "idle" \/ g \in touched'

\* The step of a thread touches no other thread's request.
LEMMA OthersStay ==
    ASSUME RequestType, NEW h \in Threads, Serves(h)
    PROVE  allow' = allow /\ \A g \in Threads \ {h} : Stays(g)
<1> USE DEF RequestType, Stays, Reply, Judged, Say, Answers, Go, Rest, Reads, Forget, Begin, Change,
            TakeAway, disk
<1>1. CASE \E r \in Admitted : Receive(h, r)
  BY <1>1 DEF Receive, Find, ListTargets, Check, Validate, Acquire, Cancel
<1>2. CASE Refuse4xx(h) \/ Parse(h) \/ Stat(h) \/ Text(h) \/ Unlink(h)
  BY <1>2 DEF Refuse4xx, Parse, Stat, Text, Unlink
<1>3. CASE Open(h) \/ Fill(h)
  BY <1>3 DEF Open, Fill
<1>4. CASE Note(h) \/ Popen(h) \/ Release(h)
  BY <1>4 DEF Note, Popen, Release
<1> QED
  BY <1>1, <1>2, <1>3, <1>4 DEF Serves, Handle

\* The requests' type is inductive.
LEMMA RequestTypeStep == RequestInv /\ RequestNext => RequestType'
<1> SUFFICES ASSUME RequestInv, RequestNext PROVE RequestType'
  OBVIOUS
<1> USE DEF RequestInv, RequestType, Reply, Judged, Say, Answers, Go, Rest, Reads, Forget, Begin,
            Change, TakeAway, disk, launched
<1>1. ASSUME NEW h \in Threads, NEW r \in Admitted, Receive(h, r) PROVE RequestType'
  BY <1>1 DEF Receive, Find, ListTargets, Check, Validate, Acquire, Cancel
<1>2. ASSUME NEW h \in Threads, Refuse4xx(h) \/ Parse(h) \/ Stat(h) \/ Text(h) \/ Unlink(h)
      PROVE  RequestType'
  BY <1>2 DEF Refuse4xx, Parse, Stat, Text, Unlink
<1>3. ASSUME NEW h \in Threads, Open(h) \/ Fill(h) PROVE RequestType'
  BY <1>3 DEF Open, Fill
<1>4. ASSUME NEW h \in Threads, Note(h) PROVE RequestType'
  BY <1>4 DEF Note
<1>5. ASSUME NEW h \in Threads, Popen(h) PROVE RequestType'
  <2>1. req[h].run \in Launches => child' \in
           [Launches -> {"none", "noted", "plan", "spawned", "running", "refused"}]
    BY <1>5 DEF Popen
  <2> QED
    BY <1>5, <2>1 DEF Popen, ThreadInv, RequestAt
<1>6. ASSUME NEW h \in Threads, Release(h) PROVE RequestType'
  BY <1>6 DEF Release
<1>7. CASE Edit
  BY <1>7 DEF Edit
<1>8. ASSUME NEW r \in Launches, ChildReads(r) PROVE RequestType'
  BY <1>8 DEF ChildReads
<1> QED
  BY <1>1, <1>2, <1>3, <1>4, <1>5, <1>6, <1>7, <1>8 DEF RequestNext, Handle

\* The thread that takes the step, action by action; the others stay.
LEMMA ThreadStep == RequestInv /\ RequestNext => ThreadInv'
<1> SUFFICES ASSUME RequestInv, RequestNext PROVE ThreadInv'
  OBVIOUS
<1>0. RequestType /\ ThreadInv
  BY DEF RequestInv
<1>1. ASSUME NEW g \in Threads, Stays(g), allow' = allow PROVE RequestAt(g)' /\ KnownAt(g)'
  <2>1. RequestAt(g) /\ KnownAt(g)
    BY <1>0 DEF ThreadInv
  <2>2. RequestAt(g)'
    BY <1>1, <2>1 DEF Stays, RequestAt
  <2>3. KnownAt(g)'
    BY <1>1, <2>1 DEF Stays, KnownAt
  <2> QED
    BY <2>2, <2>3
<1>2. ASSUME NEW h \in Threads, Serves(h) PROVE RequestAt(h)' /\ KnownAt(h)'
  <2>0. RequestAt(h) /\ KnownAt(h) /\ allow' = allow
    BY <1>0, <1>2, OthersStay DEF ThreadInv
  <2> USE <2>0 DEF RequestType, RequestAt, KnownAt, Reply, Judged, Say, Answers, Go, Rest, Reads,
                   Forget, Begin, Change, TakeAway, disk, launched
  <2>1. ASSUME NEW r \in Admitted, Find(h, r) \/ ListTargets(h, r) \/ Cancel(h, r)
        PROVE  RequestAt(h)' /\ KnownAt(h)'
    BY <1>0, <2>1, AdmittedIs DEF Find, ListTargets, Cancel, Accepts, Writes
  <2>2. ASSUME NEW r \in Admitted, Check(h, r) \/ Validate(h, r) \/ Acquire(h, r)
        PROVE  RequestAt(h)' /\ KnownAt(h)'
    BY <1>0, <2>2, AdmittedIs DEF Check, Validate, Acquire, Accepts, Writes
  <2>3. CASE Refuse4xx(h) \/ Parse(h) \/ Stat(h) \/ Text(h)
    BY <1>0, <2>3 DEF Refuse4xx, Parse, Stat, Text
  <2>4. ASSUME at'[h] = "idle" PROVE RequestAt(h)' /\ KnownAt(h)'
    BY <2>4
  <2>5. CASE Unlink(h) \/ Fill(h)
    BY <1>0, <2>4, <2>5 DEF Unlink, Fill
  <2>6. CASE Popen(h) \/ Release(h)
    BY <1>0, <2>4, <2>6 DEF Popen, Release
  <2>7. CASE Open(h)
    <3>1. at'[h] = "idle" \/ (at'[h] = "fill" /\ req'[h] = [kind |-> "put", yaml |-> req[h].yaml])
      BY <1>0, <2>7 DEF Open
    <3>2. at[h] = "open"
      BY <2>7 DEF Open
    <3> QED
      BY <2>4, <3>1, <3>2
  <2>8. CASE Note(h)
    BY <1>0, <2>8 DEF Note
  <2> QED
    BY <1>2, <2>1, <2>2, <2>3, <2>5, <2>6, <2>7, <2>8 DEF Serves, Receive, Handle
<1>3. ASSUME NEW h \in Threads, Serves(h) PROVE ThreadInv'
  <2>1. allow' = allow /\ \A g \in Threads \ {h} : Stays(g)
    BY <1>0, <1>3, OthersStay
  <2>2. RequestAt(h)' /\ KnownAt(h)'
    BY <1>2, <1>3
  <2>3. \A g \in Threads \ {h} : RequestAt(g)' /\ KnownAt(g)'
    BY <1>1, <2>1
  <2> QED
    BY <2>2, <2>3 DEF ThreadInv
<1>4. ASSUME allow' = allow, \A g \in Threads : Stays(g) PROVE ThreadInv'
  BY <1>1, <1>4 DEF ThreadInv
<1>5. CASE Edit
  BY <1>4, <1>5 DEF Edit, Stays, TakeAway, Change
<1>6. ASSUME NEW r \in Launches, ChildReads(r) PROVE ThreadInv'
  BY <1>4, <1>6 DEF ChildReads, Stays, disk
<1> QED
  BY <1>3, <1>5, <1>6 DEF RequestNext, Serves

\* A noted run has one thread, until that thread has started its process.
LEMMA NotedStep == RequestInv /\ RequestNext => NotedInv'
<1> SUFFICES ASSUME RequestInv, RequestNext PROVE NotedInv'
  OBVIOUS
<1>0. RequestType /\ ThreadInv /\ NotedInv
  BY DEF RequestInv
<1>1. ASSUME NEW h \in Threads, Serves(h), at'[h] # "popen",
             \A g \in Threads \ {h} : at[g] = "popen" =>
                child'[req[g].run] = child[req[g].run] /\ asked'[req[g].run] = asked[req[g].run]
      PROVE  NotedInv'
  <2>1. \A g \in Threads \ {h} : Stays(g)
    BY <1>0, <1>1, OthersStay
  <2> QED
    BY <1>0, <1>1, <2>1 DEF Stays, NotedInv
<1> USE DEF Reply, Judged, Say, Answers, Go, Reads, Forget, Begin, launched
<1>2. ASSUME NEW h \in Threads, NEW r \in Admitted, Receive(h, r) PROVE NotedInv'
  <2>1. at'[h] # "popen" /\ UNCHANGED <<child, asked>>
    BY <1>0, <1>2 DEF Receive, Find, ListTargets, Check, Validate, Acquire, Cancel, RequestType
  <2> QED
    BY <1>1, <1>2, <2>1 DEF Serves
<1>3. ASSUME NEW h \in Threads, Refuse4xx(h) \/ Parse(h) \/ Stat(h) \/ Text(h) \/ Unlink(h)
      PROVE  NotedInv'
  <2>1. at'[h] # "popen" /\ UNCHANGED <<child, asked>>
    BY <1>0, <1>3 DEF Refuse4xx, Parse, Stat, Text, Unlink, RequestType
  <2> QED
    BY <1>1, <1>3, <2>1 DEF Serves, Handle
<1>4. ASSUME NEW h \in Threads, Open(h) \/ Fill(h) \/ Release(h) PROVE NotedInv'
  <2>1. at'[h] # "popen" /\ UNCHANGED <<child, asked>>
    BY <1>0, <1>4 DEF Open, Fill, Release, RequestType
  <2> QED
    BY <1>1, <1>4, <2>1 DEF Serves, Handle
<1>5. ASSUME NEW h \in Threads, Note(h) PROVE NotedInv'
  <2>1. CASE at'[h] = "idle"
    <3>1. UNCHANGED <<child, asked>>
      BY <1>0, <1>5, <2>1 DEF Note, RequestType
    <3> QED
      BY <1>1, <1>5, <2>1, <3>1 DEF Serves, Handle
  <2>2. CASE at'[h] = "popen"
    <3>1. PICK r \in Launches :
            /\ child[r] = "none" /\ child' = [child EXCEPT ![r] = "noted"]
            /\ asked' = [asked EXCEPT ![r] = saw[h]]
            /\ req' = [req EXCEPT ![h] = [kind |-> "launch", plan |-> req[h].plan, run |-> r]]
      BY <1>0, <1>5, <2>2 DEF Note, RequestType
    <3>2. \A g \in Threads \ {h} : Stays(g)
      BY <1>0, <1>5, OthersStay DEF Serves, Handle
    <3>3. \A g \in Threads \ {h} : at[g] = "popen" => req[g].run # r
      BY <1>0, <3>1 DEF NotedInv
    <3>4. saw'[h] = saw[h] /\ req'[h].run = r /\ child'[r] = "noted" /\ asked'[r] = saw[h]
      BY <1>0, <1>5, <2>2, <3>1 DEF Note, RequestType
    <3>5. \A q \in Launches \ {r} : child'[q] = child[q] /\ asked'[q] = asked[q]
      BY <1>0, <3>1 DEF RequestType
    <3>6. \A g \in Threads : at[g] = "popen" => req[g].run \in Launches
      BY <1>0 DEF ThreadInv, RequestAt
    <3> QED
      BY <1>0, <3>2, <3>3, <3>4, <3>5, <3>6 DEF NotedInv, Stays
  <2> QED
    BY <1>0, <1>5, <2>1, <2>2 DEF Note, RequestType
<1>6. ASSUME NEW h \in Threads, Popen(h) PROVE NotedInv'
  <2>1. at'[h] # "popen" /\ asked' = asked /\ at[h] = "popen" /\ req[h].run \in Launches
    BY <1>0, <1>6 DEF Popen, RequestType, ThreadInv, RequestAt
  <2>2. \A q \in Launches \ {req[h].run} : child'[q] = child[q]
    BY <1>0, <1>6 DEF Popen, RequestType
  <2>3. \A g \in Threads \ {h} : at[g] = "popen" =>
            req[g].run \in Launches /\ req[g].run # req[h].run
    BY <1>0, <2>1 DEF NotedInv, ThreadInv, RequestAt
  <2> QED
    BY <1>1, <1>6, <2>1, <2>2, <2>3 DEF Serves, Handle
<1>7. CASE Edit
  BY <1>0, <1>7 DEF Edit, NotedInv
<1>8. ASSUME NEW r \in Launches, ChildReads(r) PROVE NotedInv'
  <2>1. child[r] # "noted" /\ \A q \in Launches \ {r} : child'[q] = child[q] /\ asked'[q] = asked[q]
    BY <1>0, <1>8 DEF ChildReads, RequestType
  <2>2. UNCHANGED <<at, req, saw>>
    BY <1>8 DEF ChildReads
  <2>3. \A g \in Threads : at[g] = "popen" => req[g].run \in Launches \ {r}
    BY <1>0, <2>1 DEF NotedInv, ThreadInv, RequestAt
  <2> QED
    BY <1>0, <2>1, <2>2, <2>3 DEF NotedInv
<1> QED
  BY <1>2, <1>3, <1>4, <1>5, <1>6, <1>7, <1>8 DEF RequestNext, Handle

\* TargetsAreKept but for the thread's part: asterisks come from the editor alone, and a
\* server that may not write changes nothing.
LEMMA TargetStep == RequestInv /\ RequestNext => TargetInv'
<1> SUFFICES ASSUME RequestInv, RequestNext PROVE TargetInv'
  OBVIOUS
<1>0. RequestType /\ ThreadInv /\ TargetInv
  BY DEF RequestInv
<1>1. ASSUME touched' \subseteq touched, UNCHANGED <<allow, file, child, edited, masked>>
      PROVE  TargetInv'
  BY <1>0, <1>1 DEF TargetInv
<1> USE DEF Rest, Reads, Forget, disk, launched
<1>2. ASSUME NEW h \in Threads, NEW r \in Admitted, Receive(h, r) PROVE TargetInv'
  BY <1>1, <1>2 DEF Receive, Find, ListTargets, Check, Validate, Acquire, Cancel
<1>3. ASSUME NEW h \in Threads, Refuse4xx(h) \/ Parse(h) \/ Stat(h) \/ Text(h) \/ Release(h)
      PROVE  TargetInv'
  BY <1>1, <1>3 DEF Refuse4xx, Parse, Stat, Text, Release
<1>4. ASSUME NEW h \in Threads, at[h] \in {"unlink", "open", "fill", "note", "popen"},
             allow' = allow, edited' = edited, masked' = masked, file' = "masked" => file = "masked"
      PROVE  TargetInv'
  BY <1>0, <1>4 DEF TargetInv, ThreadInv, RequestAt
<1>5. ASSUME NEW h \in Threads, Unlink(h) \/ Note(h) \/ Popen(h) PROVE TargetInv'
  BY <1>4, <1>5 DEF Unlink, Note, Popen, TakeAway, Change
<1>6. ASSUME NEW h \in Threads, Open(h) \/ Fill(h) PROVE TargetInv'
  <2>1. req[h].yaml # "masked" \/ at[h] \notin {"open", "fill"}
    BY <1>0 DEF ThreadInv, RequestAt
  <2> QED
    BY <1>4, <1>6, <2>1 DEF Open, Fill, Change
<1>7. CASE Edit
  BY <1>0, <1>7 DEF Edit, TargetInv, TakeAway, Change
<1>8. ASSUME NEW r \in Launches, ChildReads(r) PROVE TargetInv'
  BY <1>0, <1>8 DEF ChildReads, TargetInv
<1> QED
  BY <1>2, <1>3, <1>5, <1>6, <1>7, <1>8 DEF RequestNext, Handle

\* _StreamSlots: a slot is taken and given back with the step that begins or ends a stream.
LEMMA SlotStep == RequestInv /\ RequestNext => SlotInv'
<1> SUFFICES ASSUME RequestInv, RequestNext PROVE SlotInv'
  OBVIOUS
<1>0. RequestType /\ SlotInv /\ MAX_STREAMS \in Nat
  BY DEF RequestInv, MAX_STREAMS
<1>1. held \in Nat /\ Cardinality(Pumping) \in Nat
  BY <1>0, FS_CardinalityType DEF SlotInv
<1>2. ASSUME held' = held, \A g \in Threads : at'[g] = "pump" <=> at[g] = "pump" PROVE SlotInv'
  <2>1. Pumping' = Pumping
    BY <1>2 DEF Pumping
  <2> QED
    BY <1>0, <1>2, <2>1 DEF SlotInv
<1>3. ASSUME NEW h \in Threads, at[h] # "pump", at'[h] # "pump", held' = held, Serves(h)
      PROVE  SlotInv'
  BY <1>0, <1>2, <1>3, OthersStay DEF Stays
<1> USE DEF Reply, Judged, Say, Answers, Go, Reads, Forget, Begin
<1>4. ASSUME NEW h \in Threads, NEW r \in Admitted, Receive(h, r), ~Acquire(h, r) PROVE SlotInv'
  <2>1. at[h] # "pump" /\ at'[h] # "pump" /\ held' = held
    BY <1>0, <1>4 DEF Receive, Accepts, Find, ListTargets, Check, Validate, Cancel, RequestType
  <2> QED
    BY <1>3, <1>4, <2>1 DEF Serves
<1>5. ASSUME NEW h \in Threads, NEW r \in Admitted, Acquire(h, r) PROVE SlotInv'
  <2>1. \A g \in Threads \ {h} : at'[g] = at[g]
    BY <1>0, <1>5, OthersStay DEF Serves, Receive, Stays
  <2>2. CASE held >= MAX_STREAMS
    <3>1. at[h] = "idle" /\ at'[h] = "idle" /\ held' = held
      BY <1>0, <1>5, <2>2 DEF Acquire, Accepts, RequestType
    <3> QED
      BY <1>2, <2>1, <3>1
  <2>3. CASE ~(held >= MAX_STREAMS)
    <3>1. at[h] = "idle" /\ at'[h] = "pump" /\ held' = held + 1
      BY <1>0, <1>5, <2>3 DEF Acquire, Accepts, RequestType
    <3>2. Pumping' = Pumping \cup {h} /\ h \notin Pumping
      BY <2>1, <3>1 DEF Pumping
    <3>3. IsFiniteSet(Pumping') /\ Cardinality(Pumping') = Cardinality(Pumping) + 1
      BY <1>0, <3>2, FS_AddElement DEF SlotInv
    <3> QED
      BY <1>0, <1>1, <2>3, <3>1, <3>3 DEF SlotInv
  <2> QED
    BY <2>2, <2>3
<1>6. ASSUME NEW h \in Threads, Release(h) PROVE SlotInv'
  <2>1. \A g \in Threads \ {h} : at'[g] = at[g]
    BY <1>0, <1>6, OthersStay DEF Serves, Handle, Stays
  <2>2. at[h] = "pump" /\ at'[h] = "idle"
    BY <1>0, <1>6 DEF Release, RequestType
  <2>3. Pumping' = Pumping \ {h} /\ h \in Pumping
    BY <2>1, <2>2 DEF Pumping
  <2>4. IsFiniteSet(Pumping') /\ Cardinality(Pumping') = Cardinality(Pumping) - 1
    BY <1>0, <2>3, FS_RemoveElement DEF SlotInv
  <2>5. Cardinality(Pumping') \in Nat
    BY <2>4, FS_CardinalityType
  <2>6. held > 0
    BY <1>0, <1>1, <2>4, <2>5 DEF SlotInv
  <2>7. held' = held - 1
    BY <1>6, <2>6 DEF Release
  <2> QED
    BY <1>0, <1>1, <2>4, <2>7 DEF SlotInv
<1>7. ASSUME NEW h \in Threads, Refuse4xx(h) \/ Parse(h) \/ Stat(h) \/ Text(h) \/ Unlink(h)
      PROVE  SlotInv'
  <2>1. at[h] # "pump" /\ at'[h] # "pump" /\ held' = held
    BY <1>0, <1>7 DEF Refuse4xx, Parse, Stat, Text, Unlink, RequestType
  <2> QED
    BY <1>3, <1>7, <2>1 DEF Serves, Handle
<1>8. ASSUME NEW h \in Threads, Open(h) \/ Fill(h) \/ Note(h) \/ Popen(h) PROVE SlotInv'
  <2>1. at[h] # "pump" /\ at'[h] # "pump" /\ held' = held
    BY <1>0, <1>8 DEF Open, Fill, Note, Popen, RequestType
  <2> QED
    BY <1>3, <1>8, <2>1 DEF Serves, Handle
<1>9. CASE Edit
  BY <1>2, <1>9 DEF Edit
<1>10. ASSUME NEW r \in Launches, ChildReads(r) PROVE SlotInv'
  BY <1>2, <1>10 DEF ChildReads
<1> QED
  BY <1>4, <1>5, <1>6, <1>7, <1>8, <1>9, <1>10 DEF RequestNext, Handle

\* Only Text, of a file that is as it was parsed, answers with a text; and a request about
\* the target fails only after a change.
LEMMA AnswersStep == RequestInv /\ RequestNext => AnswersHold'
<1> SUFFICES ASSUME RequestInv, RequestNext PROVE AnswersHold'
  OBVIOUS
<1>0. ThreadInv
  BY DEF RequestInv
<1>1. ASSUME answer' = Nothing \/ answer'.kind \in {"put", "launch", "stream", "cancel"}
      PROVE  AnswersHold'
  BY <1>1 DEF AnswersHold, Nothing
<1> USE DEF Reply, Judged, Say, Answers, Go, Silent, Begin
<1>2. ASSUME NEW h \in Threads, NEW r \in Admitted, Receive(h, r) PROVE AnswersHold'
  BY <1>1, <1>2 DEF Receive, Find, ListTargets, Check, Validate, Acquire, Cancel, Accepts
<1>3. ASSUME NEW h \in Threads, Refuse4xx(h) \/ Parse(h) \/ Note(h) \/ Popen(h) PROVE AnswersHold'
  BY <1>0, <1>1, <1>3 DEF Refuse4xx, Parse, Note, Popen, ThreadInv, RequestAt
<1>4. ASSUME NEW h \in Threads, Stat(h) \/ Unlink(h) PROVE AnswersHold'
  BY <1>0, <1>1, <1>4 DEF Stat, Unlink, ThreadInv, KnownAt
<1>5. ASSUME NEW h \in Threads, Text(h) PROVE AnswersHold'
  <2>1. h \notin touched => file # "absent" /\ file = saw[h] /\ ~Hidden(saw[h])
    BY <1>0, <1>5 DEF Text, ThreadInv, RequestAt, KnownAt
  <2>2. CASE h \in touched
    BY <1>1, <1>5, <2>2 DEF Text
  <2>3. CASE h \notin touched
    <3>1. file' = file /\ req[h].kind = "target"
      BY <1>0, <1>5 DEF Text, ThreadInv, RequestAt, Reads
    <3>2. CASE file = "bytes"
      <4>1. answer' = [kind |-> "target", status |-> 500]
        BY <1>5, <2>3, <3>1, <3>2 DEF Text
      <4> QED
        BY <3>1, <3>2, <4>1 DEF AnswersHold
    <3>3. CASE file # "bytes"
      <4>1. answer' = [kind |-> "text", data |-> file, yaml |-> file]
        BY <1>5, <2>1, <2>3, <3>3 DEF Text
      <4> QED
        BY <2>1, <2>3, <3>3, <4>1 DEF AnswersHold, Revealing, Hidden, Loads
    <3> QED
      BY <3>2, <3>3
  <2> QED
    BY <2>2, <2>3
<1>6. ASSUME NEW h \in Threads, Open(h) \/ Fill(h) \/ Release(h) PROVE AnswersHold'
  BY <1>0, <1>1, <1>6 DEF Open, Fill, Release, ThreadInv, RequestAt
<1>7. CASE Edit
  BY <1>1, <1>7 DEF Edit
<1>8. ASSUME NEW r \in Launches, ChildReads(r) PROVE AnswersHold'
  BY <1>1, <1>8 DEF ChildReads
<1> QED
  BY <1>2, <1>3, <1>4, <1>5, <1>6, <1>7, <1>8 DEF RequestNext, Handle

\* A spawned run's target is as it was checked, or the run is among those that moved.
LEMMA RunsStep == RequestInv /\ RequestNext => RunsGetTheirTarget'
<1> SUFFICES ASSUME RequestInv, RequestNext PROVE RunsGetTheirTarget'
  OBVIOUS
<1>0. RequestType /\ ThreadInv /\ NotedInv /\ RunsGetTheirTarget
  BY DEF RequestInv
<1>1. ASSUME UNCHANGED <<child, asked, conf>>,
             (UNCHANGED <<file, moved>>) \/ \E by : Change(by, file')
      PROVE  RunsGetTheirTarget'
  BY <1>0, <1>1 DEF RunsGetTheirTarget, Change
<1> USE DEF Reads, disk, launched
<1>2. ASSUME NEW h \in Threads, NEW r \in Admitted, Receive(h, r) PROVE RunsGetTheirTarget'
  BY <1>1, <1>2 DEF Receive, Find, ListTargets, Check, Validate, Acquire, Cancel
<1>3. ASSUME NEW h \in Threads, Refuse4xx(h) \/ Parse(h) \/ Stat(h) \/ Text(h) \/ Release(h)
      PROVE  RunsGetTheirTarget'
  BY <1>1, <1>3 DEF Refuse4xx, Parse, Stat, Text, Release
<1>4. ASSUME NEW h \in Threads, Unlink(h) \/ Open(h) \/ Fill(h) PROVE RunsGetTheirTarget'
  BY <1>1, <1>4 DEF Unlink, Open, Fill, TakeAway, Change
<1>5. ASSUME NEW h \in Threads, Note(h) PROVE RunsGetTheirTarget'
  <2>1. /\ UNCHANGED <<file, moved, conf>>
        /\ \A q \in Launches : \/ child'[q] = child[q] /\ asked'[q] = asked[q]
                               \/ child'[q] = "noted"
    BY <1>0, <1>5 DEF Note, RequestType
  <2> QED
    BY <1>0, <2>1 DEF RunsGetTheirTarget
<1>6. ASSUME NEW h \in Threads, Popen(h) PROVE RunsGetTheirTarget'
  <2> DEFINE r == req[h].run
  <2>1. r \in Launches /\ child[r] = "noted" /\ asked[r] = saw[h] /\ (h \notin touched => file = saw[h])
    BY <1>0, <1>6 DEF Popen, ThreadInv, RequestAt, KnownAt, NotedInv
  <2>2. UNCHANGED <<file, asked, conf>> /\ moved \subseteq moved'
    BY <1>6 DEF Popen
  <2>3. \A q \in Launches \ {r} : child'[q] = child[q]
    BY <1>0, <1>6 DEF Popen, RequestType
  <2>4. child'[r] = "spawned" /\ h \in touched => r \in moved'
    BY <1>0, <1>6, <2>1 DEF Popen, RequestType
  <2>5. child'[r] # "running"
    BY <1>0, <1>6, <2>1 DEF Popen, RequestType
  <2> QED
    BY <1>0, <2>1, <2>2, <2>3, <2>4, <2>5 DEF RunsGetTheirTarget
<1>7. CASE Edit
  BY <1>1, <1>7 DEF Edit, TakeAway, Change
<1>8. ASSUME NEW r \in Launches, ChildReads(r) PROVE RunsGetTheirTarget'
  <2>1. UNCHANGED <<file, moved>> /\ \A q \in Launches \ {r} :
           child'[q] = child[q] /\ asked'[q] = asked[q] /\ conf'[q] = conf[q]
    BY <1>0, <1>8 DEF ChildReads, RequestType
  <2>2. child'[r] \in {"running", "refused"}
    BY <1>0, <1>8 DEF ChildReads, RequestType
  <2>3. child'[r] = "running" /\ r \notin moved => conf'[r] = "same"
    BY <1>0, <1>8 DEF ChildReads, RequestType, RunsGetTheirTarget
  <2> QED
    BY <1>0, <2>1, <2>2, <2>3 DEF RunsGetTheirTarget
<1> QED
  BY <1>2, <1>3, <1>4, <1>5, <1>6, <1>7, <1>8 DEF RequestNext, Handle

\* Every step of a request, an editor or a child keeps the invariant of the requests ...
LEMMA RequestStep == RequestInv /\ RequestNext => RequestInv'
  BY RequestTypeStep, ThreadStep, NotedStep, TargetStep, SlotStep, AnswersStep, RunsStep DEF
      RequestInv

\* ... which holds when requests begin, and while none is made.
LEMMA RequestStart ==
    ASSUME \/ RequestInit
           \/ RequestsAtRest
    PROVE  RequestInv
<1>1. /\ at = [h \in Threads |-> "idle"] /\ req = [h \in Threads |-> Nothing]
      /\ saw = [h \in Threads |-> "absent"] /\ touched = {} /\ file # "masked"
      /\ answer = Nothing /\ child = [r \in Launches |-> "none"]
      /\ asked = [r \in Launches |-> "absent"] /\ conf = [r \in Launches |-> "unread"] /\ held = 0
  BY DEF RequestInit, RequestsAtRest
<1>2. Pumping = {}
  BY <1>1 DEF Pumping
<1>3. SlotInv
  BY <1>1, <1>2, FS_EmptySet DEF SlotInv, MAX_STREAMS
<1>4. RequestType /\ ThreadInv /\ NotedInv
  BY <1>1 DEF RequestType, ThreadInv, RequestAt, KnownAt, NotedInv
<1>5. TargetInv /\ AnswersHold /\ RunsGetTheirTarget
  BY <1>1 DEF TargetInv, AnswersHold, RunsGetTheirTarget, Nothing
<1> QED
  BY <1>3, <1>4, <1>5 DEF RequestInv

(***************************************************************************)
(* Listings.                                                               *)
(***************************************************************************)
\* Listings begin with an empty cache, and so they rest.
LEMMA ListStart ==
    ASSUME \/ ListInit
           \/ ListsAtRest
    PROVE  ListInv
<1>1. /\ version \in [Paths -> {0, 1}] /\ written \in Nat /\ \A p \in Paths : version[p] <= written
      /\ cache = << >> /\ step = [t \in Listers |-> "idle"]
      /\ live = [t \in Listers |-> {}] /\ found = live /\ stale = live
      /\ key = [t \in Listers |-> 0] /\ rows = [t \in Listers |-> << >>]
      /\ been = [t \in Listers |-> [p \in Paths |-> {}]] /\ crossed = {}
  BY DEF ListInit, ListsAtRest
<1>2. DOMAIN << >> = {}
  OBVIOUS
<1>3. ListType
  BY <1>1, <1>2 DEF ListType
<1>4. CacheInv /\ PruneInv
  BY <1>1, <1>2 DEF CacheInv, PruneInv
<1>5. \A t \in Listers : SeenAt(t)
  BY <1>1, <1>2 DEF SeenAt
<1> QED
  BY <1>3, <1>4, <1>5 DEF ListInv

\* The file a thread is at is one it has found.
LEMMA AtIs == \A t \in Listers : ListType /\ live[t] # {} => At(t) \in live[t] /\ At(t) \in Paths
  BY DEF ListType, At

\* A row added for a summary: none for a file without one.
LEMMA AddIs ==
    ASSUME NEW t \in Listers, NEW p, NEW s, Add(t, p, s), rows = [u \in Listers |-> rows[u]]
    PROVE  /\ rows' = [u \in Listers |-> rows'[u]]
           /\ \A u \in Listers \ {t} : rows'[u] = rows[u]
           /\ s = 0 => rows'[t] = rows[t]
           /\ s # 0 => /\ DOMAIN rows'[t] = DOMAIN rows[t] \cup {p}
                       /\ rows'[t][p] = s
                       /\ \A q \in DOMAIN rows[t] \ {p} : rows'[t][q] = rows[t][q]
<1>1. rows' = [rows EXCEPT ![t] = IF s = 0 THEN rows[t] ELSE With(rows[t], p, s)]
  BY DEF Add
<1>2. rows' = [u \in Listers |-> rows'[u]] /\ \A u \in Listers \ {t} : rows'[u] = rows[u]
  BY <1>1
<1>3. s = 0 => rows'[t] = rows[t]
  BY <1>1
<1>4. s # 0 => rows'[t] = With(rows[t], p, s)
  BY <1>1
<1>5. /\ DOMAIN With(rows[t], p, s) = DOMAIN rows[t] \cup {p}
      /\ With(rows[t], p, s)[p] = s
      /\ \A q \in DOMAIN rows[t] \ {p} : With(rows[t], p, s)[q] = rows[t][q]
  BY DEF With
<1> QED
  BY <1>2, <1>3, <1>4, <1>5

\* The listings' type is inductive.
LEMMA ListTypeStep == ListInv /\ ViewNext => ListType'
<1> SUFFICES ASSUME ListInv, ViewNext PROVE ListType'
  OBVIOUS
<1> USE DEF ListInv, ListType
<1>1. ASSUME NEW t \in Listers, Walk(t) PROVE ListType'
  <2>1. rows' = [u \in Listers |-> rows'[u]] /\ \A u \in Listers : DOMAIN rows'[u] \subseteq Paths
    <3>1. rows'[t] = << >> /\ DOMAIN << >> = {}
      BY <1>1 DEF Walk
    <3> QED
      BY <1>1, <3>1 DEF Walk
  <2>2. been' \in [Listers -> [Paths -> SUBSET Nat]]
    <3>1. [p \in Paths |-> {version[p]}] \in [Paths -> SUBSET Nat]
      OBVIOUS
    <3> QED
      BY <1>1, <3>1 DEF Walk
  <2>3. live' \in [Listers -> SUBSET Paths] /\ found' \in [Listers -> SUBSET Paths]
        /\ step' \in [Listers -> {"idle", "stat", "read", "prune", "failed"}]
    BY <1>1 DEF Walk, Present
  <2> QED
    BY <1>1, <2>1, <2>2, <2>3 DEF Walk
<1>2. ASSUME NEW t \in Listers, Measure(t) PROVE ListType'
  <2> DEFINE p == At(t)
  <2>1. p \in live[t] /\ p \in Paths
    BY <1>2, AtIs DEF Measure
  <2>2. live' \in [Listers -> SUBSET Paths] /\ key' \in [Listers -> Nat]
    <3>1. UNCHANGED live \/ Drop(t, p)
      BY <1>2 DEF Measure
    <3>2. UNCHANGED key \/ key' = [key EXCEPT ![t] = version[p]]
      BY <1>2 DEF Measure
    <3> QED
      BY <2>1, <3>1, <3>2 DEF Drop
  <2>3. step' \in [Listers -> {"idle", "stat", "read", "prune", "failed"}]
    BY <1>2 DEF Measure
  <2>4. rows' = [u \in Listers |-> rows'[u]] /\ \A u \in Listers : DOMAIN rows'[u] \subseteq Paths
    <3>1. UNCHANGED rows \/ Add(t, p, cache[p][2])
      BY <1>2 DEF Measure
    <3> QED
      BY <2>1, <3>1, AddIs
  <2> QED
    BY <1>2, <2>2, <2>3, <2>4 DEF Measure
<1>3. ASSUME NEW t \in Listers, Read(t) PROVE ListType'
  <2> DEFINE p == At(t)
  <2>1. p \in live[t] /\ p \in Paths
    BY <1>3, AtIs DEF Read, CacheInv
  <2>2. DOMAIN cache' \subseteq Paths
    <3>1. cache' = With(cache, p, <<key[t], version[p]>>)
      BY <1>3 DEF Read
    <3>2. DOMAIN cache' = DOMAIN cache \cup {p}
      BY <3>1 DEF With
    <3> QED
      BY <2>1, <3>2
  <2>3. live' \in [Listers -> SUBSET Paths] /\ key' \in [Listers -> Nat]
        /\ step' \in [Listers -> {"idle", "stat", "read", "prune", "failed"}]
    BY <1>3 DEF Read, Drop
  <2>4. rows' = [u \in Listers |-> rows'[u]] /\ \A u \in Listers : DOMAIN rows'[u] \subseteq Paths
    <3>1. Add(t, p, version[p])
      BY <1>3 DEF Read
    <3>2. rows' = [u \in Listers |-> rows'[u]] /\ \A u \in Listers \ {t} : rows'[u] = rows[u]
      BY <3>1, AddIs
    <3>3. rows'[t] = rows[t] \/ DOMAIN rows'[t] = DOMAIN rows[t] \cup {p}
      BY <3>1, AddIs
    <3> QED
      BY <2>1, <3>2, <3>3
  <2> QED
    BY <1>3, <2>2, <2>3, <2>4 DEF Read
<1>4. ASSUME NEW t \in Listers, Prune(t) PROVE ListType'
  BY <1>4 DEF Prune
<1>5. ASSUME NEW t \in Listers, Delete(t) PROVE ListType'
  <2>1. DOMAIN cache' \subseteq DOMAIN cache
    <3>1. cache' = cache \/ \E p \in stale[t] : cache' = Without(cache, p)
      BY <1>5 DEF Delete
    <3> QED
      BY <3>1 DEF Without
  <2>2. stale' \in [Listers -> SUBSET Paths]
        /\ step' \in [Listers -> {"idle", "stat", "read", "prune", "failed"}]
    <3>1. step' = step \/ step' = [step EXCEPT ![t] = "failed"]
      BY <1>5 DEF Delete
    <3>2. \E S \in SUBSET stale[t] : stale' = [stale EXCEPT ![t] = S]
      <4>1. \/ \E p \in stale[t] : stale' = [stale EXCEPT ![t] = stale[t] \ {p}]
            \/ stale' = [stale EXCEPT ![t] = {}]
        BY <1>5 DEF Delete
      <4> QED
        BY <4>1
    <3> QED
      BY <3>1, <3>2
  <2>3. rows' = [u \in Listers |-> rows'[u]] /\ \A u \in Listers : DOMAIN rows'[u] \subseteq Paths
    <3>1. rows' = rows \/ rows' = [rows EXCEPT ![t] = << >>]
      BY <1>5 DEF Delete
    <3>2. DOMAIN << >> = {}
      OBVIOUS
    <3> QED
      BY <3>1, <3>2
  <2> QED
    BY <1>5, <2>1, <2>2, <2>3 DEF Delete
<1>6. ASSUME NEW t \in Listers, Serve(t) PROVE ListType'
  <2>1. rows' = [u \in Listers |-> rows'[u]] /\ \A u \in Listers : DOMAIN rows'[u] \subseteq Paths
    <3>1. rows' = [rows EXCEPT ![t] = << >>] /\ DOMAIN << >> = {}
      BY <1>6 DEF Serve
    <3> QED
      BY <3>1
  <2>2. been' \in [Listers -> [Paths -> SUBSET Nat]] /\ found' \in [Listers -> SUBSET Paths]
        /\ step' \in [Listers -> {"idle", "stat", "read", "prune", "failed"}]
    BY <1>6 DEF Serve
  <2> QED
    BY <1>6, <2>1, <2>2 DEF Serve
<1>7. ASSUME NEW p \in Paths, WriteRecord(p) \/ RemoveRecord(p) PROVE ListType'
  <2>1. version' \in [Paths -> Nat] /\ written' \in Nat
    <3>1. CASE WriteRecord(p)
      BY <3>1 DEF WriteRecord
    <3>2. CASE RemoveRecord(p)
      BY <3>2 DEF RemoveRecord
    <3> QED
      BY <1>7, <3>1, <3>2
  <2>2. been' \in [Listers -> [Paths -> SUBSET Nat]]
    BY <1>7, <2>1 DEF WriteRecord, RemoveRecord, Witness
  <2> QED
    BY <1>7, <2>1, <2>2 DEF WriteRecord, RemoveRecord
<1> QED
  BY <1>1, <1>2, <1>3, <1>4, <1>5, <1>6, <1>7 DEF ViewNext

\* A version is given out once: an entry taken under an older stat never hits again.
LEMMA CacheStep == ListInv /\ ViewNext => CacheInv'
<1> SUFFICES ASSUME ListInv, ViewNext PROVE CacheInv'
  OBVIOUS
<1> USE DEF ListInv, ListType, CacheInv
<1>1. ASSUME NEW t \in Listers, Walk(t) \/ Serve(t) \/ Prune(t) PROVE CacheInv'
  BY <1>1 DEF Walk, Serve, Prune
<1>2. ASSUME NEW t \in Listers, Measure(t) PROVE CacheInv'
  <2> DEFINE p == At(t)
  <2>1. p \in live[t] /\ p \in Paths /\ UNCHANGED <<version, written, cache>>
    BY <1>2, AtIs DEF Measure
  <2>2. ASSUME NEW u \in Listers, step'[u] = "read" PROVE live'[u] # {} /\ key'[u] \in 1 .. written
    <3>1. CASE UNCHANGED step
      BY <1>2, <2>2, <3>1 DEF Measure, Drop
    <3>2. CASE key' = [key EXCEPT ![t] = version[p]] /\ version[p] # 0 /\ UNCHANGED live
      BY <1>2, <2>1, <2>2, <3>2 DEF Measure
    <3> QED
      BY <1>2, <3>1, <3>2 DEF Measure
  <2> QED
    BY <2>1, <2>2
<1>3. ASSUME NEW t \in Listers, Read(t) PROVE CacheInv'
  <2> DEFINE p == At(t)
  <2>1. p \in live[t] /\ p \in Paths /\ UNCHANGED <<version, written>> /\ key[t] \in 1 .. written
    BY <1>3, AtIs DEF Read
  <2>2. /\ DOMAIN cache' = DOMAIN cache \cup {p} /\ cache'[p] = <<key[t], version[p]>>
        /\ \A q \in DOMAIN cache \ {p} : cache'[q] = cache[q]
    <3>1. cache' = With(cache, p, <<key[t], version[p]>>)
      BY <1>3 DEF Read
    <3> QED
      BY <3>1 DEF With
  <2>3. ASSUME NEW u \in Listers, step'[u] = "read" PROVE live'[u] # {} /\ key'[u] \in 1 .. written
    BY <1>3, <2>3 DEF Read, Drop
  <2>4. ASSUME NEW q \in DOMAIN cache'
        PROVE  cache'[q][1] \in 1 .. written /\ (cache'[q][1] = version[q] => cache'[q][2] = version[q])
    <3>1. CASE q = p
      BY <2>1, <2>2, <3>1
    <3>2. CASE q # p
      BY <2>2, <3>2
    <3> QED
      BY <3>1, <3>2
  <2> QED
    BY <2>1, <2>3, <2>4
<1>4. ASSUME NEW t \in Listers, Delete(t) PROVE CacheInv'
  <2>1. cache' = cache \/ \E p \in stale[t] : cache' = Without(cache, p)
    BY <1>4 DEF Delete
  <2>2. \A q \in DOMAIN cache' : q \in DOMAIN cache /\ cache'[q] = cache[q]
    BY <2>1 DEF Without
  <2>3. UNCHANGED <<version, written, live,
                    key>> /\ \A u \in Listers : step'[u] = "read" => step[u] = "read"
    BY <1>4 DEF Delete
  <2> QED
    BY <2>2, <2>3
<1>5. ASSUME NEW p \in Paths, WriteRecord(p) PROVE CacheInv'
  <2>1. /\ written' = written + 1 /\ version'[p] = written'
        /\ \A q \in Paths \ {p} : version'[q] = version[q]
        /\ UNCHANGED <<cache, step, live, key>>
    BY <1>5 DEF WriteRecord
  <2>2. \A q \in Paths : version'[q] <= written'
    <3>1. written' \in Nat /\ version'[p] <= written'
      BY <2>1
    <3> QED
      BY <2>1, <3>1
  <2>3. \A n \in 1 .. written : n \in 1 .. written' /\ n # written'
    BY <2>1
  <2>4. ASSUME NEW q \in DOMAIN cache, cache[q][1] = version'[q] PROVE cache[q][2] = version'[q]
    BY <2>1, <2>3, <2>4
  <2> QED
    BY <2>1, <2>2, <2>3, <2>4
<1>6. ASSUME NEW p \in Paths, RemoveRecord(p) PROVE CacheInv'
  <2>1. /\ written' = written /\ version'[p] = 0 /\ \A q \in Paths \ {p} : version'[q] = version[q]
        /\ UNCHANGED <<cache, step, live, key>>
    BY <1>6 DEF RemoveRecord
  <2>2. \A q \in Paths : version'[q] <= written'
    BY <2>1
  <2>3. \A n \in 1 .. written : n # 0
    OBVIOUS
  <2>4. ASSUME NEW q \in DOMAIN cache, cache[q][1] = version'[q] PROVE cache[q][2] = version'[q]
    BY <2>1, <2>3, <2>4
  <2> QED
    BY <2>1, <2>2, <2>4
<1> QED
  BY <1>1, <1>2, <1>3, <1>4, <1>5, <1>6 DEF ViewNext

\* What a page shows was there, and what was there all along is on it.
LEMMA SeenStep == ListInv /\ ViewNext => \A t \in Listers : SeenAt(t)'
<1> SUFFICES ASSUME ListInv, ViewNext PROVE \A t \in Listers : SeenAt(t)'
  OBVIOUS
<1>0. ListType /\ CacheInv /\ \A t \in Listers : SeenAt(t)
  BY DEF ListInv
<1>1. ASSUME NEW u \in Listers, UNCHANGED version,
             step'[u] = step[u], live'[u] = live[u], rows'[u] = rows[u], been'[u] = been[u]
      PROVE  SeenAt(u)'
  BY <1>0, <1>1 DEF SeenAt
<1>2. ASSUME NEW t \in Listers, SeenAt(t)', UNCHANGED version,
             \A u \in Listers \ {t} : /\ step'[u] = step[u] /\ live'[u] = live[u]
                                      /\ rows'[u] = rows[u] /\ been'[u] = been[u]
      PROVE  \A u \in Listers : SeenAt(u)'
  BY <1>1, <1>2
<1> USE DEF ListType
<1>3. ASSUME NEW t \in Listers, Walk(t) PROVE \A u \in Listers : SeenAt(u)'
  <2>1. SeenAt(t)'
    BY <1>0, <1>3 DEF Walk, Present, SeenAt
  <2> QED
    BY <1>0, <1>2, <1>3, <2>1 DEF Walk
\* a summary added for the file a thread is at, and the file crossed off
<1>4. ASSUME NEW t \in Listers, step[t] \in {"stat", "read"}, step'[t] = "stat", live[t] # {},
             Drop(t, At(t)), been' = been, version' = version,
             Add(t, At(t), version[At(t)]) \/ (version[At(t)] = 0 /\ rows' = rows)
      PROVE  SeenAt(t)'
  <2> DEFINE p == At(t)
  <2>1. p \in live[t] /\ p \in Paths /\ live'[t] = live[t] \ {p}
    BY <1>0, <1>4, AtIs DEF Drop
  <2>2. version[p] \in been[t][p] /\ SeenAt(t)
    BY <1>0, <1>4, <2>1 DEF SeenAt
  <2> HIDE DEF p
  <2>3. CASE version[p] = 0
    <3>1. rows'[t] = rows[t]
      BY <1>0, <1>4, <2>3, AddIs DEF p
    <3> QED
      BY <1>4, <2>1, <2>2, <2>3, <3>1 DEF SeenAt
  <2>4. CASE version[p] # 0
    <3>1. /\ DOMAIN rows'[t] = DOMAIN rows[t] \cup {p} /\ rows'[t][p] = version[p]
          /\ \A q \in DOMAIN rows[t] \ {p} : rows'[t][q] = rows[t][q]
      BY <1>0, <1>4, <2>4, AddIs DEF p
    <3> QED
      BY <1>4, <2>1, <2>2, <3>1 DEF SeenAt
  <2> QED
    BY <2>3, <2>4
<1>5. ASSUME NEW t \in Listers, Measure(t) PROVE \A u \in Listers : SeenAt(u)'
  <2> DEFINE p == At(t)
  <2>1. p \in live[t] /\ p \in Paths /\ UNCHANGED <<version, been>> /\ step[t] = "stat"
    BY <1>0, <1>5, AtIs DEF Measure
  <2>2. ASSUME version[p] = 0 PROVE SeenAt(t)'
    <3>1. Drop(t, p) /\ UNCHANGED <<step, rows>> /\ live[t] # {}
      BY <1>5, <2>2 DEF Measure
    <3>2. /\ step[t] \in {"stat", "read"} /\ step'[t] = "stat"
          /\ been' = been /\ version' = version /\ version[At(t)] = 0 /\ rows' = rows
      BY <2>1, <2>2, <3>1
    <3> QED
      BY <1>4, <3>1, <3>2
  <2>3. ASSUME version[p] # 0 /\ Hit(p, version[p]) PROVE SeenAt(t)'
    <3>1. cache[p][2] = version[p]
      BY <1>0, <2>3 DEF Hit, CacheInv
    <3>2. Add(t, p, version[p]) /\ Drop(t, p) /\ step' = step /\ live[t] # {}
      BY <1>5, <2>3, <3>1 DEF Measure
    <3>3. /\ step[t] \in {"stat", "read"} /\ step'[t] = "stat"
          /\ been' = been /\ version' = version
      BY <2>1, <3>2
    <3> QED
      BY <1>4, <3>2, <3>3
  <2>4. ASSUME version[p] # 0 /\ ~Hit(p, version[p]) PROVE SeenAt(t)'
    BY <1>0, <1>5, <2>1, <2>4 DEF Measure, SeenAt
  <2>5. SeenAt(t)'
    BY <1>4, <2>1, <2>2, <2>3, <2>4
  <2>6. \A u \in Listers \ {t} : /\ step'[u] = step[u] /\ live'[u] = live[u]
                                 /\ rows'[u] = rows[u] /\ been'[u] = been[u]
    BY <1>0, <1>5, AddIs DEF Measure, Drop
  <2> QED
    BY <1>2, <2>1, <2>5, <2>6
<1>6. ASSUME NEW t \in Listers, Read(t) PROVE \A u \in Listers : SeenAt(u)'
  <2>1. SeenAt(t)'
    BY <1>0, <1>4, <1>6 DEF Read, CacheInv
  <2>2. \A u \in Listers \ {t} : /\ step'[u] = step[u] /\ live'[u] = live[u]
                                 /\ rows'[u] = rows[u] /\ been'[u] = been[u]
    BY <1>0, <1>6, AddIs DEF Read, Drop
  <2>3. version' = version
    BY <1>6 DEF Read
  <2> QED
    BY <1>2, <2>1, <2>2, <2>3
<1>7. ASSUME NEW t \in Listers, Prune(t) PROVE \A u \in Listers : SeenAt(u)'
  <2>1. SeenAt(t)'
    BY <1>0, <1>7 DEF Prune, SeenAt
  <2> QED
    BY <1>0, <1>2, <1>7, <2>1 DEF Prune
<1>8. ASSUME NEW t \in Listers, Delete(t) PROVE \A u \in Listers : SeenAt(u)'
  <2>1. SeenAt(t)'
    BY <1>0, <1>8 DEF Delete, SeenAt
  <2> QED
    BY <1>0, <1>2, <1>8, <2>1 DEF Delete
<1>9. ASSUME NEW t \in Listers, Serve(t) PROVE \A u \in Listers : SeenAt(u)'
  <2>1. SeenAt(t)'
    BY <1>0, <1>9 DEF Serve, SeenAt
  <2> QED
    BY <1>0, <1>2, <1>9, <2>1 DEF Serve
<1>10. ASSUME NEW p \in Paths, WriteRecord(p) \/ RemoveRecord(p) PROVE \A u \in Listers : SeenAt(u)'
  <2>1. UNCHANGED <<step, live, rows>>
    BY <1>10 DEF WriteRecord, RemoveRecord
  <2>2. \A u \in Listers : \A q \in Paths :
           IF step[u] = "idle" THEN been'[u][q] = been[u][q]
           ELSE been'[u][q] = been[u][q] \cup {version'[q]}
    BY <1>0, <1>10 DEF WriteRecord, RemoveRecord, Witness
  <2> SUFFICES ASSUME NEW u \in Listers PROVE SeenAt(u)'
    OBVIOUS
  <2>3. SeenAt(u) /\ DOMAIN rows[u] \subseteq Paths
    BY <1>0
  <2> QED
    BY <2>1, <2>2, <2>3 DEF SeenAt
<1> QED
  BY <1>3, <1>5, <1>6, <1>7, <1>8, <1>9, <1>10 DEF ViewNext

\* Of two that prune both are marked, whoever began.
LEMMA PruneStep == ListInv /\ ViewNext => PruneInv'
<1> SUFFICES ASSUME ListInv, ViewNext PROVE PruneInv'
  OBVIOUS
<1>0. ListType /\ CacheInv /\ PruneInv
  BY DEF ListInv
<1> USE DEF ListType, PruneInv
<1>1. ASSUME NEW t \in Listers, Walk(t) PROVE PruneInv'
  BY <1>0, <1>1 DEF Walk
<1>2. ASSUME NEW t \in Listers, Measure(t) PROVE PruneInv'
  BY <1>0, <1>2 DEF Measure
<1>3. ASSUME NEW t \in Listers, Read(t) PROVE PruneInv'
  <2>1. DOMAIN cache \subseteq DOMAIN cache'
    <3>1. \E p, v : cache' = With(cache, p, v)
      BY <1>3 DEF Read
    <3> QED
      BY <3>1 DEF With
  <2> QED
    BY <1>0, <1>3, <2>1 DEF Read
<1>4. ASSUME NEW t \in Listers, Prune(t) PROVE PruneInv'
  <2> DEFINE others == {u \in Listers : u # t /\ step[u] = "prune"}
  <2>1. /\ crossed' = crossed \cup others \cup (IF others = {} THEN {} ELSE {t})
        /\ step' = [step EXCEPT ![t] = "prune"] /\ step[t] = "stat" /\ cache' = cache
        /\ stale' = [stale EXCEPT ![t] = DOMAIN cache \ found[t]]
    BY <1>4 DEF Prune
  <2> QED
    BY <1>0, <2>1
<1>5. ASSUME NEW t \in Listers, Delete(t) PROVE PruneInv'
  <2>1. PICK p \in stale[t] :
         IF p \in DOMAIN cache
         THEN /\ cache' = Without(cache, p) /\ stale' = [stale EXCEPT ![t] = stale[t] \ {p}]
              /\ UNCHANGED <<step, rows>>
         ELSE /\ step' = [step EXCEPT ![t] = "failed"] /\ stale' = [stale EXCEPT ![t] = {}]
              /\ rows' = [rows EXCEPT ![t] = << >>] /\ UNCHANGED cache
    BY <1>5 DEF Delete
  <2>2. step[t] = "prune" /\ crossed' = crossed
    BY <1>5 DEF Delete
  <2>3. CASE p \in DOMAIN cache
    <3>1. DOMAIN cache' = DOMAIN cache \ {p} /\ step' = step /\ stale'[t] = stale[t] \ {p}
      BY <1>0, <2>1, <2>3 DEF Without
    <3>2. \A u \in Listers \ {t} : stale'[u] = stale[u]
      BY <1>0, <2>1, <2>3
    <3> QED
      BY <1>0, <2>2, <3>1, <3>2
  <2>4. CASE p \notin DOMAIN cache
    BY <1>0, <2>1, <2>2, <2>4
  <2> QED
    BY <2>3, <2>4
<1>6. ASSUME NEW t \in Listers, Serve(t) PROVE PruneInv'
  BY <1>0, <1>6 DEF Serve
<1>7. ASSUME NEW p \in Paths, WriteRecord(p) \/ RemoveRecord(p) PROVE PruneInv'
  BY <1>0, <1>7 DEF WriteRecord, RemoveRecord
<1> QED
  BY <1>1, <1>2, <1>3, <1>4, <1>5, <1>6, <1>7 DEF ViewNext

\* Every step of a listing, a run or a removal keeps the invariant of the listings.
LEMMA ListStep == ListInv /\ ViewNext => ListInv'
  BY ListTypeStep, CacheStep, SeenStep, PruneStep DEF ListInv

(***************************************************************************)
(* Pages: what is derived from a listing.                                  *)
(***************************************************************************)
\* A set of numbers that is not empty has a least one: there is no infinite descent in its
\* initial segments.
LEMMA Least ==
    ASSUME NEW T \in SUBSET Nat, T # {}
    PROVE  \E n \in T : \A m \in T : n <= m
<1>1. PICK x \in T : TRUE
  OBVIOUS
<1> DEFINE D == {0 .. n : n \in {m \in T : m <= x}}
<1>2. IsWellFoundedOn(StrictSubsetOrdering(Nat), FiniteSubsetsOf(Nat))
  BY FS_StrictSubsetOrderingWellFounded
<1>3. D \subseteq FiniteSubsetsOf(Nat)
  <2> SUFFICES ASSUME NEW n \in Nat PROVE 0 .. n \in FiniteSubsetsOf(Nat)
    OBVIOUS
  <2>1. IsFiniteSet(0 .. n)
    BY FS_Interval
  <2>2. 0 .. n \subseteq Nat
    OBVIOUS
  <2> QED
    BY <2>1, <2>2 DEF FiniteSubsetsOf
<1>4. D # {}
  BY <1>1
<1>5. PICK S \in D : \A R \in D : ~(<<R, S>> \in StrictSubsetOrdering(Nat))
  <2> HIDE DEF D
  <2> QED BY <1>2, <1>3, <1>4, WFMin
<1>6. PICK n \in T : S = 0 .. n /\ n <= x
  BY <1>5
<1>7. \A m \in T : n <= m
  <2> SUFFICES ASSUME NEW m \in T, m < n PROVE FALSE
    OBVIOUS
  <2>1. 0 .. m \in D
    BY <1>6
  <2>2. 0 .. m \subseteq 0 .. n /\ n \in 0 .. n /\ n \notin 0 .. m
    OBVIOUS
  <2>3. <<0 .. m, 0 .. n>> \in StrictSubsetOrdering(Nat)
    BY <2>2 DEF StrictSubsetOrdering
  <2> QED
    BY <2>1, <2>3, <1>5, <1>6
<1> QED
  BY <1>6, <1>7

\* The first of the newest of some records is one of them, and none is newer.
LEMMA NewestIs ==
    ASSUME NEW n \in Nat, NEW seq \in [1 .. n -> Summaries], NEW S \in SUBSET (1 .. n), S # {}
    PROVE  /\ FirstOfNewest(seq, S) \in S
           /\ \A j \in S : seq[j].started <= seq[FirstOfNewest(seq, S)].started
<1> DEFINE late == {i \in S : seq[i].started = 2}
           top  == IF late = {} THEN S ELSE late
<1>1. \A i \in S : i \in Nat /\ seq[i].started \in {1, 2}
  <2>1. \A i \in S : i \in 1 .. n /\ seq[i].started \in {1, 2}
    BY DEF Summaries
  <2> QED
    BY <2>1
<1>2. top \in SUBSET Nat /\ top # {} /\ top \subseteq S
  BY <1>1
<1>3. PICK i \in top : \A j \in top : i <= j
  BY <1>2, Least
<1>4. \A j \in S : seq[j].started < seq[i].started \/ (seq[j].started = seq[i].started /\ i <= j)
  <2>1. CASE late = {}
    BY <1>1, <1>3, <2>1
  <2>2. CASE late # {}
    BY <1>1, <1>3, <2>2
  <2> QED
    BY <2>1, <2>2
<1>5. \E k \in S : \A j \in S :
          seq[j].started < seq[k].started \/ (seq[j].started = seq[k].started /\ k <= j)
  BY <1>2, <1>3, <1>4, Zenon
<1> DEFINE f == FirstOfNewest(seq, S)
<1>6. f \in S /\ \A j \in S :
          seq[j].started < seq[f].started \/ (seq[j].started = seq[f].started /\ f <= j)
  BY <1>5, Zenon DEF FirstOfNewest
<1> HIDE DEF f
<1>7. f \in S /\ \A j \in S : seq[j].started <= seq[f].started
  BY <1>1, <1>6
<1> QED
  BY <1>7 DEF f

\* The last of the oldest first is one of them, and none is newer.
LEMMA OldestIs ==
    ASSUME NEW n \in Nat, NEW seq \in [1 .. n -> Summaries], NEW S \in SUBSET (1 .. n), S # {}
    PROVE  /\ LastOfOldest(seq, S) \in S
           /\ \A j \in S : seq[j].started <= seq[LastOfOldest(seq, S)].started
<1> DEFINE late == {i \in S : seq[i].started = 2}
           top  == IF late = {} THEN S ELSE late
           low  == {n - i : i \in top}
<1>1. \A i \in S : i \in 1 .. n /\ seq[i].started \in {1, 2}
  BY DEF Summaries
<1>2. top # {} /\ top \subseteq S
  BY <1>1
<1>3. low \in SUBSET Nat /\ low # {}
  <2>1. \A i \in top : n - i \in Nat
    BY <1>1, <1>2
  <2> QED
    BY <1>2, <2>1
<1>4. PICK d \in low : \A e \in low : d <= e
  BY <1>3, Least
<1>5. PICK i \in top : d = n - i
  BY <1>4
<1>6. \A j \in top : j <= i
  <2> TAKE j \in top
  <2>1. n - i <= n - j
    BY <1>4, <1>5
  <2> QED
    BY <1>1, <1>2, <2>1
<1>7. \A j \in S : seq[j].started < seq[i].started \/ (seq[j].started = seq[i].started /\ j <= i)
  <2>1. CASE late = {}
    BY <1>1, <1>6, <2>1
  <2>2. CASE late # {}
    BY <1>1, <1>5, <1>6, <2>2
  <2> QED
    BY <2>1, <2>2
<1>8. \E k \in S : \A j \in S :
          seq[j].started < seq[k].started \/ (seq[j].started = seq[k].started /\ j <= k)
  BY <1>2, <1>5, <1>7, Zenon
<1> DEFINE f == LastOfOldest(seq, S)
<1>9. f \in S /\ \A j \in S :
          seq[j].started < seq[f].started \/ (seq[j].started = seq[f].started /\ j <= f)
  BY <1>8, Zenon DEF LastOfOldest
<1> HIDE DEF f
<1>10. f \in S /\ \A j \in S : seq[j].started <= seq[f].started
  BY <1>1, <1>9
<1> QED
  BY <1>10 DEF f

\* A column as high as a number counts that number.
LEMMA ColumnIs ==
    ASSUME NEW c, NEW k \in Nat
    PROVE  IsFiniteSet({c} \X (1 .. k)) /\ Cardinality({c} \X (1 .. k)) = k
<1>1. IsFiniteSet({c}) /\ Cardinality({c}) = 1
  BY FS_Singleton
<1>2. IsFiniteSet(1 .. k) /\ Cardinality(1 .. k) = k
  <2>1. IsFiniteSet(1 .. k) /\ Cardinality(1 .. k) = IF 1 > k THEN 0 ELSE k - 1 + 1
    BY 1 \in Int, k \in Int, FS_Interval, Zenon
  <2> QED
    BY <2>1
<1>3. IsFiniteSet({c} \X (1 .. k))
      /\ Cardinality({c} \X (1 .. k)) = Cardinality({c}) * Cardinality(1 .. k)
  BY <1>1, <1>2, FS_Product, Zenon
<1> QED
  BY <1>1, <1>2, <1>3

\* What is counted class by class: of each class as many as are in it.
ClassByClass(W, f, n) ==
    Cardinality({x \in {f[i] : i \in W} \X (1 .. n) :
                     x[2] <= Cardinality({i \in W : f[i] = x[1]})})

\* Counting records of two classes class by class counts each of them once.
LEMMA ClassesCount ==
    ASSUME NEW n \in Nat, NEW W \in SUBSET (1 .. n), NEW f, NEW u, NEW v, u # v,
           \A i \in W : f[i] \in {u, v}
    PROVE  ClassByClass(W, f, n) = Cardinality(W)
<1> DEFINE of(c) == {i \in W : f[i] = c}
           col(c) == {c} \X (1 .. Cardinality(of(c)))
           all == {x \in {f[i] : i \in W} \X (1 .. n) : x[2] <= Cardinality(of(x[1]))}
<1>1. IsFiniteSet(1 .. n) /\ Cardinality(1 .. n) = n
  <2>1. IsFiniteSet(1 .. n) /\ Cardinality(1 .. n) = IF 1 > n THEN 0 ELSE n - 1 + 1
    BY 1 \in Int, n \in Int, FS_Interval, Zenon
  <2> QED
    BY <2>1
<1>2. ASSUME NEW c PROVE IsFiniteSet(of(c)) /\ Cardinality(of(c)) \in Nat
                         /\ Cardinality(of(c)) <= n
  <2>1. of(c) \in SUBSET (1 .. n)
    OBVIOUS
  <2>2. IsFiniteSet(of(c)) /\ Cardinality(of(c)) <= Cardinality(1 .. n)
    BY <1>1, <2>1, FS_Subset, Zenon
  <2>3. Cardinality(of(c)) \in Nat
    BY <2>2, FS_CardinalityType, Zenon
  <2> QED
    BY <1>1, <2>2, <2>3
<1>3. ASSUME NEW c, c \notin {f[i] : i \in W} PROVE Cardinality(of(c)) = 0
  <2>1. of(c) = {}
    BY <1>3
  <2> QED
    BY <2>1, FS_EmptySet
<1>4. all = col(u) \cup col(v)
  <2>1. ASSUME NEW x \in all PROVE x \in col(u) \cup col(v)
    <3>1. x[1] \in {u, v} /\ x[2] \in 1 .. n /\ x[2] <= Cardinality(of(x[1]))
          /\ x = <<x[1], x[2]>>
      OBVIOUS
    <3>2. Cardinality(of(x[1])) \in Nat
      BY <1>2
    <3>3. x[2] \in 1 .. Cardinality(of(x[1]))
      BY <3>1, <3>2
    <3> QED
      BY <3>1, <3>3
  <2>2. ASSUME NEW c \in {u, v}, NEW x \in col(c) PROVE x \in all
    <3>1. x[1] = c /\ x[2] \in 1 .. Cardinality(of(c)) /\ x = <<x[1], x[2]>>
      OBVIOUS
    <3>2. Cardinality(of(c)) \in Nat /\ Cardinality(of(c)) <= n
      BY <1>2
    <3>3. x[2] \in 1 .. n /\ x[2] <= Cardinality(of(c)) /\ Cardinality(of(c)) # 0
      BY <3>1, <3>2
    <3>4. c \in {f[i] : i \in W}
      BY <1>3, <3>3
    <3> QED
      BY <3>1, <3>3, <3>4
  <2> QED
    BY <2>1, <2>2
<1>5. of(u) \cap of(v) = {} /\ W = of(u) \cup of(v) /\ col(u) \cap col(v) = {}
  <2>1. of(u) \cap of(v) = {} /\ W = of(u) \cup of(v)
    OBVIOUS
  <2>2. ASSUME NEW x \in col(u), x \in col(v) PROVE FALSE
    <3>1. x[1] = u /\ x[1] = v
      BY <2>2
    <3> QED
      BY <3>1
  <2> QED
    BY <2>1, <2>2
<1>6. \A c : IsFiniteSet(of(c)) /\ Cardinality(of(c)) \in Nat
  BY <1>2
<1>7. \A c : IsFiniteSet(col(c)) /\ Cardinality(col(c)) = Cardinality(of(c))
  <2> TAKE c
  <2>1. Cardinality(of(c)) \in Nat
    BY <1>6
  <2> QED
    BY <2>1, ColumnIs, Zenon
<1> HIDE DEF of, col, all
<1>8. Cardinality({}) = 0
  BY FS_EmptySet
<1>9. Cardinality(all) = Cardinality(col(u)) + Cardinality(col(v)) - 0
  BY <1>4, <1>5, <1>7, <1>8, FS_Union
<1>10. Cardinality(W) = Cardinality(of(u)) + Cardinality(of(v)) - 0
  BY <1>5, <1>6, <1>8, FS_Union
<1>11. Cardinality(all) = Cardinality(W)
  BY <1>7, <1>9, <1>10
<1> QED
  BY <1>11 DEF all, of, ClassByClass

\* What a record is known by.
LEMMA KeyIs ==
    ASSUME NEW r \in Summaries
    PROVE  /\ SuiteKey(r) \in {"s", "t"} /\ r.adapter \in {"a", "b"}
           /\ r.suite # "" => SuiteKey(r) = r.suite
BY DEF Summaries, SuiteKey

\* The board and a suite's page count the same records, and name the same moment.
LEMMA BoardAndSuite ==
    ASSUME NEW n \in Nat, NEW seq \in [1 .. n -> Summaries], NEW s \in Suites(seq)
    PROVE  LET board == Board(seq)[s]
               suite == SuitePage(seq, s) IN
           /\ board.runs =
                Cardinality({x \in (DOMAIN suite) \X DOMAIN seq : x[2] <= suite[x[1]].runs})
           /\ board.platforms = Cardinality(DOMAIN suite)
           /\ \A a \in DOMAIN suite : suite[a].latest.started <= board.latest.started
           /\ suite[board.latest.adapter].latest.started = board.latest.started
<1> DEFINE b == Bucket(seq, s)
           of(a) == Of(seq, b, a)
           ad == Adapters(seq, b)
           new == FirstOfNewest(seq, b)
           last(a) == LastOfOldest(seq, of(a))
           suite == SuitePage(seq, s)
           board == Board(seq)[s]
<1>1. b \in SUBSET (1 .. n) /\ b # {}
  BY DEF Bucket, Placeable, Suites
<1>2. board.runs = Cardinality(b) /\ board.platforms = Cardinality(ad)
      /\ board.latest = seq[new]
  BY DEF Board
<1>3. DOMAIN suite = ad
      /\ \A a \in ad : suite[a].runs = Cardinality(of(a)) /\ suite[a].latest = seq[last(a)]
  BY DEF SuitePage
<1>4. DOMAIN seq = 1 .. n
  OBVIOUS
<1>5. ad = {seq[i].adapter : i \in b} /\ \A a : of(a) = {i \in b : seq[i].adapter = a}
  BY DEF Adapters, Of
<1>6. \A i \in b : seq[i].adapter \in {"a", "b"} /\ seq[i].started \in {1, 2}
  BY <1>1, KeyIs DEF Summaries
<1>7. new \in b /\ \A j \in b : seq[j].started <= seq[new].started
  BY <1>1, NewestIs
<1>8. \A a \in ad : last(a) \in of(a) /\ \A j \in of(a) : seq[j].started <= seq[last(a)].started
  <2> TAKE a \in ad
  <2>1. of(a) \in SUBSET (1 .. n) /\ of(a) # {}
    BY <1>1, <1>5
  <2> QED
    BY <2>1, OldestIs
<1> HIDE DEF b, of, ad, new, last, suite, board
<1>9. board.runs =
        Cardinality({x \in (DOMAIN suite) \X DOMAIN seq : x[2] <= suite[x[1]].runs})
  <2> DEFINE f == [i \in b |-> seq[i].adapter]
  <2>1. \A i \in b : f[i] \in {"a", "b"}
    BY <1>6
  <2>2. ClassByClass(b, f, n) = Cardinality(b)
    <3> HIDE DEF f
    <3>1. "a" # "b"
      OBVIOUS
    <3> QED
      BY <1>1, <2>1, <3>1, ClassesCount
  <2>3. {f[i] : i \in b} = ad
    BY <1>5
  <2>4. \A c : {i \in b : f[i] = c} = of(c)
    BY <1>5
  <2>5. {x \in {f[i] : i \in b} \X (1 .. n) : x[2] <= Cardinality({i \in b : f[i] = x[1]})}
        = {x \in ad \X (1 .. n) : x[2] <= Cardinality(of(x[1]))}
    <3> HIDE DEF f
    <3> QED
      BY <2>3, <2>4
  <2>6. {x \in ad \X (1 .. n) : x[2] <= Cardinality(of(x[1]))}
        = {x \in (DOMAIN suite) \X DOMAIN seq : x[2] <= suite[x[1]].runs}
    BY <1>3, <1>4
  <2> QED
    BY <1>2, <2>2, <2>5, <2>6 DEF ClassByClass
<1>10. \A a \in DOMAIN suite : suite[a].latest.started <= board.latest.started
  BY <1>2, <1>3, <1>5, <1>7, <1>8
<1>11. suite[board.latest.adapter].latest.started = board.latest.started
  <2> DEFINE a == seq[new].adapter
  <2>1. a \in ad /\ new \in of(a)
    BY <1>5, <1>7
  <2>2. seq[new].started <= seq[last(a)].started
    BY <1>8, <2>1
  <2>3. last(a) \in b /\ seq[last(a)].started <= seq[new].started
    BY <1>5, <1>7, <1>8, <2>1
  <2>4. seq[last(a)].started = seq[new].started
    BY <1>6, <1>7, <2>2, <2>3
  <2> QED
    BY <1>2, <1>3, <2>1, <2>4
<1> QED
  BY <1>2, <1>3, <1>9, <1>10, <1>11 DEF suite, board

\* A platform's usage counts what the suites' pages show of it.
LEMMA UsageIs ==
    ASSUME NEW n \in Nat, NEW seq \in [1 .. n -> Summaries],
           NEW a \in Adapters(seq, DOMAIN seq)
    PROVE  PlatformUsage(seq)[a] =
             Cardinality({x \in Suites(seq) \X DOMAIN seq :
                 a \in DOMAIN SuitePage(seq, x[1]) /\ x[2] <= SuitePage(seq, x[1])[a].runs})
<1> DEFINE W == {i \in Of(seq, DOMAIN seq, a) : seq[i].domain # ""}
           f == [i \in W |-> SuiteKey(seq[i])]
           ad(s) == Adapters(seq, Bucket(seq, s))
           of(s) == Of(seq, Bucket(seq, s), a)
<1>1. W \in SUBSET (1 .. n) /\ DOMAIN seq = 1 .. n
  BY DEF Of
<1>2. PlatformUsage(seq)[a] = Cardinality(W)
  BY DEF PlatformUsage
<1>3. \A i \in 1 .. n : SuiteKey(seq[i]) \in {"s", "t"}
  BY KeyIs
<1>4. \A s : /\ DOMAIN SuitePage(seq, s) = ad(s)
             /\ \A c \in ad(s) : SuitePage(seq, s)[c].runs
                                   = Cardinality(Of(seq, Bucket(seq, s), c))
  BY DEF SuitePage
<1>5. \A s : of(s) = {i \in W : f[i] = s}
  <2> TAKE s
  <2>1. Bucket(seq, s) = {i \in 1 .. n : seq[i].domain # "" /\ SuiteKey(seq[i]) = s}
    BY <1>3 DEF Bucket, Placeable
  <2>2. of(s) = {i \in 1 .. n : seq[i].domain # "" /\ SuiteKey(seq[i]) = s
                                /\ seq[i].adapter = a}
    BY <2>1 DEF Of
  <2>3. W = {i \in 1 .. n : seq[i].adapter = a /\ seq[i].domain # ""}
    BY DEF Of
  <2>4. {i \in W : f[i] = s} = {i \in W : SuiteKey(seq[i]) = s}
    OBVIOUS
  <2> HIDE DEF W, f
  <2> QED
    BY <2>2, <2>3, <2>4
<1>6. \A s : a \in ad(s) <=> of(s) # {}
  BY DEF Adapters, Of
<1>7. {f[i] : i \in W} \subseteq Suites(seq)
  <2> SUFFICES ASSUME NEW i \in W PROVE SuiteKey(seq[i]) \in Suites(seq)
    OBVIOUS
  <2>1. i \in 1 .. n /\ seq[i].domain # "" /\ SuiteKey(seq[i]) # ""
    BY <1>1, <1>3
  <2> QED
    BY <2>1 DEF Suites, Placeable
<1>8. \A i \in W : f[i] \in {"s", "t"}
  BY <1>1, <1>3
<1> HIDE DEF W, f
<1>9. ClassByClass(W, f, n) = Cardinality(W)
  <2>1. "s" # "t"
    OBVIOUS
  <2> QED
    BY <1>1, <1>8, <2>1, ClassesCount
<1>10. \A s : a \in ad(s) <=> s \in {f[i] : i \in W}
  BY <1>5, <1>6
<1>11. \A s : a \in ad(s) => SuitePage(seq, s)[a].runs = Cardinality({i \in W : f[i] = s})
  BY <1>4, <1>5
<1> HIDE DEF ad, of
<1>12. {x \in {f[i] : i \in W} \X (1 .. n) : x[2] <= Cardinality({i \in W : f[i] = x[1]})}
       = {x \in Suites(seq) \X DOMAIN seq :
             a \in DOMAIN SuitePage(seq, x[1]) /\ x[2] <= SuitePage(seq, x[1])[a].runs}
  <2> DEFINE fs == {f[i] : i \in W}
             k(s) == Cardinality({i \in W : f[i] = s})
             su == Suites(seq)
             dom(s) == DOMAIN SuitePage(seq, s)
             runs(s) == SuitePage(seq, s)[a].runs
  <2>1. fs \subseteq su /\ \A s : (a \in dom(s) <=> s \in fs) /\ (s \in fs => runs(s) = k(s))
    BY <1>4, <1>7, <1>10, <1>11
  <2> HIDE DEF fs, k, su, dom, runs
  <2>2. {x \in fs \X (1 .. n) : x[2] <= k(x[1])}
        = {x \in su \X (1 .. n) : a \in dom(x[1]) /\ x[2] <= runs(x[1])}
    BY <2>1
  <2> QED
    BY <1>1, <2>2 DEF fs, k, su, dom, runs
<1> QED
  BY <1>2, <1>9, <1>12 DEF ClassByClass

\* Every page of a listing agrees with the others.
LEMMA PagesDoAgree == PageInv => PagesAgree
<1> SUFFICES ASSUME NEW n \in Nat, page \in [1 .. n -> Summaries] PROVE PagesAgree
  BY DEF PageInv
<1>1. ASSUME NEW s \in Suites(page)
      PROVE  LET board == Board(page)[s]
                 suite == SuitePage(page, s) IN
             /\ board.runs =
                  Cardinality({x \in (DOMAIN suite) \X DOMAIN page : x[2] <= suite[x[1]].runs})
             /\ board.platforms = Cardinality(DOMAIN suite)
             /\ \A a \in DOMAIN suite : suite[a].latest.started <= board.latest.started
             /\ suite[board.latest.adapter].latest.started = board.latest.started
  BY BoardAndSuite
<1>2. ASSUME NEW pair \in Seen(page), NEW i \in DOMAIN page, page[i].domain # "",
             <<page[i].suite, page[i].adapter>> = pair
      PROVE  pair[2] \in DOMAIN SuitePage(page, pair[1])
  <2>1. page[i].suite # ""
    BY <1>2 DEF Seen
  <2>2. SuiteKey(page[i]) = pair[1] /\ page[i].adapter = pair[2] /\ SuiteKey(page[i]) # ""
    BY <1>2, <2>1, KeyIs
  <2>3. i \in Bucket(page, pair[1])
    BY <1>2, <2>2 DEF Bucket, Placeable
  <2> QED
    BY <2>2, <2>3 DEF SuitePage, Adapters
<1>3. ASSUME NEW a \in Adapters(page, DOMAIN page)
      PROVE  PlatformUsage(page)[a] =
               Cardinality({x \in Suites(page) \X DOMAIN page :
                   a \in DOMAIN SuitePage(page, x[1]) /\ x[2] <= SuitePage(page, x[1])[a].runs})
  BY UsageIs
<1>4. \A r \in Trails : r.declared /\ r.trace # "full" => Trajectory(r) # "lifecycle"
  BY DEF Trajectory
<1> QED
  BY <1>1, <1>2, <1>3, <1>4 DEF PagesAgree

\* A listing leaves what the pages are made of alone.
LEMMA PageStep == ViewNext => UNCHANGED page
  BY DEF ViewNext, Walk, Measure, Read, Prune, Delete, Serve, WriteRecord, RemoveRecord

(***************************************************************************)
(* The console: one of the three, with the others at rest.                 *)
(***************************************************************************)
\* Requests, listings and pages are true when the console starts.
LEMMA ConsoleStart == ConsoleInit => ConsoleInv
<1> SUFFICES ASSUME ConsoleInit PROVE ConsoleInv
  OBVIOUS
<1>1. RequestInv /\ ListInv
  BY RequestStart, ListStart DEF ConsoleInit
<1>2. PageInv
  <2>1. CASE page = << >>
    <3>1. page \in [1 .. 0 -> Summaries]
      BY <2>1
    <3> QED
      BY <3>1 DEF PageInv
  <2>2. CASE PageInit
    BY <2>2, ViewAssumption DEF PageInit, PageInv
  <2> QED
    BY <2>1, <2>2 DEF ConsoleInit
<1> QED
  BY <1>1, <1>2 DEF ConsoleInv

\* A part that rests keeps its invariant.
LEMMA RequestsRest == RequestInv /\ UNCHANGED requestVars => RequestInv'
<1> SUFFICES ASSUME RequestInv, UNCHANGED requestVars PROVE RequestInv'
  OBVIOUS
<1> USE DEF RequestInv, requestVars, disk, launched
<1>1. RequestType' /\ ThreadInv' /\ NotedInv'
  BY DEF RequestType, ThreadInv, RequestAt, KnownAt, NotedInv
<1>2. TargetInv' /\ AnswersHold' /\ RunsGetTheirTarget'
  BY DEF TargetInv, AnswersHold, RunsGetTheirTarget
<1>3. SlotInv'
  BY DEF SlotInv, Pumping
<1> QED
  BY <1>1, <1>2, <1>3

\* So does a step of another part.
LEMMA ListsRest == ListInv /\ UNCHANGED viewVars => ListInv'
<1> SUFFICES ASSUME ListInv, UNCHANGED viewVars PROVE ListInv'
  OBVIOUS
<1> USE DEF ListInv, viewVars, listVars
<1>1. ListType' /\ CacheInv' /\ PruneInv'
  BY DEF ListType, CacheInv, PruneInv
<1>2. \A t \in Listers : SeenAt(t)'
  BY DEF SeenAt
<1> QED
  BY <1>1, <1>2

\* Whichever part takes a step, the others rest.
LEMMA ConsoleStep ==
    ConsoleInv /\ [ConsoleNext]_<<scene, vars, requestVars, viewVars>> => ConsoleInv'
<1> SUFFICES ASSUME ConsoleInv, [ConsoleNext]_<<scene, vars, requestVars, viewVars>>
             PROVE  ConsoleInv'
  OBVIOUS
<1>1. CASE RequestNext /\ UNCHANGED viewVars
  BY <1>1, RequestStep, ListsRest DEF ConsoleInv, PageInv, viewVars
<1>2. CASE ViewNext /\ UNCHANGED requestVars
  BY <1>2, ListStep, RequestsRest, PageStep DEF ConsoleInv, PageInv
<1>3. CASE UNCHANGED <<requestVars, viewVars>>
  BY <1>3, RequestsRest, ListsRest DEF ConsoleInv, PageInv, viewVars
<1> QED
  BY <1>1, <1>2, <1>3 DEF ConsoleNext

\* Requests, listings and pages keep their invariants throughout.
LEMMA ConsoleInvariant == ConsoleSpec => []ConsoleInv
  BY ConsoleStart, ConsoleStep, PTL DEF ConsoleSpec

\* Requests that overlap each other and an editor neither lose a target nor lie about it:
\* for any number of threads, runs and upsets.
THEOREM RequestsKept == ConsoleSpec => []RequestsHold
<1>1. ConsoleInv => RequestsHold
  <2> SUFFICES ASSUME RequestInv PROVE RequestsHold
    BY DEF ConsoleInv
  <2>1. TargetsAreKept
    BY DEF RequestInv, TargetInv, ThreadInv, KnownAt, TargetsAreKept
  <2>2. SlotsComeBack
    BY DEF RequestInv, SlotInv, Pumping, SlotsComeBack
  <2> QED
    BY <2>1, <2>2 DEF RequestInv, RequestsHold
<1> QED
  BY <1>1, ConsoleInvariant, PTL

\* A listing shows of each file a content it had since the listing began, misses none that
\* was there all along, and fails only when another one pruned beside it: for any number
\* of threads, files and writes.
THEOREM ListingsTrue == ConsoleSpec => []ListingsAreTrue
<1>1. ConsoleInv => ListingsAreTrue
  BY DEF ConsoleInv, ListInv, SeenAt, PruneInv, ListingsAreTrue
<1> QED
  BY <1>1, ConsoleInvariant, PTL

\* What the console shows of the archive is true and the same on every page: the board, a
\* suite's platforms and a platform's usage count each placeable record once and name the
\* same moment as the newest, for any number of records.
THEOREM ViewsTrue == ConsoleSpec => []ViewsHold
<1>1. ConsoleInv => PagesAgree
  BY PagesDoAgree DEF ConsoleInv
<1>2. ListingsAreTrue /\ PagesAgree => ViewsHold
  BY DEF ViewsHold
<1> QED
  BY <1>1, <1>2, ListingsTrue, ConsoleInvariant, PTL

=============================================================================
