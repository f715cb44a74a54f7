---------------------------- MODULE ConsoleViews ----------------------------
(***************************************************************************)
(* The pages of the viewer (viewer/data.py, launch.py, platforms.py and    *)
(* catalogue.py): listings of the record files, made by request threads    *)
(* that share one cache of summaries without a lock while runs write       *)
(* records and somebody removes them; and what is derived from a listing:  *)
(* the board, a suite's platforms, where a benchmark has run, the spans of *)
(* one run.                                                                *)
(*                                                                         *)
(* A record file is written by a rename: its version (mtime and size) is   *)
(* its content.                                                            *)
(***************************************************************************)
EXTENDS Naturals, Sequences, FiniteSets

CONSTANTS Listers,     \* request threads that list records
          Paths,       \* record files
          MaxVersions, \* writes of any of them
          MaxRemovals,
          MaxRows      \* records a derived page is made of

ASSUME ViewAssumption ==
    MaxVersions \in Nat /\ MaxRemovals \in Nat /\ MaxRows \in Nat

VARIABLES version,   \* of each file: 0 is none
          written,   \* versions written so far
          removed,
          cache,     \* _SUMMARY_CACHE: path -> <<key, summary>>, summary 0 is None
          step,      \* of each thread: idle, stat, read, prune, failed
          live,      \* the files the thread found, and has yet to summarise
          found,     \* the files it found
          key,       \* the stat of the one it is at
          rows,      \* path -> summary
          stale,     \* cache entries it is about to drop
          been,      \* versions of each file since the thread began
          crossed,   \* threads during whose pruning another one pruned
          page       \* the records a derived page is made of

listVars == <<version, written, removed, cache, step, live, found, key, rows, stale, been,
              crossed>>
viewVars == <<listVars, page>>

----------------------------------------------------------------------------
(* Listing.                                                                *)

Without(f, p) == [q \in DOMAIN f \ {p} |-> f[q]]
With(f, p, v) == [q \in DOMAIN f \cup {p} |-> IF q = p THEN v ELSE f[q]]
Present == {p \in Paths : version[p] > 0}

ListInit ==
    /\ version \in [Paths -> {0, 1}] /\ written = 1 /\ removed = 0
    /\ cache = << >> /\ step = [t \in Listers |-> "idle"]
    /\ live = [t \in Listers |-> {}] /\ found = live /\ stale = live
    /\ key = [t \in Listers |-> 0] /\ rows = [t \in Listers |-> << >>]
    /\ been = [t \in Listers |-> [p \in Paths |-> {}]] /\ crossed = {}

\* _iter_record_files.
Walk(t) ==
    /\ step[t] = "idle"
    /\ live' = [live EXCEPT ![t] = Present] /\ found' = [found EXCEPT ![t] = Present]
    /\ rows' = [rows EXCEPT ![t] = << >>] /\ step' = [step EXCEPT ![t] = "stat"]
    /\ been' = [been EXCEPT ![t] = [p \in Paths |-> {version[p]}]]
    /\ crossed' = crossed \ {t}
    /\ UNCHANGED <<version, written, removed, cache, key, stale, page>>

\* Mutant of Hit: an entry is good as long as its file is there.
HitAtAll(p, k) == p \in DOMAIN cache
Hit(p, k) == p \in DOMAIN cache /\ cache[p][1] = k

Add(t, p, s) == rows' = [rows EXCEPT ![t] = IF s = 0 THEN @ ELSE With(@, p, s)]
Drop(t, p)   == live' = [live EXCEPT ![t] = @ \ {p}]
At(t)        == CHOOSE p \in live[t] : TRUE

\* _cached_summary: the stat, and the cache.
Measure(t) ==
    /\ step[t] = "stat" /\ live[t] # {}
    /\ LET p == At(t) IN
         IF version[p] = 0 THEN Drop(t, p) /\ UNCHANGED <<step, key, rows>>
         ELSE IF Hit(p, version[p])
              THEN Add(t, p, cache[p][2]) /\ Drop(t, p) /\ UNCHANGED <<step, key>>
              ELSE /\ key' = [key EXCEPT ![t] = version[p]]
                   /\ step' = [step EXCEPT ![t] = "read"] /\ UNCHANGED <<live, rows>>
    /\ UNCHANGED <<version, written, removed, cache, found, stale, been, crossed, page>>

\* _cached_summary: what is read goes into the cache under the stat taken before.
Read(t) ==
    /\ step[t] = "read"
    /\ LET p == At(t) IN
         /\ cache' = With(cache, p, <<key[t], version[p]>>)
         /\ Add(t, p, version[p]) /\ Drop(t, p)
    /\ step' = [step EXCEPT ![t] = "stat"] /\ key' = [key EXCEPT ![t] = 0]
    /\ UNCHANGED <<version, written, removed, found, stale, been, crossed, page>>

\* list_records: the entries of files that were not found are dropped, one by one.
Prune(t) ==
    /\ step[t] = "stat" /\ live[t] = {}
    /\ stale' = [stale EXCEPT ![t] = DOMAIN cache \ found[t]]
    /\ step' = [step EXCEPT ![t] = "prune"]
    /\ LET others == {u \in Listers : u # t /\ step[u] = "prune"} IN
         crossed' = crossed \cup others \cup (IF others = {} THEN {} ELSE {t})
    /\ UNCHANGED <<version, written, removed, cache, live, found, key, rows, been, page>>

\* An entry another thread has dropped is a KeyError, and the page an error 500.
Delete(t) ==
    /\ step[t] = "prune" /\ stale[t] # {}
    /\ \E p \in stale[t] :
         IF p \in DOMAIN cache
         THEN /\ cache' = Without(cache, p) /\ stale' = [stale EXCEPT ![t] = @ \ {p}]
              /\ UNCHANGED <<step, rows>>
         ELSE /\ step' = [step EXCEPT ![t] = "failed"] /\ stale' = [stale EXCEPT ![t] = {}]
              /\ rows' = [rows EXCEPT ![t] = << >>] /\ UNCHANGED cache
    /\ UNCHANGED <<version, written, removed, live, found, key, been, crossed, page>>

\* The page is sent; the same thread may be asked again.
Serve(t) ==
    /\ step[t] = "failed" \/ (step[t] = "prune" /\ stale[t] = {})
    /\ step' = [step EXCEPT ![t] = "idle"] /\ rows' = [rows EXCEPT ![t] = << >>]
    /\ found' = [found EXCEPT ![t] = {}]
    /\ been' = [been EXCEPT ![t] = [p \in Paths |-> {}]] /\ crossed' = crossed \ {t}
    /\ UNCHANGED <<version, written, removed, cache, live, key, stale, page>>

\* Those who are listing have been there.
Witness == been' = [t \in Listers |-> IF step[t] = "idle" THEN been[t]
                        ELSE [p \in Paths |-> been[t][p] \cup {version'[p]}]]

WriteRecord(p) ==
    /\ written < MaxVersions /\ written' = written + 1
    /\ version' = [version EXCEPT ![p] = written'] /\ Witness
    /\ UNCHANGED <<removed, cache, step, live, found, key, rows, stale, crossed, page>>

RemoveRecord(p) ==
    /\ version[p] > 0 /\ removed < MaxRemovals /\ removed' = removed + 1
    /\ version' = [version EXCEPT ![p] = 0] /\ Witness
    /\ UNCHANGED <<written, cache, step, live, found, key, rows, stale, crossed, page>>

ViewNext ==
    \/ \E t \in Listers : Walk(t) \/ Measure(t) \/ Read(t) \/ Prune(t) \/ Delete(t) \/ Serve(t)
    \/ \E p \in Paths : WriteRecord(p) \/ RemoveRecord(p)

----------------------------------------------------------------------------
(* What is derived from a listing.                                         *)

\* _summarize: a record without provenance has no suite id, one of an old schema no domain.
Summaries == [domain: {"", "d"}, suite: {"", "s", "t"}, task: {"suite:s", "t"},
              adapter: {"a", "b"}, started: {1, 2}]

\* A listing is in the order of the paths until it is sorted: a derived page is made of
\* places in it.  list_records sorts newest first, and records of one moment stay in the
\* order of their paths.
FirstOfNewest(seq, S) == CHOOSE i \in S : \A j \in S :
    seq[j].started < seq[i].started \/ (seq[j].started = seq[i].started /\ i <= j)

\* Mutant of SuiteKey: only provenance names a suite.
SuiteKeyOfProvenance(r) == r.suite
\* _suite_key: without provenance it is the task, less its prefix.
SuiteKey(r) == IF r.suite # "" THEN r.suite ELSE IF r.task = "suite:s" THEN "s" ELSE r.task

\* _group: every placeable record in the bucket of its domain and suite.
Placeable(seq) == {i \in DOMAIN seq : seq[i].domain # "" /\ SuiteKey(seq[i]) # ""}
Bucket(seq, s) == {i \in Placeable(seq) : SuiteKey(seq[i]) = s}
Suites(seq)    == {SuiteKey(seq[i]) : i \in Placeable(seq)}

Adapters(seq, S) == {seq[i].adapter : i \in S}
Of(seq, S, a) == {i \in S : seq[i].adapter = a}

\* load_board: the first of the newest.
Board(seq) == [s \in Suites(seq) |->
    LET b == Bucket(seq, s) IN
      [runs |-> Cardinality(b), platforms |-> Cardinality(Adapters(seq, b)),
       latest |-> seq[FirstOfNewest(seq, b)]]]

\* load_suite: each platform's runs, sorted again, oldest first, and the last of them.
LastOfOldest(seq, S) == CHOOSE i \in S : \A j \in S :
    seq[j].started < seq[i].started \/ (seq[j].started = seq[i].started /\ j <= i)
SuitePage(seq, s) == LET b == Bucket(seq, s) IN
    [a \in Adapters(seq, b) |-> LET runs == Of(seq, b, a) IN
        [runs |-> Cardinality(runs), latest |-> seq[LastOfOldest(seq, runs)]]]

\* seen_pairs goes by provenance alone; platform_usage by domain and adapter.
Seen(seq) == {<<seq[i].suite, seq[i].adapter>> : i \in {j \in DOMAIN seq : seq[j].suite # ""}}
PlatformUsage(seq) == [a \in Adapters(seq, DOMAIN seq) |->
    Cardinality({i \in Of(seq, DOMAIN seq, a) : seq[i].domain # ""})]

\* load_trajectory: a run trace that holds a suite's spans; the declared artifact, readable
\* or not; the bare lifecycle.
Trails == [trace: {"none", "bare", "full"}, declared: BOOLEAN, artifact: {"none", "spans"}]
Trajectory(r) ==
    IF r.trace = "full" THEN "full"
    ELSE IF r.declared THEN (IF r.artifact = "spans" THEN "artifact" ELSE "unknown")
    ELSE IF r.trace = "bare" THEN "lifecycle" ELSE "unknown"

PageInit == page \in UNION {[1 .. n -> Summaries] : n \in 0 .. MaxRows}

----------------------------------------------------------------------------
(* Properties.                                                             *)

\* Whatever other listings, writes and removals go on beside it, a listing shows of each
\* file a content it had since the listing began, every file that was there all along, and
\* fails only when another listing pruned the cache at the same time.
ListingsAreTrue ==
    \A t \in Listers :
        /\ \A p \in DOMAIN rows[t] : rows[t][p] \in been[t][p]
        /\ step[t] = "prune" => \A p \in Paths : 0 \notin been[t][p] => p \in DOMAIN rows[t]
        /\ step[t] = "failed" => t \in crossed

\* The board and a suite's page are two views of one archive: each placeable record is
\* counted once in both and in its platform's usage, the newest is the newest in both, and a
\* benchmark that is said to have run on a platform has a page that shows it when its record
\* can be placed.
PagesAgree ==
    /\ \A s \in Suites(page) :
         LET board == Board(page)[s]
             suite == SuitePage(page, s) IN
         /\ board.runs =
              Cardinality({x \in (DOMAIN suite) \X DOMAIN page : x[2] <= suite[x[1]].runs})
         /\ board.platforms = Cardinality(DOMAIN suite)
         /\ \A a \in DOMAIN suite : suite[a].latest.started <= board.latest.started
         /\ suite[board.latest.adapter].latest.started = board.latest.started
    /\ \A pair \in Seen(page) :
         (\E i \in DOMAIN page : page[i].domain # "" /\ <<page[i].suite, page[i].adapter>> = pair)
            => pair[2] \in DOMAIN SuitePage(page, pair[1])
    /\ \A a \in Adapters(page, DOMAIN page) : PlatformUsage(page)[a] =
         Cardinality({x \in Suites(page) \X DOMAIN page :
             a \in DOMAIN SuitePage(page, x[1]) /\ x[2] <= SuitePage(page, x[1])[a].runs})
    /\ \A r \in Trails : r.declared /\ r.trace # "full" => Trajectory(r) # "lifecycle"
=============================================================================
