---------------------------- MODULE SuiteScores ----------------------------
(***************************************************************************)
(* SCORE (SuiteRunner.score, core/suite.py evaluate_with_metrics): the     *)
(* official evaluators as functions of the artifacts a finished suite left *)
(* behind.  A number is the fraction it is published as; timings and       *)
(* prices are only present or absent.  A mock run scores a bundled fixture *)
(* and is left out.                                                        *)
(***************************************************************************)
EXTENDS TpcOfficial, DisruptedRun

VARIABLES
    lost,       \* artifacts that cannot be read back
    facts,      \* what the run's outputs say, unit by unit
    scored      \* whether SCORE has run, or raised, and the record's measurements

scoreVars == <<lost, facts, scored>>

Units == 1 .. NUnits
NoFacts == [right |-> {}]
NotYet == [how |-> "no", numbers |-> {}]

ScoreInit == lost = {} /\ facts = NoFacts /\ scored = NotYet

Number(key, num, den, n) == [key |-> key, num |-> num, den |-> den, n |-> n, official |-> TRUE]
Timing(key, n) == Number(key, 0, 1, n)
Unofficial(key, num) == [key |-> key, num |-> num, den |-> 1, n |-> 0, official |-> FALSE]
When(cond, numbers) == IF cond THEN numbers ELSE {}

Artifacts ==
    CASE suite \in ChatSuites \cup {"queries"} -> {"rows", "summary"}
      [] suite \in Official -> {"doc"}
      [] suite = "swe" -> {"results", "usage"}
      [] suite = "tpcc" -> {"summary", "meta"}
      [] suite = "ycsb" -> {"output", "summary"}

\* Units answered right, answered at all, and with a pinned reference; whether
\* usage was reported, rows carry a subject, a tool printed its Return= lines.
Facts ==
    CASE suite \in ChatSuites ->
            {f \in [right : SUBSET Units, answered : SUBSET Units, metered : BOOLEAN,
                    grouped : {suite = "items"}, extra : {suite = "items", TRUE}] :
                f.right \subseteq f.answered}
      [] suite \in DuckSuites -> [right : SUBSET Units, ref : {{}, {1}, Units}]
      [] suite = "swe" -> [right : SUBSET Units, metered : BOOLEAN, torn : BOOLEAN]
      [] suite = "tpcc" -> [right : {Units}, goodput : BOOLEAN]
      [] suite = "ycsb" -> [right : {Units, {}}, returns : BOOLEAN]

(***************************************************************************)
(* core/aggregate.py and metric_runner.py over per-item scores             *)
(***************************************************************************)

\* Only ok and fail count: an item with no score is in neither.
Aggregate(key, pass, counted) ==
    When(counted # {}, {Number(key, Cardinality(pass \cap counted), Cardinality(counted),
                               Cardinality(counted))})

Subjects == {"odd", "even"}
Of(subject) == {k \in Units : (k % 2 = 1) = (subject = "odd")}

GroupKey(subject) ==
    IF subject = "odd" THEN "accuracy.by_group.odd" ELSE "accuracy.by_group.even"

ByGroup(f) ==
    When(f.grouped, UNION {Aggregate(GroupKey(g), f.right, Of(g)) : g \in Subjects})

\* rows_to_items gives an item an output only where the suite names the column;
\* human-eval names none.
Answered(f) == IF suite = "items" THEN f.answered ELSE {}
AnsweredRate(f) == When(f.extra, Aggregate("answered_rate", Answered(f), Units))

\* serving_measurements: the retry pair is this harness's, never official.
Serving(f) ==
    {Timing("avg_latency_ms", NUnits)}
        \cup When(f.metered, {Timing("total_tokens", 0), Timing("cost_usd", 0)})
        \cup When(Enabled, {Unofficial("retry_count", retried), Unofficial("retry_overhead_ms", 0)})

ScoreItems(f, gone) ==
    When("rows" \notin gone,
         Aggregate("accuracy", f.right, Units) \cup ByGroup(f) \cup AnsweredRate(f)
             \cup When("summary" \notin gone, Serving(f)))

(***************************************************************************)
(* The other evaluators                                                    *)
(***************************************************************************)

\* Correctness needs the scale factor, hence the summary, and counts only the
\* queries that reference pins.
ScoreQueries(f, gone) ==
    When("rows" \notin gone,
         {Timing("total_runtime_ms", NUnits), Timing("geomean_latency_ms", NUnits)}
             \cup When("summary" \notin gone, Aggregate("queries_passed", f.right, f.ref)))

AcidKey == <<"acid_atomicity", "acid_consistency", "acid_isolation", "acid_durability">>

Verdicts ==
    {Number(AcidKey[i], IF acid[i] = "pass" THEN 1 ELSE 0, 1, 0) :
        i \in {j \in 1 .. Len(acid) : acid[j] \in {"pass", "fail"}}}

\* OfficialTpchQphhEvaluator: streams times the first stream's queries.
ScoreQphH(f, gone) ==
    When("doc" \notin gone,
         {Timing("load_time_s", 0), Timing("power_at_size", 0),
          Number("throughput_at_size", NStreams * done[1], 1, 0), Timing("qphh_at_size", 0)}
             \cup Verdicts)

\* OfficialTpcdsQphdsEvaluator, which is also checked against the SF1 digests.
ScoreQphDS(f, gone) ==
    When("doc" \notin gone,
         {Timing(k, 0) : k \in {"load_time_s", "power_test_s", "throughput_test_s",
                                "maintenance_test_s", "qphds_at_size"}}
             \cup Aggregate("queries_passed", f.right, f.ref) \cup Verdicts)

\* The gold path copies canned usage lines; any malformed line drops the cost.
ScoreSwe(f, gone) ==
    LET resolved == Cardinality(f.right) IN
    When("results" \notin gone,
         {Number("resolved", resolved, NUnits, 0)}
             \cup When(resolved > 0 /\ ~f.torn /\ (f.metered \/ sut = "none"),
                       {Number("cost_per_resolved", 1, resolved, 0)}))

ScoreTpcc(f, gone) ==
    When("summary" \notin gone,
         {Timing("throughput_req_per_sec", 0), Timing("p99_latency_us", 0)}
             \cup When(f.goodput, {Timing("goodput_req_per_sec", 0), Timing("goodput_ratio", 0),
                                   Timing("tpmc_estimate", 0)}))

\* Mutant: an armed plan is taken for a disruption.
DisruptionArmed == Proxied
Disrupted == snap.at > 0

ScoreYcsb(f, gone) ==
    LET failed == NUnits - Cardinality(f.right) IN
    When("output" \notin gone,
         {Timing("throughput_ops", 0), Timing("read_p99_us", 0)}
             \cup When("summary" \notin gone /\ Disrupted, {Number("completed_under_disruption", 1, 1, 0)})
             \cup When(f.returns, {Number("ops_ok", Cardinality(f.right), 1, 0),
                                   Number("ops_failed", failed, 1, 0),
                                   Number("error_rate", failed, NUnits, 0)}))

ScoreOf(f, gone) ==
    CASE suite \in ChatSuites -> ScoreItems(f, gone)
      [] suite = "queries" -> ScoreQueries(f, gone)
      [] suite = "official" -> ScoreQphH(f, gone)
      [] suite = "officialds" -> ScoreQphDS(f, gone)
      [] suite = "swe" -> ScoreSwe(f, gone)
      [] suite = "tpcc" -> ScoreTpcc(f, gone)
      [] suite = "ycsb" -> ScoreYcsb(f, gone)

\* swe-bench reads the usage file its manifest names outside any try.
ScoreRaises(f, gone) ==
    suite = "swe" /\ "usage" \in gone /\ "results" \notin gone /\ f.right # {}

Score ==
    /\ stage = "over" /\ outcome = "bundle" /\ env /\ suite \notin Stored /\ scored = NotYet
    /\ \E f \in Facts, gone \in SUBSET Artifacts :
          /\ facts' = f /\ lost' = gone
          /\ scored' = IF ScoreRaises(f, gone) THEN [how |-> "raised", numbers |-> {}]
                       ELSE [how |-> "scored", numbers |-> ScoreOf(f, gone)]

(***************************************************************************)
(* Properties                                                              *)
(***************************************************************************)

Keyed == {m.key : m \in scored.numbers}
Value(key) == CHOOSE m \in scored.numbers : m.key = key

\* A group with no item in it has no number.
Share(key, part) == IF key \in Keyed THEN Value(key)[part] ELSE 0

\* A denominator is the work that was done: the items are those whose usage the
\* trace holds, the throughput queries those the streams finished.
CountsTheWork ==
    /\ "accuracy" \in Keyed =>
          /\ Value("accuracy").den = Cardinality({s.id[1] : s \in {t \in spans : t.usage}})
          /\ facts.grouped => \A part \in {"num", "den"} :
                Value("accuracy")[part] =
                    Share("accuracy.by_group.odd", part) + Share("accuracy.by_group.even", part)
          /\ suite = "items" => Value("accuracy").num <= Value("answered_rate").num
    /\ "total_runtime_ms" \in Keyed => Value("total_runtime_ms").n = pos
    /\ "throughput_at_size" \in Keyed =>
          LET f[w \in 0 .. NStreams] == IF w = 0 THEN 0 ELSE f[w - 1] + done[w] IN
          Value("throughput_at_size").num = f[NStreams]

\* Losing an artifact takes measurements away and changes none that stay.
OmitsOnly == scored.numbers \subseteq ScoreOf(facts, {})

\* No key twice; retries are claimed as what they were, and a disruption only if
\* the proxy carried it out (a reset may have found no connection to cut).
ClaimsAreEarned ==
    /\ \A m, o \in scored.numbers : m.key = o.key => m = o
    /\ \A m \in scored.numbers : ~m.official => suite \in ChatSuites /\ tries > 1
    /\ "retry_count" \in Keyed => Value("retry_count").num = Len(requests) - NUnits
    /\ "completed_under_disruption" \in Keyed => timer \in {"closing", "fired"} /\ stats.at > 0
    /\ "cost_per_resolved" \in Keyed => Value("resolved").num > 0
    /\ \A i \in 1 .. Len(acid) :
          AcidKey[i] \in Keyed => acid[i] \in {"pass", "fail"}

\* The record's numbers are about the run: computed from the work that was done,
\* by dimensions that fail one by one, claiming nothing that did not happen.
ScoresAreHonest == scored.how = "scored" => CountsTheWork /\ OmitsOnly /\ ClaimsAreEarned
=============================================================================
