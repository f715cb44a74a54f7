------------------------------ MODULE RunTrace ------------------------------
(***************************************************************************)
(* The two pictures a reader gets of one run.  While an official TPC run   *)
(* is going, phases.py reports steps (TpcProgress); when it is over,       *)
(* trace.py lays the measured intervals out again as the spans of          *)
(* trajectory.jsonl.  At finalize, emit_run_trace (core/tracing.py)        *)
(* re-emits whatever trajectory the record declares under the EXECUTE      *)
(* stage of the run's own trace, which traceview.py and the console draw.  *)
(*                                                                         *)
(* Times are whole units from the moment the Power test starts.  A span    *)
(* name or id is a record; the 16-hex ids are left out, an official span   *)
(* being identified by its name.  A trajectory written by another task     *)
(* ("foreign") passes no check at all: any ids, any parents, timestamps    *)
(* or none.                                                                *)
(***************************************************************************)
EXTENDS SuiteRunner, SequencesExt

VARIABLES
    doc,        \* the intervals official.json holds, once measured
    steps,      \* the steps reported live
    trail,      \* trajectory.jsonl, span by span
    trace       \* traces/<trace_id>.jsonl

traceVars == <<doc, steps, trail, trace>>

NoDoc == [suite |-> "foreign"]

TraceInit == doc = NoDoc /\ steps = {} /\ trail = << >> /\ trace = << >>

Name(leaf, phase, w, k) == [leaf |-> leaf, phase |-> phase, stream |-> w, nr |-> k]
Nobody == Name("", "", 0, 0)
Root == Name("official", "", 0, 0)

SumTo(f, n) ==
    LET s[k \in 0 .. n] == IF k = 0 THEN 0 ELSE s[k - 1] + f[k] IN s[n]
Larger(a, b) == IF a > b THEN a ELSE b

\* _Ids.span: attributes are kept as whether the span has a db.* one.
Span(name, parent, from, to, db) ==
    [id |-> name, parent |-> parent, start |-> from, end |-> Larger(from, to),
     timed |-> TRUE, db |-> db]

(***************************************************************************)
(* What was measured                                                       *)
(***************************************************************************)

\* Query k takes took[k] wherever it runs, a refresh function `rf'; `gap' passes
\* between two measured windows and `slack' between the last stream's end and
\* the join that stops the throughput clock.
Docs == [suite : Official, load : {2}, rf : {1}, dm : {1}, took : [1 .. NUnits -> 0 .. 1],
         gap : {0, 1}, slack : {0, 1}]

\* Stream w's permutation of the queries; stream 0 is the Power test's.
Order(w) == [k \in 1 .. NUnits |-> ((k + w - 1) % NUnits) + 1]

PowerNames(d) ==
    LET q == [k \in 1 .. NUnits |-> Name("q", "", 0, Order(0)[k])] IN
    IF d.suite = "official"
    THEN <<Name("rf1", "", 0, 0)>> \o q \o <<Name("rf2", "", 0, 0)>> ELSE q

PowerTook(d) ==
    LET q == [k \in 1 .. NUnits |-> d.took[Order(0)[k]]] IN
    IF d.suite = "official" THEN <<d.rf>> \o q \o <<d.rf>> ELSE q

StreamTook(d, w) == [k \in 1 .. NUnits |-> d.took[Order(w)[k]]]
PairTook(d) == [p \in 1 .. NStreams |-> 2 * d.rf]

\* elapsed_s of a throughput test: the slowest stream, and then some.
Elapsed(d) ==
    d.slack + Larger(SumTo(d.took, NUnits),
                     IF d.suite = "official" THEN SumTo(PairTook(d), NStreams) ELSE 0)

\* Intervals drawn one after another from t0, `gap' apart.
Laid(names, took, parent, t0, gap) ==
    [i \in DOMAIN took |->
        LET at == t0 + SumTo(took, i - 1) + gap * (i - 1) IN
        Span(names[i], parent, at, at + took[i], names[i].leaf \in {"q", "sq"})]

\* One stream of a throughput test: its own span, then its queries back to back.
Stream(d, prefix, block, w, t0) ==
    LET self == Name("stream", prefix, w, 0)
        names == [k \in 1 .. NUnits |-> Name("sq", prefix, w, Order(w)[k])] IN
    <<Span(self, block, t0, t0 + SumTo(StreamTook(d, w), NUnits), FALSE)>>
        \o Laid(names, StreamTook(d, w), self, t0, 0)

Pairs(d, block, t0) ==
    Laid([p \in 1 .. NStreams |-> Name("refresh-pair", "", 0, p)], PairTook(d), block, t0, 0)

StreamsOf(d, prefix, block, t0) ==
    LET s[w \in 0 .. NStreams] ==
            IF w = 0 THEN << >> ELSE s[w - 1] \o Stream(d, prefix, block, w, t0) IN
    s[NStreams]

(***************************************************************************)
(* The sealed waterfall                                                    *)
(***************************************************************************)

SealedLoad(d) == Span(Name("load", "", 0, 0), Root, -d.load, 0, FALSE)
PowerSpan(to) == Span(Name("power", "", 0, 0), Root, 0, to, FALSE)

SealedPower(d) ==
    LET took == PowerTook(d) IN
    <<PowerSpan(SumTo(took, Len(took)))>>
        \o Laid(PowerNames(d), took, Name("power", "", 0, 0), 0, 0)

PowerEnd(d) == SumTo(PowerTook(d), Len(PowerTook(d)))

\* build_official_spans: Power (with RF1 and RF2), then one throughput test.
SealedH(d) ==
    LET t == PowerEnd(d)
        block == Name("throughput", "", 0, 0) IN
    <<Span(Root, Nobody, -d.load, t + Elapsed(d), FALSE), SealedLoad(d)>>
        \o SealedPower(d)
        \o <<Span(block, Root, t, t + Elapsed(d), FALSE)>>
        \o StreamsOf(d, "", block, t) \o Pairs(d, block, t)

\* build_official_ds_spans: Power, TT1, DM1, TT2, DM2, each from where the one
\* before it ended.
SealedDS(d) ==
    LET Test(phase, t) ==
            LET block == Name(phase, "", 0, 0) IN
            <<Span(block, Root, t, t + Elapsed(d), FALSE)>> \o StreamsOf(d, phase, block, t)
        Maintenance(phase, t) == <<Span(Name(phase, "", 0, 0), Root, t, t + d.dm, FALSE)>>
        t1 == PowerEnd(d)
        t2 == t1 + Elapsed(d)
        t3 == t2 + d.dm
        t4 == t3 + Elapsed(d) IN
    <<Span(Root, Nobody, -d.load, t4 + d.dm, FALSE), SealedLoad(d)>>
        \o SealedPower(d)
        \o Test("throughput1", t1) \o Maintenance("dm1", t2)
        \o Test("throughput2", t3) \o Maintenance("dm2", t4)

Sealed(d) == IF d.suite = "official" THEN SealedH(d) ELSE SealedDS(d)

(***************************************************************************)
(* The live waterfall                                                      *)
(***************************************************************************)

StepsIn(laid) == {laid[i] : i \in DOMAIN laid}

\* run_power / run_power_queries: a step per measured window, and their own
\* window, which holds the gaps too (TPC-DS reads the clock after the last one).
LivePowerEnd(d) ==
    LET n == Len(PowerTook(d)) IN
    PowerEnd(d) + d.gap * (IF d.suite = "official" THEN n - 1 ELSE n)

LivePower(d) ==
    StepsIn(Laid(PowerNames(d), PowerTook(d), Name("power", "", 0, 0), 0, d.gap))
        \cup {PowerSpan(LivePowerEnd(d))}

\* replay_throughput, once the window has closed; `phase' prefixes TPC-DS's two.
Replayed(d, phase, t0) ==
    LET block == Name(IF phase = "" THEN "throughput" ELSE phase, "", 0, 0) IN
    StepsIn(StreamsOf(d, phase, block, t0))
        \cup (IF d.suite = "official" THEN StepsIn(Pairs(d, block, t0)) ELSE {})
        \cup {Span(block, Root, t0, t0 + Elapsed(d), FALSE)}

LiveTests(d) ==
    LET t1 == LivePowerEnd(d) + d.gap
        t2 == t1 + Elapsed(d) + d.gap
        t3 == t2 + d.dm + d.gap
        t4 == t3 + Elapsed(d) + d.gap IN
    IF d.suite = "official" THEN Replayed(d, "", t1)
    ELSE Replayed(d, "throughput1", t1) \cup Replayed(d, "throughput2", t3)
         \cup {Span(Name("dm1", "", 0, 0), Root, t2, t2 + d.dm, FALSE),
               Span(Name("dm2", "", 0, 0), Root, t4, t4 + d.dm, FALSE)}

\* finish_root closes the frame; the load step was reported by prepare().
Live(d) ==
    LET now == LET ends == {s.end : s \in LiveTests(d)} IN
               CHOOSE e \in ends : \A x \in ends : x <= e IN
    LivePower(d) \cup LiveTests(d)
        \cup {Span(Name("load", "", 0, 0), Root, -d.gap - d.load, -d.gap, FALSE),
              Span(Root, Nobody, -d.gap - d.load, now, FALSE)}

(***************************************************************************)
(* The run trace                                                           *)
(***************************************************************************)

\* validate_span looks at one span at a time, and only a suite's are validated.
Foreign ==
    LET ids == {Name(x, "", 0, 0) : x \in {"a", "b"}}
        Line(i) == [id : ids \cup {Nobody}, timed : BOOLEAN, start : {i}, end : {i + 1},
                    parent : ids \cup {Nobody, Name("gone", "", 0, 0)}, db : {FALSE}] IN
    {<<x, y, z>> : x \in Line(1), y \in Line(2), z \in Line(3)}

\* _in_parent_order.  The comprehension keeps a key where it first stood and the
\* last span that has it; a pass places whatever no longer waits for a parent.
Key(file, i) == IF file[i].id = Nobody THEN Name("#", "", 0, i) ELSE file[i].id
Keys(file) ==
    LET firsts == {i \in DOMAIN file : \A j \in 1 .. i - 1 : Key(file, j) # Key(file, i)} IN
    [n \in 1 .. Cardinality(firsts) |->
        Key(file, CHOOSE i \in firsts : Cardinality({j \in firsts : j <= i}) = n)]
Last1(file, key) ==
    CHOOSE i \in DOMAIN file :
        Key(file, i) = key /\ \A j \in i + 1 .. Len(file) : Key(file, j) # key

Pass(file, before) ==
    LET keys == before.wait
        run[n \in 0 .. Len(keys)] ==
            IF n = 0 THEN [before EXCEPT !.wait = << >>]
            ELSE LET was == run[n - 1]
                     up == file[Last1(file, keys[n])].parent IN
                 IF \/ up = Nobody
                    \/ up \notin ToSet(was.wait) \cup {keys[m] : m \in n .. Len(keys)}
                 THEN [was EXCEPT !.placed = Append(@, keys[n])]
                 ELSE [was EXCEPT !.wait = Append(@, keys[n])] IN
    run[Len(keys)]

\* Mutant: the replay keeps the order of the file.
InFileOrder(file) == [n \in DOMAIN Keys(file) |-> Last1(file, Keys(file)[n])]
InParentOrder(file) ==
    LET after[n \in 0 .. Len(file)] ==
            IF n = 0 THEN [wait |-> Keys(file), placed |-> << >>]
            ELSE Pass(file, after[n - 1])
        final == after[Len(file)]
        keys == final.placed \o final.wait IN
    [n \in DOMAIN keys |-> Last1(file, keys[n])]

\* The spans of emit_run_trace itself: uid 0 is csbench.run, then the stages.
RunSpan == 0
SetupStage == -1
ExecuteStage == -2
ScoreStage == -3
Own(uid, up, from, to) == [uid |-> uid, up |-> up, start |-> from, end |-> to, kind |-> "lifecycle"]

\* _replay_trajectory: a span without whole timestamps is passed over; one
\* hangs under its parent if that was emitted before it, else under the stage.
Replay(file) ==
    LET order == InParentOrder(file)
        upTo[n \in 0 .. Len(order)] ==
            IF n = 0 THEN [byId |-> {}, out |-> << >>]
            ELSE LET was == upTo[n - 1]
                     s == file[order[n]]
                     up == {e \in was.byId : file[e].id = s.parent /\ s.parent # Nobody} IN
                 IF ~s.timed THEN was
                 ELSE [byId |-> was.byId \cup {order[n]},
                       out |-> Append(was.out,
                            [uid |-> order[n], start |-> s.start, end |-> Larger(s.start, s.end),
                             up |-> IF up = {} THEN ExecuteStage ELSE CHOOSE e \in up : TRUE,
                             kind |-> IF s.db THEN "query" ELSE "phase"])] IN
    upTo[Len(order)].out

\* LocalFileSpanExporter: spans arrive as they end; the file holds the root,
\* then all others by start.
Exported(ended) ==
    LET Before(i, j) ==
            LET a == ended[i]
                b == ended[j] IN
            \/ a.uid = RunSpan /\ b.uid # RunSpan
            \/ /\ (a.uid = RunSpan) = (b.uid = RunSpan)
               /\ a.start < b.start \/ (a.start = b.start /\ i < j) IN
    LET order == SortSeq([i \in DOMAIN ended |-> i], Before) IN
    [n \in DOMAIN order |-> ended[order[n]]]

EmitRunTrace ==
    /\ trail # << >> /\ trace = << >>
    /\ trace' = Exported(<<Own(SetupStage, RunSpan, -20, -11)>> \o Replay(trail)
                          \o <<Own(ExecuteStage, RunSpan, -10, 80), Own(ScoreStage, RunSpan, 80, 81),
                               Own(RunSpan, RunSpan, -20, 81)>>)
    /\ UNCHANGED <<doc, steps, trail>>

\* An official run's document, its spans and the steps reported on the way; or
\* the trajectory some other task handed over.
WriteTrail ==
    /\ suite = "trail" /\ trail = << >>
    /\ \/ \E d \in Docs : doc' = d /\ trail' = Sealed(d) /\ steps' = Live(d)
       \/ trail' \in Foreign /\ UNCHANGED <<doc, steps>>
    /\ UNCHANGED trace

TraceStep == WriteTrail \/ EmitRunTrace

(***************************************************************************)
(* Reading it                                                              *)
(***************************************************************************)

Uids == {trace[i].uid : i \in DOMAIN trace}
UpOf(u) == trace[CHOOSE i \in DOMAIN trace : trace[i].uid = u].up

\* The spans above u, up to the first that is its own parent.
Above(u) ==
    LET climb[n \in 0 .. Len(trace)] ==
            IF n = 0 THEN u ELSE LET x == climb[n - 1] IN IF x \in Uids THEN UpOf(x) ELSE x IN
    {climb[n] : n \in 0 .. Len(trace)} \ {u}
Level(u) == Cardinality(Above(u))
Below(u) == {x \in Uids : u \in Above(x)}

\* render_show: the rows down to a depth, and what their last level leaves out.
Rows(depth) == {u \in Uids : Level(u) <= depth}
HiddenBelow(u, depth) == IF Level(u) = depth THEN Cardinality(Below(u)) ELSE 0

(***************************************************************************)
(* Properties                                                              *)
(***************************************************************************)

Took(span) == span.end - span.start
SpanNamed(drawn, name) == CHOOSE s \in drawn : s.id = name
Measured == doc # NoDoc

\* Two pieces of code lay out one measurement.  They draw the same spans under
\* the same parents, each once; every window that was measured takes as long in
\* both; the sealed picture only closes the gaps between them, so nothing starts
\* later in it but the load; and it nests, a stream's queries never overlapping.
WaterfallsAgree ==
    LET sealed == StepsIn(trail) IN
    Measured =>
        /\ Cardinality({s.id : s \in sealed}) = Len(trail)
        /\ {<<s.id, s.parent>> : s \in sealed} = {<<s.id, s.parent>> : s \in steps}
        /\ \A s \in sealed :
              LET live == SpanNamed(steps, s.id) IN
              /\ s.id \notin {Root, Name("power", "", 0, 0)} => Took(s) = Took(live)
              /\ Took(s) <= Took(live)
              /\ s.id \notin {Root, Name("load", "", 0, 0)} => s.start <= live.start
              /\ s.id # Root =>
                    LET up == SpanNamed(sealed, s.parent) IN up.start <= s.start /\ s.end <= up.end
        /\ \A s, t \in sealed :
              s.id.leaf = "sq" /\ t.id.leaf = "sq" /\ s.parent = t.parent /\ s # t =>
                  s.end <= t.start \/ t.end <= s.start

\* The last line with an id speaks for it; where a line's parents lead.
Kept == {i \in DOMAIN trail : i = Last1(trail, Key(trail, i))}
ParentLine(i) ==
    LET up == {j \in Kept : trail[j].id # Nobody /\ trail[j].id = trail[i].parent} IN
    IF up = {} THEN 0 ELSE CHOOSE j \in up : TRUE
Circular(i) ==
    LET climb[n \in 0 .. Len(trail)] ==
            IF n = 0 THEN i ELSE LET x == climb[n - 1] IN IF x = 0 THEN 0 ELSE ParentLine(x) IN
    climb[Len(trail)] # 0

\* Whatever a trajectory holds, the run trace is one tree under csbench.run with
\* every timed span in it once, where its own parent says unless that parent was
\* dropped, is missing, or is its own descendant; and a reader who cuts the tree
\* at some depth is told exactly how many spans the cut hides.
ReplayIsFaithful ==
    trace # << >> =>
        /\ \A i \in DOMAIN trail :
              Cardinality({n \in DOMAIN trace : trace[n].uid = i})
                  = IF i \in Kept /\ trail[i].timed THEN 1 ELSE 0
        /\ \A u \in Uids \cap DOMAIN trail :
              LET up == ParentLine(u) IN
              \/ UpOf(u) = IF up # 0 /\ trail[up].timed THEN up ELSE ExecuteStage
              \/ Circular(u) /\ UpOf(u) = ExecuteStage
        /\ \A u \in Uids : RunSpan \in {u} \cup Above(u)
        /\ \A depth \in 1 .. 3 :
              MapThenSumSet(LAMBDA u : 1 + HiddenBelow(u, depth), Rows(depth)) = Len(trace)
        /\ Measured =>
              Cardinality({n \in DOMAIN trace : trace[n].kind = "query"})
                  = NUnits * (1 + NStreams * (IF doc.suite = "official" THEN 1 ELSE 2))

\* What a reader of a finished run is shown is what was measured.
TraceIsFaithful == WaterfallsAgree /\ ReplayIsFaithful
=============================================================================
