----------------------------- MODULE LoadProbes ------------------------------
(***************************************************************************)
(* The probes that measure: each looks at a platform whose real behaviour  *)
(* it does not know (world), one call or one burst at a time (seen), and   *)
(* derives a verdict.  The implementations are the in-region probe         *)
(* (probe/dataplane.py) and the live probes of the two cloud transports.   *)
(*                                                                         *)
(* Latencies are reduced to what a probe tells apart: the tier of a wake,  *)
(* warm or cold, rejected or served.  A blip is an observation that does   *)
(* not show what the platform does: a fast error, a slow network, a lost   *)
(* answer.  Bounds: MaxBlips; MaxCalls, the calls a load has time for;     *)
(* shorter curves and fewer warm-ups than the defaults (Calls, WarmPolls,  *)
(* Samples, Retries).  Times are the code's own seconds.                   *)
(***************************************************************************)
EXTENDS Naturals, Sequences, FiniteSets

CONSTANTS Workers, MaxCalls, MaxBlips

ASSUME LoadAssumption ==
    IsFiniteSet(Workers) /\ Workers # {} /\ MaxCalls \in Nat /\ MaxBlips \in Nat

VARIABLES
    measured,        \* [impl, name]: which implementation of which probe
    world,      \* what the platform really does
    seen,       \* what the probe has observed, in order
    blips,      \* observations that were wrong
    crew,       \* the workers of a load: "idle", "calling", "gone"
    tally,      \* the counters they share under a lock
    started,    \* calls made by the workers
    over        \* the deadline of the load has passed

loadVars == <<measured, world, seen, blips, crew, tally, started, over>>
solo == <<crew, tally, started, over>>

Impls == {"probe", "aliyun", "aws"}
ProbeOnly == {"honor", "curve", "ttft"}
SdkOnly == {"isolation", "writes"}
Everywhere == {"retention", "rate", "ceiling", "scaling", "load", "soak", "cancel"}
Measurements == {j \in [impl : Impls, name : ProbeOnly \cup SdkOnly \cup Everywhere] :
            /\ j.name \in ProbeOnly => j.impl = "probe"
            /\ j.name \in SdkOnly => j.impl # "probe"}

Never == 9999
Is(impl, name) == measured = [impl |-> impl, name |-> name]
Blip == blips < MaxBlips /\ blips' = blips + 1

\* One more observation: the truth, or something else at the price of a blip.
Sees(truth, outcomes) ==
    /\ \/ seen' = Append(seen, truth) /\ UNCHANGED blips
       \/ Blip /\ \E o \in outcomes \ {truth} : seen' = Append(seen, o)
    /\ UNCHANGED <<measured, world, solo>>

Where(P(_)) == {i \in DOMAIN seen : P(seen[i])}
Least(S) == CHOOSE i \in S : \A j \in S : i <= j
Greatest(S) == CHOOSE i \in S : \A j \in S : j <= i
Maximum(a, b) == IF a > b THEN a ELSE b
Ended(n) == seen # <<>> /\ seen[Len(seen)] = n

(***************************************************************************)
(* Idle retention: one session, woken after each idle interval             *)
(***************************************************************************)
Tiers == {"shallow", "deep", "cold"}

\* What a wake after idle seconds costs, bucketed as _classify_wake does.
ClassifyWake(idle) ==
    IF idle >= world.cold THEN "cold" ELSE IF idle >= world.deep THEN "deep" ELSE "shallow"

IdleIntervals == <<30, 120, 300>>
RetentionOver == Len(seen) = Len(IdleIntervals) \/ Ended("cold")
Retention ==
    /\ Is("probe", "retention") /\ ~RetentionOver
    /\ Sees(ClassifyWake(IdleIntervals[Len(seen) + 1]), Tiers)

IdleOf(tier, Pick(_), ivals) ==
    LET S == Where(LAMBDA t : t = tier) IN IF S = {} THEN Never ELSE ivals[Pick(S)]

RetentionVerdict ==
    [shallow |-> IdleOf("shallow", Greatest, IdleIntervals),
     deepOnset |-> IdleOf("deep", Least, IdleIntervals),
     coldRecycle |-> IdleOf("cold", Least, IdleIntervals),
     capped |-> Len(seen) = Len(IdleIntervals) /\ ~Ended("cold")]

\* The transports' own sweep makes every call on a fresh session: what it
\* sees has nothing to do with how long an instance stays alive.
SdkIntervals == <<10, 30, 60>>
FreshWake(impl) ==
    /\ Is(impl, "retention")
    /\ Len(seen) < Len(SdkIntervals) /\ ~Ended("cold")
    /\ \E t \in {"shallow", "cold"} : seen' = Append(seen, t)
    /\ UNCHANGED <<measured, world, blips, solo>>
AliyunRetention == FreshWake("aliyun")
AwsRetention == FreshWake("aws")

\* Idle-timeout honour: one wake inside the promised window, then the decay.
DecayIntervals == <<60, 180, 300>>
PromiseIdleAll == Maximum(2, world.promised)
PromiseIdle == Maximum(2, (world.promised * 8) \div 10)
HonorIdle == <<PromiseIdle>> \o DecayIntervals
HonorOver == Len(seen) = Len(HonorIdle) \/ (Len(seen) > 1 /\ Ended("cold"))
Honor ==
    /\ Is("probe", "honor") /\ ~HonorOver
    /\ Sees(ClassifyWake(HonorIdle[Len(seen) + 1]), Tiers)

Decay(tier) ==
    LET S == {i \in DOMAIN seen : i > 1 /\ seen[i] = tier}
    IN  IF S = {} THEN Never ELSE HonorIdle[Least(S)]
HonorVerdict ==
    [honored |-> seen[1] = "shallow",
     deepOnset |-> Decay("deep"),
     coldOnset |-> Decay("cold"),
     capped |-> Len(seen) = Len(HonorIdle) /\ ~Ended("cold")]

(***************************************************************************)
(* Ladders of bursts                                                       *)
(***************************************************************************)
\* A throttled request: its status is read together with Retry-After, whose
\* conversion to a number fails on a date; the call then counts as status 0.
RawCall == IF world.header = "date" THEN 0 ELSE 429

RateLevels == <<10, 20, 40, 80>>
RateOver == Len(seen) = Len(RateLevels) \/ Ended(429)
RateBurst(impl) ==
    /\ Is(impl, "rate") /\ ~RateOver
    /\ Sees(IF RateLevels[Len(seen) + 1] > world.limit THEN RawCall ELSE 200, {0, 200})
ProbeRate == RateBurst("probe")
AliyunRate == RateBurst("aliyun")
AwsRate == RateBurst("aws")

Onset == LET S == Where(LAMBDA s : s = 429) IN IF S = {} THEN 0 ELSE RateLevels[Least(S)]
RateVerdict ==
    [onset |-> Onset, honors |-> Onset # 0, retryAfter |-> Onset # 0 /\ world.header = "secs"]

\* More than a tenth of a burst rejected: 429, 503 or no answer.
CeilingLevels == <<50, 100, 200, 500>>
CeilingOver == Len(seen) = Len(CeilingLevels) \/ Ended(429) \/ Ended(503)
CeilingBurst(impl) ==
    /\ Is(impl, "ceiling") /\ ~CeilingOver
    /\ Sees(IF CeilingLevels[Len(seen) + 1] > world.limit
            THEN IF world.hard THEN 429 ELSE 503 ELSE 200, {200, 503})
ProbeCeiling == CeilingBurst("probe")
AliyunCeiling == CeilingBurst("aliyun")
AwsCeiling == CeilingBurst("aws")

CeilingVerdict ==
    [maxInFlight |-> CeilingLevels[Len(seen)], hardLimit |-> Ended(429)]

\* Three bursts per level, the median of their success rates: 1 or 0 here.
\* Levels that are not positive are skipped.
ScalingLevels == <<0, 1, 4, 16>>
RanLevels ==
    LET ran == {i \in DOMAIN ScalingLevels : ScalingLevels[i] > 0}
    IN  [l \in 1 .. Cardinality(ran) |->
            ScalingLevels[CHOOSE i \in ran : Cardinality({j \in ran : j < i}) = l - 1]]
Reps == 3
Succeeds(n) == IF n > world.limit THEN 0 ELSE 1
ScalingOver == Len(seen) = Len(RanLevels) * Reps
ScalingBurst(impl) ==
    /\ Is(impl, "scaling") /\ ~ScalingOver
    /\ Sees(Succeeds(RanLevels[Len(seen) \div Reps + 1]), {0, 1})
ProbeScaling == ScalingBurst("probe")
AliyunScaling == ScalingBurst("aliyun")
AwsScaling == ScalingBurst("aws")

LastOf(vals) == vals[Len(vals)]
\* sorted(vals)[len(vals) // 2]: the value at that rank.
Median(vals) ==
    LET rank == Len(vals) \div 2
    IN  CHOOSE v \in {vals[i] : i \in DOMAIN vals} :
            /\ Cardinality({i \in DOMAIN vals : vals[i] < v}) <= rank
            /\ Cardinality({i \in DOMAIN vals : vals[i] <= v}) > rank
ScalePoint(l) == Median(SubSeq(seen, (l - 1) * Reps + 1, l * Reps))

(***************************************************************************)
(* Load and soak: workers that call until the deadline                     *)
(***************************************************************************)
CallTypes == {"ok", "transport", "runtime", "tool"}
LoadJobs == {"load", "soak"}
Crew == IF measured.name = "load" THEN Workers ELSE {CHOOSE w \in Workers : TRUE}
NoTally == [c \in CallTypes |-> 0]

CallBegins(impl, name, w) ==
    /\ Is(impl, name) /\ w \in Crew
    /\ crew[w] = "idle" /\ ~over /\ started < MaxCalls
    /\ crew' = [crew EXCEPT ![w] = "calling"]
    /\ started' = started + 1
    /\ UNCHANGED <<measured, world, seen, blips, tally, over>>

\* The counters are updated under the lock, also for a call that outlives the deadline.
CountedInTime(t) == IF over THEN tally ELSE [tally EXCEPT ![t] = @ + 1]
Counted(t) == [tally EXCEPT ![t] = @ + 1]

CallEnds(impl, name, w) ==
    /\ Is(impl, name)
    /\ crew[w] = "calling"
    /\ crew' = [crew EXCEPT ![w] = "idle"]
    /\ \E t \in CallTypes : tally' = Counted(t)
    /\ UNCHANGED <<measured, world, seen, blips, started, over>>

WorkerLeaves(impl, name, w) ==
    /\ Is(impl, name) /\ w \in Crew
    /\ crew[w] = "idle" /\ over
    /\ crew' = [crew EXCEPT ![w] = "gone"]
    /\ UNCHANGED <<measured, world, seen, blips, tally, started, over>>

Works(impl, name) ==
    \E w \in Workers :
        CallBegins(impl, name, w) \/ CallEnds(impl, name, w) \/ WorkerLeaves(impl, name, w)

ProbeLoad == Works("probe", "load")
AliyunLoad == Works("aliyun", "load")
AwsLoad == Works("aws", "load")
ProbeSoak == Works("probe", "soak")
AliyunSoak == Works("aliyun", "soak")
AwsSoak == Works("aws", "soak")

Deadline ==
    /\ measured.name \in LoadJobs /\ ~over
    /\ over' = TRUE
    /\ UNCHANGED <<measured, world, seen, blips, crew, tally, started>>

LoadOver == measured.name \in LoadJobs /\ \A w \in Crew : crew[w] = "gone"
Errors == tally["transport"] + tally["runtime"] + tally["tool"]
\* The load divides by at least one request, and reports it.
Requests == LET n == tally["ok"] + Errors IN IF measured.name = "load" THEN Maximum(n, 1) ELSE n

(***************************************************************************)
(* Curves: repeated calls on one session                                   *)
(***************************************************************************)
Calls == 4          \* STARTUP_CURVE_CALLS is 8
WarmPolls == 3      \* max_warm_attempts is 6
Samples == 2
Retries == 2        \* sample_retries is 3

\* A call's latency; an instance is cold unless the pool was warm or it is reused.
Latency(first) == IF world.prewarmed \/ (~first /\ world.reuse) THEN "warm" ELSE "cold"
CallKinds == {"warm", "cold", "failed"}

Curve ==
    /\ Is("probe", "curve") /\ Len(seen) < Calls
    /\ Sees(Latency(seen = <<>>), CallKinds)

WarmVals == Cardinality({i \in 2..Len(seen) : seen[i] = "warm"})
CurveErrors == Cardinality(Where(LAMBDA s : s = "failed"))
WarmEnough(n, of) == n >= Maximum(1, (of * 6) \div 10)
ReliableOnAnyWarm == WarmVals > 0
Reliable == WarmVals > 0 /\ CurveErrors = 0 /\ WarmEnough(WarmVals, Len(seen) - 1)
CurveVerdict ==
    [cold |-> seen[1],
     warmedAfter |-> LET S == Where(LAMBDA s : s = "warm") IN IF S = {} THEN Never ELSE Least(S),
     reliable |-> Reliable]

\* Time to first token: polls until warm, then each sample in a few tries.
\* "|" closes the polls and each sample's tries.  An agent that does not
\* stream answers 0.0, which is under every threshold: warm, always.
FirstToken(first) == IF world.stream THEN Latency(first) ELSE "warm"
TokenKinds == IF world.stream THEN CallKinds ELSE {"warm", "failed"}
PollsDone == Cardinality(Where(LAMBDA s : s = "|"))
Tries == Len(seen) - (IF PollsDone = 0 THEN 0 ELSE Greatest(Where(LAMBDA s : s = "|")))
TtftPhaseOver ==
    \/ Tries > 0 /\ Ended("warm")
    \/ Tries = (IF PollsDone = 0 THEN WarmPolls ELSE Retries)
TtftOver == PollsDone = Samples + 1
Ttft ==
    /\ Is("probe", "ttft") /\ ~TtftOver
    /\ IF TtftPhaseOver
       THEN seen' = Append(seen, "|") /\ UNCHANGED <<measured, world, blips, solo>>
       ELSE Sees(FirstToken(\A i \in DOMAIN seen : seen[i] = "failed"), TokenKinds)

Polls == SubSeq(seen, 1, Least(Where(LAMBDA s : s = "|")) - 1)
TtftVerdict ==
    LET answered == {i \in DOMAIN Polls : Polls[i] # "failed"}
        got == Cardinality({i \in DOMAIN seen : seen[i] = "warm" /\ i > Len(Polls)})
    IN  [cold |-> IF answered = {} THEN "none" ELSE Polls[Least(answered)],
         samples |-> got,
         reliable |-> (\E i \in DOMAIN Polls : Polls[i] = "warm") /\ WarmEnough(got, Samples)]

(***************************************************************************)
(* Cancellation, isolation and concurrent writes                           *)
(***************************************************************************)
\* A call, a call with a very short timeout, a call.  Any exception of the
\* second one counts as an honoured cancellation.
CancelStep(impl) ==
    /\ Is(impl, "cancel") /\ Len(seen) < 3
    /\ CASE Len(seen) = 0 -> Sees("ok", {"ok", "failed"})
         [] Len(seen) = 1 -> Sees(IF world.slow THEN "timeout" ELSE "ok", {"refused"})
         [] OTHER -> Sees(IF world.stuck THEN "failed" ELSE "ok", {"ok", "failed"})
ProbeCancel == CancelStep("probe")
AliyunCancel == CancelStep("aliyun")
AwsCancel == CancelStep("aws")

CancelVerdict ==
    [honored |-> seen[2] # "ok", teardown |-> seen[3] = "ok",
     residual |-> {i \in {1, 3} : seen[i] = "failed"}]

\* Session a stores a sentinel, session b reads; a failing store or read
\* leaves the tenant "isolated".
IsolationStep(impl) ==
    /\ Is(impl, "isolation") /\ Len(seen) < 2 /\ ~Ended("failed")
    /\ Sees(IF Len(seen) = 0 THEN "stored" ELSE IF world.leaky THEN "sentinel" ELSE "empty",
            {"failed"})
AliyunIsolation == IsolationStep("aliyun")
AwsIsolation == IsolationStep("aws")
TenantIsolated == ~Ended("sentinel")

\* Two sessions store their own id under one key, in parallel, then each reads
\* its own back.  A backend that mixes sessions keeps the later one.  A
\* failing store or read makes the capability unsupported.
WritesStep(impl) ==
    /\ Is(impl, "writes") /\ Len(seen) < 2 /\ ~Ended("failed")
    /\ \/ /\ Len(seen) = 0
          /\ \E last \in {"a", "b"} : seen' = Append(seen, last) /\ UNCHANGED blips
          /\ UNCHANGED <<measured, world, solo>>
       \/ /\ Len(seen) = 1
          /\ Sees(IF world.leaky THEN seen[1] ELSE "both", {"failed"})
AliyunWrites == WritesStep("aliyun")
AwsWrites == WritesStep("aws")
Winner == seen[2]

-----------------------------------------------------------------------------
Thresholds == {0, 2, 10, 50, 200, 400}
Worlds(name) ==
    CASE name \in {"retention", "honor"} ->
            {w \in [deep : Thresholds, cold : Thresholds, promised : {2, 10}] :
                w.deep <= w.cold /\ (name = "retention" => w.promised = 10)}
      [] name = "rate" -> [limit : {5, 15, 60, 100}, header : {"secs", "none", "date"}]
      [] name = "ceiling" -> [limit : {20, 150, 700}, hard : BOOLEAN]
      [] name = "scaling" -> [limit : {0, 2, 8, 50}]
      [] name = "curve" -> [prewarmed : BOOLEAN, reuse : BOOLEAN]
      [] name = "ttft" -> [prewarmed : BOOLEAN, reuse : BOOLEAN, stream : BOOLEAN]
      [] name = "cancel" -> [slow : BOOLEAN, stuck : BOOLEAN]
      [] name \in SdkOnly -> [leaky : BOOLEAN]
      [] OTHER -> {[plain |-> TRUE]}

LoadInit ==
    /\ measured \in Measurements
    /\ world \in Worlds(measured.name)
    /\ seen = <<>>
    /\ blips = 0
    /\ crew = [w \in Workers |-> "idle"]
    /\ tally = NoTally
    /\ started = 0
    /\ over = FALSE

LoadNext ==
    \/ Retention \/ AliyunRetention \/ AwsRetention \/ Honor
    \/ ProbeRate \/ AliyunRate \/ AwsRate
    \/ ProbeCeiling \/ AliyunCeiling \/ AwsCeiling
    \/ ProbeScaling \/ AliyunScaling \/ AwsScaling
    \/ ProbeLoad \/ AliyunLoad \/ AwsLoad \/ ProbeSoak \/ AliyunSoak \/ AwsSoak \/ Deadline
    \/ Curve \/ Ttft
    \/ ProbeCancel \/ AliyunCancel \/ AwsCancel
    \/ AliyunIsolation \/ AwsIsolation \/ AliyunWrites \/ AwsWrites

-----------------------------------------------------------------------------
\* The greatest interval below bound, the least at or above it.
LastBelow(ivals, bound) ==
    LET S == {i \in DOMAIN ivals : ivals[i] < bound} IN IF S = {} THEN Never ELSE ivals[Greatest(S)]
FirstFrom(ivals, bound) ==
    LET S == {i \in DOMAIN ivals : ivals[i] >= bound} IN IF S = {} THEN Never ELSE ivals[Least(S)]

\* The idle sweeps bracket the platform's real thresholds when every wake was
\* seen for what it was; a sweep is capped exactly when it saw no recycle,
\* whatever it saw; and with a promise longer than the two seconds the
\* in-promise wake is made at, only a platform that lets the instance go
\* within the promise is accused (probe/dataplane.py, run_warm_retention and
\* run_idle_timeout_honor).
IdleVerdictsHold ==
    /\ Is("probe", "retention") /\ RetentionOver =>
        LET v == RetentionVerdict
        IN  /\ v.capped <=> v.coldRecycle = Never
            /\ blips = 0 =>
                /\ v.shallow = LastBelow(IdleIntervals, world.deep)
                /\ v.coldRecycle = FirstFrom(IdleIntervals, world.cold)
                /\ v.deepOnset # Never => world.deep <= v.deepOnset /\ v.deepOnset < world.cold
    /\ Is("probe", "honor") /\ HonorOver =>
        LET v == HonorVerdict
        IN  /\ v.capped <=> v.coldOnset = Never
            /\ blips = 0 =>
                /\ v.coldOnset = FirstFrom(DecayIntervals, world.cold)
                /\ world.promised > 2 /\ ~v.honored => world.deep < world.promised
                /\ world.promised > 2 /\ world.deep >= world.promised => v.honored

\* A ladder stops at the right rung: the onset of throttling is the lowest
\* level over the platform's limit (when Retry-After can be read), no level
\* under the limit is ever named, a ceiling is the first level rejected or
\* the last one tried, and a single outlying repetition never moves a
\* scaling point (dataplane.py: "stable even if 1/3 reps is an outlier").
LaddersHold ==
    /\ measured.name = "rate" /\ RateOver =>
        /\ RateVerdict.onset # 0 => RateVerdict.onset > world.limit
        /\ blips = 0 /\ world.header # "date" =>
               Onset = (LET f == FirstFrom(RateLevels, world.limit + 1)
                        IN  IF f = Never THEN 0 ELSE f)
    /\ measured.name = "ceiling" /\ CeilingOver =>
        /\ CeilingVerdict.hardLimit => world.hard /\ CeilingVerdict.maxInFlight > world.limit
        /\ blips = 0 =>
               CeilingVerdict.maxInFlight =
                   (LET f == FirstFrom(CeilingLevels, world.limit + 1)
                     IN  IF f = Never THEN 500 ELSE f)
    /\ measured.name = "scaling" /\ ScalingOver /\ blips <= 1 =>
        \A l \in DOMAIN RanLevels : ScalePoint(l) = Succeeds(RanLevels[l])

\* A load reports every call it made, the ones in flight at the deadline
\* included, each error under one cause; a load without a call reports one
\* request all the same.
LoadAddsUp ==
    LoadOver =>
        /\ Requests = (IF started = 0 /\ measured.name = "load" THEN 1 ELSE started)
        /\ Errors + tally["ok"] = started

\* The curves and the single-session probes say what the platform did when
\* nothing went wrong; and when something did, no reuse is called reliable
\* on a curve with an error, and no leak is claimed of a backend without one.
\* The exception is the first-token probe of an agent that does not stream:
\* it reports a cold start of 0.0 and a reliable reuse, whatever the platform
\* does (dataplane.py, measure_ttft).
SessionVerdictsHold ==
    /\ Is("probe", "curve") /\ Len(seen) = Calls =>
        /\ CurveVerdict.reliable => CurveErrors = 0 /\ 2 * WarmVals >= Len(seen) - 2
        /\ blips = 0 =>
            /\ CurveVerdict.reliable <=> (world.reuse \/ world.prewarmed)
            /\ CurveVerdict.cold = Latency(TRUE)
            /\ CurveVerdict.warmedAfter =
                   (IF world.prewarmed THEN 1 ELSE IF world.reuse THEN 2 ELSE Never)
    /\ Is("probe", "ttft") /\ TtftOver =>
        /\ TtftVerdict.samples <= Samples
        /\ blips = 0 =>
            /\ TtftVerdict.reliable <=> (world.reuse \/ world.prewarmed \/ ~world.stream)
            /\ world.stream => TtftVerdict.cold = Latency(TRUE)
    /\ measured.name = "cancel" /\ Len(seen) = 3 =>
        /\ CancelVerdict.residual = {} => CancelVerdict.teardown
        /\ blips = 0 => /\ CancelVerdict.honored <=> world.slow
                        /\ CancelVerdict.teardown <=> ~world.stuck
    /\ measured.name = "isolation" => (~TenantIsolated => world.leaky)
    /\ measured.name = "isolation" /\ Len(seen) = 2 /\ blips = 0 =>
           (TenantIsolated <=> ~world.leaky)
    /\ measured.name = "writes" /\ Len(seen) = 2 /\ blips = 0 => (Winner = "both" <=> ~world.leaky)

\* What a measuring probe says of the platform is so.
LoadVerdictsHold ==
    IdleVerdictsHold /\ LaddersHold /\ LoadAddsUp /\ SessionVerdictsHold
=============================================================================
