---------------------------- MODULE SuiteRunner ----------------------------
(***************************************************************************)
(* core/suite_runner.py: SuiteRunner.execute drives one benchmark suite    *)
(* through prepare, run, teardown, staging and span validation; and the    *)
(* suites whose run() is one sequential loop: the TPC query set, the LLM   *)
(* endpoint suites (mmlu, gsm8k, human-eval) with their opt-in retries,    *)
(* TPC-C's one opaque tool, and SWE-bench's solve loop and harness.  The   *)
(* official TPC phases and the disrupted YCSB run are modules of their own *)
(* (TpcOfficial, DisruptedRun); SuiteRuns puts them together.              *)
(*                                                                         *)
(* Files, queries and completions are abstracted to how many units of work *)
(* are finished and which directories exist.  A cancel is a flag the       *)
(* console may raise at any moment; code sees it only where it polls.      *)
(***************************************************************************)
EXTENDS Integers, Sequences, FiniteSets

CONSTANTS
    NUnits,     \* queries, items or instances of one run
    Budgets,    \* the params.retry.max_attempts values tried
    NStreams    \* throughput query streams of an official TPC run

ASSUME UnitsAssumption ==
    /\ NUnits \in Nat \ {0} /\ NStreams \in Nat \ {0}
    /\ Budgets \subseteq Nat \ {0}

Official == {"official", "officialds"}
DuckSuites == {"queries"} \cup Official
ChatSuites == {"items", "code"}
Stored == {"trail", "judged"}
Suites == DuckSuites \cup ChatSuites \cup {"ycsb", "tpcc", "swe"} \cup Stored

Refresh == NStreams + 1
Workers == 0 .. Refresh      \* 0 is the run's own thread

VARIABLES
    suite,      \* the wrapped suite
    stage,      \* where execute() stands
    env,        \* prepare() returned its EnvHandle
    pending,    \* "" or why run() raised
    raw,        \* the directory of the RawArtifacts run() returned
    outcome,    \* "", "bundle", "error", "cancelled"
    cancel,     \* a cancel has been requested
    late,       \* units each worker began after that
    dirs,       \* directories of this run still on disk
    pos,        \* units of the sequential loop finished
    tries,      \* RetryPolicy.max_attempts
    attempt,    \* the attempt chat_once is about to make
    requests,   \* the traceparent span id of every request sent
    spans,      \* the gen_ai spans recorded
    retried,    \* the suite's retry_count
    sut,        \* SWE-bench's runtime: "none", "up", "closed", "stuck"
    boxes,      \* harness containers on this host: "own", "peer"
    twin,       \* a concurrent run evaluates the same instances
    con,        \* the query set's DuckDB connection: "none", "open"
    dropped     \* threads that opened a connection no code will close

runnerVars == <<suite, stage, env, pending, raw, outcome, cancel, late, dirs, pos,
                tries, attempt, requests, spans, retried, sut, boxes, twin, con, dropped>>
loopVars == <<pos, tries, attempt, requests, spans, retried>>
sweVars == <<sut, boxes, twin>>
dbVars == <<con, dropped>>

(***************************************************************************)
(* SuiteRunner.execute                                                     *)
(***************************************************************************)

\* params.retry.max_attempts: 1 unless the run asks for more, at least 1.
Tries == IF suite \in ChatSuites THEN Budgets ELSE {1}

\* A real run starts with prepare(); mock=True calls mock_artifacts instead.
RunnerInit ==
    /\ suite \in Suites
    /\ stage \in (IF suite \in Stored THEN {"over"} ELSE {"mock", "prepare"})
    /\ env = FALSE /\ pending = "" /\ raw = "" /\ outcome = ""
    /\ cancel = FALSE /\ late = [w \in Workers |-> 0]
    /\ dirs = {} /\ pos = 0
    /\ tries \in Tries
    /\ attempt = 1 /\ requests = << >> /\ spans = {} /\ retried = 0
    /\ sut = "none"
    /\ boxes \in (IF suite = "swe" THEN {{}, {"peer"}} ELSE {{}})
    /\ twin \in (IF suite = "swe" THEN BOOLEAN ELSE {FALSE})
    /\ con = "none" /\ dropped = {}

\* A run that ends for `why' without reaching (or after) its staged copy.
Over(why) == stage' = "over" /\ outcome' = why

MockArtifacts ==
    /\ stage = "mock"
    /\ stage' = "copy" /\ raw' = "art" /\ dirs' = dirs \cup {"art"}
    /\ UNCHANGED <<suite, env, pending, outcome, cancel, late, loopVars, sweVars, dbVars>>

\* DuckDB suites and SWE-bench make a temporary directory; SWE-bench also
\* provisions its runtime, before anything about the run has been checked.
Prepare ==
    /\ stage = "prepare"
    /\ stage' = "run" /\ env' = TRUE
    /\ dirs' = IF suite \in DuckSuites \cup {"swe"} THEN {"env"} ELSE {}
    /\ sut' = IF suite = "swe" THEN "up" ELSE sut
    /\ UNCHANGED <<suite, pending, raw, outcome, cancel, late, loopVars, boxes, twin, dbVars>>

\* prepare() raises: its EnvHandle never reaches execute(), so neither does
\* teardown(), and a directory it had already made stays.  So does the
\* connection the data was being generated on: only success closes it.
PrepareFails ==
    /\ stage = "prepare"
    /\ Over("error")
    /\ \E made \in {{}, {"env"}} :
          /\ made = {} \/ suite \in DuckSuites \cup {"swe"}
          /\ suite = "swe" => made = {"env"}
          /\ dirs' = made
          /\ dropped' \in (IF made # {} /\ suite \in DuckSuites THEN {{}, {0}} ELSE {{}})
    /\ UNCHANGED <<suite, env, pending, raw, cancel, late, loopVars, sweVars, con>>

Raise(why) == stage' = "teardown" /\ pending' = why /\ UNCHANGED raw
Return(dir) == stage' = "teardown" /\ raw' = dir /\ UNCHANGED pending

\* raise_if_cancelled: raises, never returns.
Poll(carryOn) == IF cancel THEN Raise("cancelled") ELSE carryOn

Begin(w) == late' = IF cancel THEN [late EXCEPT ![w] = @ + 1] ELSE late

\* The finally of execute(): DuckDB suites drop their database directory,
\* SWE-bench closes its runtime and removes the containers that carry its
\* run id, which is a digest of the instance ids; the others do nothing.
Teardown ==
    /\ stage = "teardown"
    /\ dirs' = IF suite \in DuckSuites THEN dirs \ {"env"} ELSE dirs
    /\ sut' \in (IF suite = "swe" THEN {"closed", "stuck"} ELSE {sut})
    /\ \/ boxes' = boxes
       \/ /\ suite = "swe" /\ boxes # {}
          /\ boxes' = boxes \ (IF twin THEN {"own", "peer"} ELSE {"own"})
    /\ IF pending # "" THEN Over(pending) ELSE stage' = "copy" /\ UNCHANGED outcome
    /\ UNCHANGED <<suite, env, pending, raw, cancel, late, loopVars, twin, dbVars>>

\* copytree into artifacts/, then the suite's own directory is removed.
StageCopy ==
    /\ stage = "copy"
    /\ stage' = "validate"
    /\ dirs' = (dirs \ {raw}) \cup {"staged"}
    /\ UNCHANGED <<suite, env, pending, raw, outcome, cancel, late, loopVars, sweVars, dbVars>>

CopyFails ==
    /\ stage = "copy"
    /\ Over("error")
    /\ dirs' = dirs \cup {"staged"}
    /\ UNCHANGED <<suite, env, pending, raw, cancel, late, loopVars, sweVars, dbVars>>

\* Every line of a real run's trajectory must be a valid span, or the run is
\* an error (a plugin's suite may write any line).
Validate ==
    /\ stage = "validate"
    /\ \/ Over("bundle")
       \/ Over("error") /\ env
    /\ UNCHANGED <<suite, env, pending, raw, cancel, late, dirs, loopVars, sweVars, dbVars>>

RequestCancel ==
    /\ ~cancel /\ stage # "over"
    /\ cancel' = TRUE
    /\ UNCHANGED <<suite, stage, env, pending, raw, outcome, late, dirs, loopVars, sweVars,
                   dbVars>>

(***************************************************************************)
(* The sequential loops                                                    *)
(***************************************************************************)

Running(kinds) == stage = "run" /\ suite \in kinds

\* The query set's connection; the extension may fail to load on it.
Connect ==
    /\ Running({"queries"}) /\ con = "none"
    /\ \/ con' = "open" /\ UNCHANGED <<stage, pending, raw, dropped>>
       \/ con' = "none" /\ Raise("error") /\ dropped' \in {dropped, dropped \cup {0}}
    /\ UNCHANGED <<suite, env, outcome, cancel, late, dirs, loopVars, sweVars>>

\* No finally closes that connection: whoever raises drops it.
Drop(why) == Raise(why) /\ con' = "none" /\ dropped' = dropped \cup {0}

\* One query of the reference query set, then the poll in the gap after it.
Query ==
    /\ Running({"queries"}) /\ con = "open" /\ pos < NUnits
    /\ Begin(0)
    /\ \/ /\ pos' = pos + 1
          /\ IF cancel THEN Drop("cancelled") ELSE UNCHANGED <<stage, pending, raw, dbVars>>
       \/ pos' = pos /\ Drop("error")
    /\ UNCHANGED <<suite, env, outcome, cancel, dirs, tries, attempt, requests, spans, retried,
                   sweVars>>

\* The extension's version is read, the connection closed, the rows written.
WriteQueries ==
    /\ Running({"queries"}) /\ con = "open" /\ pos = NUnits
    /\ \/ /\ con' = "none" /\ UNCHANGED dropped
          /\ Return("art") /\ dirs' = dirs \cup {"art"}
       \/ Drop("error") /\ UNCHANGED dirs
    /\ UNCHANGED <<suite, env, outcome, cancel, late, loopVars, sweVars>>

\* The artifacts are written once the whole loop is through.
WriteRows ==
    /\ \/ Running({"items"}) /\ pos = NUnits
       \/ Running({"code"}) /\ pos = 2 * NUnits
    /\ Return("art") /\ dirs' = dirs \cup {"art"}
    /\ UNCHANGED <<suite, env, outcome, cancel, late, loopVars, sweVars, dbVars>>

\* The attempt's own span id goes into its traceparent header; with retries
\* off it is the call's span, with retries on the call's span is its parent.
Enabled == tries > 1
CallSpan == <<pos + 1, 0>>
\* Mutant: a retry resends the header of the first attempt.
AttemptSpanOfCall == CallSpan
AttemptSpan == IF Enabled THEN <<pos + 1, attempt>> ELSE CallSpan
Recorded(ok, usage) ==
    [id |-> AttemptSpan, parent |-> IF Enabled THEN CallSpan ELSE << >>, ok |-> ok,
                                                                    usage |-> usage]
Wrapper(ok) ==
    IF Enabled THEN {[id |-> CallSpan, parent |-> << >>, ok |-> ok, usage |-> FALSE]} ELSE {}

Chatting == Running(ChatSuites) /\ pos < NUnits
Sent == requests' = Append(requests, AttemptSpan)

\* A usable answer: the item is finished, counted, reported and polled after.
ChatAnswers ==
    /\ Chatting /\ Begin(0) /\ Sent
    /\ spans' = spans \cup {Recorded(TRUE, TRUE)} \cup Wrapper(TRUE)
    /\ retried' = retried + attempt - 1
    /\ pos' = pos + 1 /\ attempt' = 1
    /\ Poll(UNCHANGED <<stage, pending, raw>>)
    /\ UNCHANGED <<suite, env, outcome, cancel, dirs, tries, sweVars, dbVars>>

\* 429, 5xx, a timeout or a dropped connection, with attempts left: back off.
ChatRetries ==
    /\ Chatting /\ attempt < tries /\ Sent
    /\ spans' = spans \cup {Recorded(FALSE, FALSE)}
    /\ attempt' = attempt + 1
    /\ UNCHANGED <<suite, stage, env, pending, raw, outcome, cancel, late, dirs, pos, tries,
                   retried, sweVars, dbVars>>

\* Any other status, or no attempts left; and an answer that cannot be read,
\* which is not retried and records no span.  Either ends the whole run.
ChatFails ==
    /\ Chatting /\ Begin(0) /\ Sent
    /\ \/ spans' = spans \cup {Recorded(FALSE, FALSE)} \cup Wrapper(FALSE)
       \/ UNCHANGED spans
    /\ Raise("error")
    /\ UNCHANGED <<suite, env, outcome, cancel, dirs, pos, tries, attempt, retried, sweVars,
                   dbVars>>

\* human-eval then executes every completion; a candidate that crashes, loops
\* or asserts is a result, never an error.
ExecuteCandidate ==
    /\ Running({"code"}) /\ pos >= NUnits /\ pos < 2 * NUnits
    /\ Begin(0) /\ pos' = pos + 1
    /\ Poll(UNCHANGED <<stage, pending, raw>>)
    /\ UNCHANGED <<suite, env, outcome, cancel, dirs, tries, attempt, requests, spans, retried,
                   sweVars, dbVars>>

\* TPC-C writes its work directory and config first, polls, then runs the tool.
WriteConfig ==
    /\ Running({"tpcc"}) /\ "work" \notin dirs
    /\ dirs' = dirs \cup {"work"}
    /\ Poll(UNCHANGED <<stage, pending, raw>>)
    /\ UNCHANGED <<suite, env, outcome, cancel, late, loopVars, sweVars, dbVars>>

BenchBase ==
    /\ Running({"tpcc"}) /\ "work" \in dirs /\ Begin(0)
    /\ \/ pos' = 1 /\ Return("art") /\ dirs' = (dirs \ {"work"}) \cup {"art"}
       \/ pos' = pos /\ Raise("error") /\ UNCHANGED dirs
    /\ UNCHANGED <<suite, env, outcome, cancel, tries, attempt, requests, spans, retried,
                   sweVars, dbVars>>

\* run()'s own checks: SWE-bench refuses a missing extra, a remote placement or
\* a mock agent kind on a provisioned runtime; human-eval, an execution nobody
\* acknowledged.
Refuses ==
    /\ Running({"swe", "code"}) /\ pos = 0 /\ requests = << >>
    /\ Raise("error")
    /\ UNCHANGED <<suite, env, outcome, cancel, late, dirs, loopVars, sweVars, dbVars>>

Solve ==
    /\ Running({"swe"}) /\ pos < NUnits /\ Begin(0)
    /\ \/ /\ pos' = pos + 1
          /\ Poll(UNCHANGED <<stage, pending, raw>>)
       \/ pos' = pos /\ Raise("error")
    /\ UNCHANGED <<suite, env, outcome, cancel, dirs, tries, attempt, requests, spans, retried,
                   sweVars, dbVars>>

\* The upstream harness starts containers; killed or timed out it leaves them.
Harness ==
    /\ Running({"swe"}) /\ pos = NUnits /\ Begin(0)
    /\ \/ pos' = pos + 1 /\ Return("env") /\ UNCHANGED boxes
       \/ pos' = pos /\ Raise("error") /\ boxes' \in {boxes, boxes \cup {"own"}}
    /\ UNCHANGED <<suite, env, outcome, cancel, dirs, tries, attempt, requests, spans, retried,
                   sut, twin, dbVars>>

SuiteStep ==
    \/ MockArtifacts \/ Prepare \/ PrepareFails \/ Teardown
    \/ StageCopy \/ CopyFails \/ Validate
    \/ Connect \/ Query \/ WriteQueries \/ WriteRows
    \/ ChatAnswers \/ ChatRetries \/ ChatFails \/ ExecuteCandidate
    \/ WriteConfig \/ BenchBase
    \/ Refuses \/ Solve \/ Harness
=============================================================================
