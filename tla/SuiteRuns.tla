----------------------------- MODULE SuiteRuns -----------------------------
(***************************************************************************)
(* Every benchmark suite under core/suite_runner.py: the sequential suites *)
(* of SuiteRunner, the official TPC phases of TpcOfficial and the          *)
(* disrupted YCSB run of DisruptedRun are the run() of one SuiteRunner,    *)
(* and share its directories, its cancel flag and its way out.  What they  *)
(* leave behind is scored (SuiteScores, JudgedScores) and drawn (RunTrace).*)
(***************************************************************************)
EXTENDS SuiteScores, RunTrace, JudgedScores

vars == <<runnerVars, tpcVars, disVars, scoreVars, traceVars, judgeVars>>

Init == RunnerInit /\ TpcInit /\ DisInit /\ ScoreInit /\ TraceInit /\ JudgeInit

After == <<scoreVars, traceVars, judgeVars>>
Solo == SuiteStep /\ UNCHANGED <<tpcVars, disVars, After>>
Tpc == TpcStep /\ UNCHANGED <<disVars, After>>
Dis == DisStep /\ UNCHANGED <<tpcVars, After>>
Proxy == ProxyStep /\ UNCHANGED <<tpcVars, After>>

Next ==
    \/ Solo \/ Tpc \/ Dis \/ Proxy
    \/ RequestCancel /\ UNCHANGED <<tpcVars, disVars, After>>
    \/ Score /\ UNCHANGED <<runnerVars, tpcVars, disVars, traceVars, judgeVars>>
    \/ TraceStep /\ UNCHANGED <<runnerVars, tpcVars, disVars, scoreVars, judgeVars>>
    \/ JudgeStep /\ UNCHANGED <<runnerVars, tpcVars, disVars, scoreVars, traceVars>>

\* Every thread runs on and every tool, query and endpoint call returns; only
\* the console is free never to cancel.
Spec == Init /\ [][Next]_vars /\ WF_vars(Solo) /\ WF_vars(Tpc) /\ WF_vars(Dis) /\ WF_vars(Proxy)

(***************************************************************************)
(* Properties                                                              *)
(***************************************************************************)

OfficialWhole ==
    /\ phase = "seal" /\ round = Rounds /\ Len(acid) = 4
    /\ done[0] = PowerUnits
    /\ \A w \in Streams : done[w] = NUnits
    /\ HasRefresh => /\ done[Refresh] = NStreams
                     /\ db.lines = 2 * (NStreams + 1) /\ db.orders = db.lines

Whole ==
    CASE suite \in Official -> OfficialWhole
      [] suite \in {"queries", "items"} -> pos = NUnits
      [] suite = "code" -> pos = 2 * NUnits
      [] suite = "swe" -> pos = NUnits + 1
      [] suite = "tpcc" -> pos = 1
      [] suite = "ycsb" -> step = "stopped" /\ ~crashed /\ plan # "misfit"

\* A bundle is the whole plan, whatever failed, was retried or was cancelled on
\* the way: no suite ever hands the evaluator a truncated run, and a cancel is
\* obeyed before a third unit of work is begun by anyone (the RF1/RF2 bracket
\* of the power test is the widest gap between two polls).
WholeOrNothing ==
    /\ outcome = "bundle" /\ env => Whole
    /\ outcome = "cancelled" => \A w \in Workers : late[w] <= 2

\* What a finished run leaves on this host.  Behind a bundle, only the staged
\* copy; behind any run whose prepare() returned, no DuckDB directory; and no
\* relayed pair or timer, unless join() gave up on a timer mid-fire.
NothingLeftBehind ==
    stage = "over" =>
        /\ outcome = "bundle" => dirs = {"staged"}
        /\ suite \in DuckSuites /\ env => "env" \notin dirs
        /\ tracked = {} /\ doomed = {} /\ timer # "armed"
        /\ (timer \in {"firing", "closing"} \/ cutting # {}) => gaveUp
        /\ \A c \in Conns : link[c] = "up" => c \in cutting

\* A DuckDB run loses the connections it opened outside any finally: the load's
\* in prepare(), the query set's, the official run's own before its try, the
\* streams' before theirs, and the isolation probe's second one.
LeftOpen ==
    \/ dropped = {0} /\ ~env
    \/ dropped = {0} /\ suite = "queries" /\ pending # ""
    \/ dropped = {0} /\ suite \in Official /\ phase = "check" /\ pending = "error"
    \/ dropped = {0} /\ Len(acid) > 2 /\ acid[3] = "fail"
    \/ /\ phase = "open" /\ pending = "error"
       /\ \E last \in Active : dropped = {w \in Active : w <= last}

\* Every other connection is closed on every way out, the streams' by a finally
\* that no stream is still running behind.
ConnectionsClosed ==
    stage = "over" =>
        /\ conns = {} /\ con = "none"
        /\ dropped # {} => suite \in DuckSuites /\ LeftOpen

WholeAndClean == WholeOrNothing /\ NothingLeftBehind /\ ConnectionsClosed

\* Each request of an LLM suite carries the id of its own span and no other
\* request's; each item is accounted for once; every retry is counted.
TraceIsHonest ==
    /\ \A i, j \in 1 .. Len(requests) : requests[i] = requests[j] => i = j
    /\ outcome = "bundle" /\ env /\ suite \in ChatSuites =>
          LET sent == {requests[i] : i \in 1 .. Len(requests)}
              leaves == {s \in spans : \A t \in spans : t.parent # s.id} IN
          /\ {s.id : s \in leaves} = sent
          /\ \A s \in spans : s.parent = << >> \/ \E t \in spans : t.id = s.parent
          /\ \A k \in 1 .. NUnits : \E s \in spans :
                s.usage /\ s.id[1] = k /\ \A t \in spans : t.usage /\ t.id[1] = k => t = s
          /\ retried = Len(requests) - NUnits

\* The copy of the proxy's evidence is never torn, and once it shows a
\* disruption what the record says it cut never moves again.  It misses one
\* that fired only when join() gave up on it.
EvidenceIsWhole ==
    /\ stats.reset <= stats.total
    /\ step \in {"stop", "close", "stopped"} /\ Proxied =>
          /\ IF snap.at = 0 THEN snap.reset = 0 /\ snap.windows = 0
             ELSE snap.at = stats.at /\ snap.reset = stats.reset /\ snap.windows = stats.windows
          /\ ~gaveUp => snap.at = stats.at /\ (snap.at > 0 <=> timer = "fired")

\* A stream works on its own open connection only, and the ACID probes see a
\* database no stream is writing and no refresh left half done.
StreamsAreFenced ==
    /\ \A w \in Active : at[w] = "exec" => w \in conns
    /\ stage = "run" /\ phase = "acid" =>
          /\ conns = {0} /\ \A w \in Active : at[w] = "done"
          /\ db.lines = db.orders

\* The evidence a finished run is scored from: spans, disruption and phases.
EvidenceIsSound == TraceIsHonest /\ EvidenceIsWhole /\ StreamsAreFenced

\* The numbers published of a run, by its suite's evaluator and by a judge.
NumbersAreHonest == ScoresAreHonest /\ JudgeIsHonest

\* No suite hangs: not on a stream that raised, a retry, or a timer mid-fire.
SuiteEnds == <>(stage = "over")
=============================================================================
