--------------------------- MODULE SuiteRunsProofs ---------------------------
(***************************************************************************)
(* Proofs about SuiteRuns for any numbers of units, streams, attempts and  *)
(* relayed connections: the inductive invariant SuiteInv, and from it that *)
(* a bundle is the whole plan and a finished run leaves nothing behind     *)
(* (WholeAndClean), that what a run is scored from is sound                *)
(* (EvidenceIsSound), and that the numbers published of it, by its         *)
(* evaluator and by a judge, are about it (NumbersAreHonest).              *)
(*                                                                         *)
(* Every suite runs in the same execute(), so the invariant is a           *)
(* conjunction of parts that each follow one thing through all of them:    *)
(* the stages, the plan, the cancel, the directories, the connections, the *)
(* work of the streams, the refreshed tables, the relays and what they     *)
(* count, the requests and the spans.  The numbers need two more: ScoreInv *)
(* and, for the judge with its two scorers and their cache, JudgeInv.      *)
(***************************************************************************)
EXTENDS SuiteRuns, FiniteSetTheorems, WellFoundedInduction, TLAPS

(***************************************************************************)
(* The invariant.                                                          *)
(***************************************************************************)
SpanRecords == [id : Nat \X Nat, parent : (Nat \X Nat) \cup {<< >>}, ok : BOOLEAN,
                                                               usage : BOOLEAN]

\* The type of the runner's state.
FlagsType ==
    /\ suite \in Suites /\ env \in BOOLEAN /\ cancel \in BOOLEAN
    /\ stage \in {"mock", "prepare", "run", "teardown", "copy", "validate", "over"}
    /\ pending \in {"", "error", "cancelled"} /\ raw \in {"", "art", "env"}
    /\ outcome \in {"", "bundle", "error", "cancelled"}
    /\ dirs \in SUBSET {"env", "art", "work", "staged"}

\* The loops, the units begun after a cancel, and a chat suite's requests and spans.
LoopType == pos \in Nat /\ tries \in Nat \ {0} /\ attempt \in 1 .. tries /\ retried \in Nat
LateType == late \in [Workers -> Nat]
ChatType == requests \in Seq(Nat \X Nat) /\ spans \in SUBSET SpanRecords
RunnerType == FlagsType /\ LoopType /\ LateType /\ ChatType

\* The type of the official run's, but for the ACID connection, which nothing depends on.
TpcType ==
    /\ phase \in {"check", "power", "open", "streams", "dm", "acid", "seal"}
    /\ round \in {1, 2} /\ done \in [Workers -> Nat]
    /\ at \in [Workers -> {"poll", "exec", "done", "cancelled", "error"}]
    /\ conns \in SUBSET Workers /\ db \in [lines : Nat, orders : Nat]
    /\ acid \in Seq({"n/a", "pass", "fail"})

\* The type of the disrupted run's.
Counters == [total : Nat, reset : Nat, at : Nat, windows : Nat]
DisType ==
    /\ plan \in Plans /\ crashed \in BOOLEAN /\ closing \in BOOLEAN
    /\ step \in {"load", "gate", "tool", "quiesce", "join", "stop", "close", "stopped"}
    /\ timer \in {"none", "armed", "firing", "closing", "fired", "cancelled"}
    /\ link \in [Conns -> {"none", "handshake", "up", "down", "gone"}]
    /\ tracked \in SUBSET Conns /\ cutting \in SUBSET Conns /\ doomed \in SUBSET Conns
    /\ stats \in Counters /\ snap \in Counters

\* How execute() stands, and what it has to say.
StageInv ==
    /\ stage \in {"mock", "prepare"} => ~env
    /\ stage \in {"run", "teardown"} => env
    /\ pending # "" => stage = "teardown" \/ (stage = "over" /\ outcome = pending)
    /\ outcome # "" => stage = "over"
    /\ outcome = "cancelled" => pending = "cancelled"
    /\ outcome = "bundle" => pending = ""
    /\ suite \in Stored => stage = "over" /\ outcome = ""

\* run() has returned, and nothing has failed since.
Through == env /\ pending = "" /\ (stage \in {"teardown", "copy", "validate"} \/ outcome = "bundle")
\* A run that came that far has done all of its plan.
WholeInv == Through => Whole

\* Units begun after a cancel, and where the run's thread may be by then.
LateInv ==
    /\ ~cancel => \A w \in Workers : late[w] = 0
    /\ \A w \in Workers \ {0} : late[w] = 0
    /\ stage \in {"mock", "prepare"} => late[0] = 0
    /\ stage = "run" /\ late[0] > 0 =>
          \/ suite \in Official /\ phase = "acid"
          \/ suite \in Official /\ phase = "power" /\ late[0] = 1 /\ HasRefresh
             /\ done[0] \in {1, PowerUnits}
          \/ suite = "ycsb" /\ step \notin {"load", "gate"}
    /\ pending = "cancelled" => late[0] <= 2

\* The directories of a run, stage by stage.
Made == IF suite \in DuckSuites \cup {"swe"} THEN {"env"} ELSE {}
DirsInv ==
    /\ stage \in {"mock", "prepare"} => dirs = {}
    /\ stage = "run" => dirs \ {"work"} = Made /\ ("work" \in dirs => suite = "tpcc")
    /\ stage = "teardown" /\ pending = "" =>
          raw = (IF suite = "swe" THEN "env" ELSE "art") /\ dirs = Made \cup {raw}
    /\ stage = "copy" => dirs = {raw} /\ (suite \in DuckSuites => raw = "art")
    /\ stage = "validate" \/ outcome = "bundle" => dirs = {"staged"}
    /\ suite \in DuckSuites /\ env /\ stage \in {"copy", "validate", "over"} => "env" \notin dirs

\* Whose connections are open, and who may be at work, phase by phase.
ConnsInv ==
    /\ suite \notin Official => phase = "check" /\ conns = {}
    /\ stage # "run" => conns = {}
    /\ stage \in {"mock", "prepare"} => phase = "check"
    /\ stage = "run" /\ phase \in {"power", "open", "dm", "acid"} => conns = {0}
    /\ stage = "run" /\ phase = "streams" => conns = {0} \cup Active
    /\ phase \in {"check", "power"} => \A w \in Active : at[w] = "poll"
    /\ phase = "open" => \A w \in Active : at[w] \in {"poll", "done"}
    /\ phase \in {"dm", "acid", "seal"} => \A w \in Active : at[w] = "done"
    /\ phase = "streams" /\ stage # "run" => Quiet

\* The query set's connection, and the connections nobody closes.
DropInv ==
    /\ con # "none" => suite = "queries" /\ stage = "run"
    /\ phase \notin {"acid", "seal"} => acid = << >>
    /\ stage \in {"mock", "prepare"} => dropped = {}
    /\ dropped # {} => suite \in DuckSuites /\ LeftOpen

\* The work done, and the refresh statements it took.
Quota(w) == IF w = Refresh THEN NStreams ELSE NUnits
\* Everyone does its quota, and no phase is left before its part of the plan is done.
WorkInv ==
    /\ phase = "seal" => stage # "run"
    /\ phase = "check" => done[0] = 0
    /\ phase = "power" => done[0] <= PowerUnits
    /\ phase \notin {"check", "power"} => done[0] = PowerUnits
    /\ phase \in {"check", "power"} => round = 1
    /\ phase = "dm" => ~HasRefresh
    /\ round <= Rounds /\ (phase \in {"acid", "seal"} => round = Rounds)
    /\ phase = "streams" =>
          \A w \in Active : /\ at[w] = "done" => done[w] = Quota(w)
                            /\ at[w] \in {"poll", "exec"} => done[w] < Quota(w)
    /\ phase \in {"dm", "acid", "seal"} => \A w \in Active : done[w] = Quota(w)
    /\ Len(acid) <= 4 /\ (phase = "seal" => Len(acid) = 4)

\* The rows of the two refreshed tables: apart only inside one refresh statement.
RefreshInv ==
    LET even == 2 + 2 * done[Refresh] IN
    /\ ~HasRefresh \/ phase = "check" => db.lines = 0 /\ db.orders = 0
    /\ HasRefresh /\ phase = "power" =>
          /\ db.lines = db.orders
          /\ db.orders = (IF done[0] = 0 THEN 0 ELSE IF done[0] < PowerUnits THEN 1 ELSE 2)
    /\ HasRefresh /\ phase = "open" => db.lines = 2 /\ db.orders = 2
    /\ HasRefresh /\ phase = "streams" /\ at[Refresh] \in {"poll", "done"} =>
          db.lines = even /\ db.orders = even
    /\ HasRefresh /\ phase = "streams" /\ at[Refresh] = "exec" =>
          /\ db.orders \in {even, even + 1}
          /\ db.lines \in {db.orders, db.orders + 1}
    /\ HasRefresh /\ phase \in {"acid", "seal"} =>
          db.lines = 2 * (NStreams + 1) /\ db.orders = 2 * (NStreams + 1)

\* The disrupted run's thread, its timer, and the relays.
RelayInv ==
    /\ suite # "ycsb" \/ stage \in {"mock", "prepare"} => step = "load"
    /\ stage # "run" => step \in {"load", "gate", "stopped"}
    /\ plan = "misfit" => step \in {"load", "gate"}
    /\ step \in {"load", "gate"} \/ ~Proxied =>
          timer = "none" /\ tracked = {} /\ \A c \in Conns : link[c] = "none"
    /\ ~Proxied => step \in {"load", "gate", "tool", "stopped"}
    /\ Proxied /\ step \in {"tool", "quiesce"} => timer \in {"armed", "firing", "closing", "fired"}
    /\ Proxied /\ step = "join" => timer \in {"firing", "closing", "fired", "cancelled"}
    /\ Proxied /\ step \in {"stop", "close", "stopped"} =>
          timer \in {"fired", "cancelled"} \/ (gaveUp /\ timer \in {"firing", "closing"})
    /\ closing => step \in {"stop", "close", "stopped"}
    /\ Proxied /\ step \in {"close", "stopped"} => closing /\ tracked = {}
    /\ doomed # {} => step = "close"
    /\ cutting # {} => timer = "closing"
    /\ \A c \in Conns : /\ link[c] = "up" => c \in tracked \cup cutting \cup doomed
                        /\ c \in tracked => link[c] \in {"up", "down"}

\* The disruption's statistics.
StatsInv ==
    /\ stats.at = (IF timer \in {"closing", "fired"} THEN 1 ELSE 0)
    /\ stats.at = 0 => stats.reset = 0 /\ stats.windows = 0
    /\ IsFiniteSet(tracked) /\ stats.reset + Cardinality(tracked) <= stats.total
    /\ Proxied /\ step \in {"stop", "close", "stopped"} =>
          /\ IF snap.at = 0 THEN snap.reset = 0 /\ snap.windows = 0
             ELSE snap.at = stats.at /\ snap.reset = stats.reset /\ snap.windows = stats.windows
          /\ ~gaveUp => snap.at = stats.at

\* The requests and the spans of a chat suite: K items are finished.
K == IF pos < NUnits THEN pos ELSE NUnits
\* No id is sent twice; one request for each item finished, and one for each retry.
RequestInv ==
    /\ suite \notin ChatSuites \/ stage \in {"mock", "prepare"} => requests = << >> /\ spans = {}
       /\ retried = 0
    /\ stage \in {"mock", "prepare"} => pos = 0 /\ attempt = 1
    /\ \A i, j \in 1 .. Len(requests) : requests[i] = requests[j] => i = j
    /\ suite \in ChatSuites /\ pending = "" => 
        /\ pos >= NUnits => attempt = 1
        /\ \A i \in 1 .. Len(requests) :
            /\ requests[i][1] \in 1 .. K + 1
            /\ requests[i][2] = 0 <=> ~Enabled
            /\ requests[i][1] = K + 1 => Enabled /\ requests[i][2] < attempt
        /\ retried = Len(requests) - K - (attempt - 1)
\* The ids that were sent.
IdsSent == {requests[i] : i \in 1 .. Len(requests)}
\* The leaves of the span tree are what was sent; each finished item has one span that
\* carries its tokens, and under tracing one root with a leaf below it.
SpanInv ==
    suite \in ChatSuites /\ pending = "" =>
        /\ {s.id : s \in {t \in spans : Enabled => t.id[2] # 0}} = IdsSent
        /\ \A s \in spans :
              /\ s.id[1] \in 1 .. K + 1
              /\ s.id[1] = K + 1 => ~s.usage /\ s.id[2] # 0
              /\ s.usage => (s.id[2] = 0 <=> ~Enabled)
              /\ ~Enabled => s.parent = << >>
              /\ Enabled => s.parent = (IF s.id[2] = 0 THEN << >> ELSE <<s.id[1], 0>>)
        /\ \A k \in 1 .. K :
              /\ \E s \in spans : s.usage /\ s.id[1] = k
              /\ \A s, t \in spans : s.usage /\ t.usage /\ s.id[1] = k /\ t.id[1] = k => s = t
              /\ Enabled => \E s \in spans : s.id = <<k, 0>> /\ s.parent = << >>
              /\ Enabled => \E s \in spans : s.id[2] # 0 /\ s.parent = <<k, 0>>

\* How far the sequential loops have got.
LoopInv ==
    /\ suite \in {"queries", "items", "swe"} /\ stage = "run" => pos <= NUnits
    /\ suite = "code" => pos <= 2 * NUnits

\* The inductive invariant.
SuiteInv ==
    /\ RunnerType /\ TpcType /\ DisType
    /\ StageInv /\ WholeInv /\ LateInv /\ DirsInv /\ ConnsInv /\ DropInv /\ WorkInv
    /\ RefreshInv /\ RelayInv /\ StatsInv /\ RequestInv /\ SpanInv /\ LoopInv
\* A set of numbers that is not empty has a least one: there is no infinite descent in its
\* initial segments.
LEMMA Least ==
    ASSUME NEW T \in SUBSET Nat, T # {}
    PROVE  \E n \in T : \A m \in T : n <= m
<1>1. PICK x \in T : TRUE
  OBVIOUS
<1> DEFINE D == {0 .. n : n \in {m \in T : m <= x}}
<1>2. IsWellFoundedOn(StrictSubsetOrdering(Nat), FiniteSubsetsOf(Nat))
  BY FS_StrictSubsetOrderingWellFounded
<1>3. D \subseteq FiniteSubsetsOf(Nat)
  <2> SUFFICES ASSUME NEW n \in Nat PROVE 0 .. n \in FiniteSubsetsOf(Nat)
    OBVIOUS
  <2>1. IsFiniteSet(0 .. n)
    BY FS_Interval
  <2>2. 0 .. n \subseteq Nat
    OBVIOUS
  <2> QED
    BY <2>1, <2>2 DEF FiniteSubsetsOf
<1>4. D # {}
  BY <1>1
<1>5. PICK S \in D : \A R \in D : ~(<<R, S>> \in StrictSubsetOrdering(Nat))
  <2> HIDE DEF D
  <2> QED BY <1>2, <1>3, <1>4, WFMin
<1>6. PICK n \in T : S = 0 .. n /\ n <= x
  BY <1>5
<1>7. \A m \in T : n <= m
  <2> SUFFICES ASSUME NEW m \in T, m < n PROVE FALSE
    OBVIOUS
  <2>1. 0 .. m \in D
    BY <1>6
  <2>2. 0 .. m \subseteq 0 .. n /\ n \in 0 .. n /\ n \notin 0 .. m
    OBVIOUS
  <2>3. <<0 .. m, 0 .. n>> \in StrictSubsetOrdering(Nat)
    BY <2>2 DEF StrictSubsetOrdering
  <2> QED
    BY <2>1, <2>3, <1>5, <1>6
<1> QED
  BY <1>7

\* What one action of each part leaves alone in the others.
LEMMA TpcFrame ==
    ASSUME Tpc
    PROVE  /\ stage = "run" /\ suite \in Official
           /\ UNCHANGED <<suite, env, outcome, cancel, loopVars, con, disVars>>
           /\ \/ UNCHANGED <<stage, pending, raw>>
              \/ Raise("error") \/ Raise("cancelled") \/ Raise(at[FirstRaise])
              \/ Return("art") /\ SealOfficial
           /\ UNCHANGED late \/ Begin(0) \/ \E w \in Active : at[w] = "poll" /\ ~cancel /\ Begin(w)
           /\ UNCHANGED dirs \/ (dirs' = dirs \cup {"art"} /\ SealOfficial)
<1> USE DEF Driving, Running, Idle, Settled, Stay, Abort, Enter, PollInto
<1>1. stage = "run" /\ suite \in Official
  BY DEF Tpc, TpcStep, CheckAndConnect, PowerUnit, PowerEnds, OpenStreams, RefreshStatement,
     StreamsJoin, StreamQuery, StreamPolls, Maintain, AcidProbe, SealOfficial
<1>2. UNCHANGED <<suite, env, outcome, cancel, loopVars, con, disVars>>
  BY DEF Tpc, TpcStep, CheckAndConnect, PowerUnit, PowerEnds, OpenStreams, RefreshStatement,
     StreamsJoin, StreamQuery, StreamPolls, Maintain, AcidProbe, SealOfficial
<1>3. \/ UNCHANGED <<stage, pending, raw>>
      \/ Raise("error") \/ Raise("cancelled") \/ Raise(at[FirstRaise])
      \/ Return("art") /\ SealOfficial
  BY DEF Tpc, TpcStep, CheckAndConnect, PowerUnit, PowerEnds, OpenStreams, RefreshStatement,
     StreamsJoin, StreamQuery, StreamPolls, Maintain, AcidProbe, SealOfficial
<1>4. UNCHANGED late \/ Begin(0) \/ \E w \in Active : at[w] = "poll" /\ ~cancel /\ Begin(w)
  BY DEF Tpc, TpcStep, CheckAndConnect, PowerUnit, PowerEnds, OpenStreams, RefreshStatement,
     StreamsJoin, StreamQuery, StreamPolls, Maintain, AcidProbe, SealOfficial
<1>5. UNCHANGED dirs \/ (dirs' = dirs \cup {"art"} /\ SealOfficial)
  BY DEF Tpc, TpcStep, CheckAndConnect, PowerUnit, PowerEnds, OpenStreams, RefreshStatement,
     StreamsJoin, StreamQuery, StreamPolls, Maintain, AcidProbe, SealOfficial
<1> QED
  BY <1>1, <1>2, <1>3, <1>4, <1>5

\* The disrupted run's thread works inside run() only.
LEMMA DisFrame ==
    ASSUME Dis
    PROVE  /\ stage = "run" /\ suite = "ycsb"
           /\ UNCHANGED <<suite, env, outcome, cancel, loopVars, dbVars, tpcVars, plan>>
           /\ UNCHANGED late \/ Begin(0)
<1> QED
  BY DEF Dis, DisStep, LoadPhase, ArmAndRun, ToolExits, CancelTimer, JoinAndSnapshot,
     RaiseClosing, TakeAll, ProxyStopped, SealYcsb, Benching, Running, Rest

\* The proxy's threads touch the relays and the statistics, and no thread's position.
LEMMA ProxyFrame ==
    ASSUME Proxy
    PROVE  UNCHANGED <<runnerVars, tpcVars, plan, step, crashed, closing, snap, gaveUp>>
<1> QED
  BY DEF Proxy, ProxyStep, TimerFires, ResetAll, Stall, ResetDone, ClosePair, Accept, Handshake,
         HangUp, Discard, Elsewhere

\* The sequential suites, and execute() around every suite.
LEMMA SoloFrame ==
    ASSUME Solo
    PROVE  /\ UNCHANGED <<suite, cancel, tpcVars, disVars>>
           /\ UNCHANGED late \/ Begin(0)
<1> QED
  BY DEF Solo, SuiteStep, MockArtifacts, Prepare, PrepareFails, Teardown, StageCopy, CopyFails,
      Validate, Connect, Drop, Query, WriteQueries, WriteRows, WriteConfig, BenchBase, Refuses,
      Solve, Harness, ExecuteCandidate, ChatAnswers, ChatRetries, ChatFails

\* The console sets the flag and nothing else.
LEMMA CancelFrame ==
    ASSUME RequestCancel, UNCHANGED <<tpcVars, disVars, After>>
    PROVE  /\ ~cancel /\ cancel' /\ stage # "over"
           /\ UNCHANGED <<suite, stage, env, pending, raw, outcome, late, dirs, loopVars, dbVars,
                          tpcVars, disVars>>
<1> QED
  BY DEF RequestCancel

\* The exception that comes out of a finished Throughput test is one a stream raised.
LEMMA FirstRaised ==
    ASSUME \E w \in Active : Raised(w)
    PROVE  FirstRaise \in Active /\ at[FirstRaise] \in {"cancelled", "error"}
<1> DEFINE T == {w \in Active : Raised(w)}
<1>1. T \in SUBSET Nat /\ T # {}
  BY UnitsAssumption DEF Active, Streams, Refresh
<1>2. PICK n \in T : \A m \in T : n <= m
  <2> HIDE DEF T
  <2> QED
    BY <1>1, Least
<1>3. Raised(n) /\ \A v \in Active : v < n => ~Raised(v)
  BY <1>1, <1>2
<1>4. FirstRaise \in Active /\ Raised(FirstRaise)
  BY <1>2, <1>3 DEF FirstRaise
<1> QED
  BY <1>4 DEF Raised

\* The main thread, the streams and the refresh stream are all the workers, and distinct.
LEMMA StreamWorkers ==
    Active \subseteq Workers /\ Streams \subseteq Workers /\ 0 \in Workers
       /\ 0 \notin Active /\ Streams \subseteq Active /\ Refresh \in Workers
          /\ Refresh \notin Streams
       /\ Workers \subseteq Nat /\ Workers = {0, Refresh} \cup Streams
<1> QED
  BY UnitsAssumption DEF Active, Streams, Refresh, Workers

\* Beginning a unit keeps the counters' type.
LEMMA BeginType ==
    ASSUME LateType, FlagsType, NEW w \in Workers, Begin(w)
    PROVE  LateType'
<1>1. CASE ~cancel
  BY <1>1 DEF Begin, LateType
<1>2. CASE cancel
  <2>1. late' = [late EXCEPT ![w] = late[w] + 1]
    BY <1>2 DEF Begin
  <2>2. late[w] + 1 \in Nat
    BY DEF LateType
  <2> QED
    BY <2>1, <2>2 DEF LateType
<1> QED
  BY <1>1, <1>2 DEF FlagsType

\* A sequence extended by a member stays one.
LEMMA Appended ==
    ASSUME NEW S, NEW s \in Seq(S), NEW e \in S
    PROVE  Append(s, e) \in Seq(S)
<1> QED
  OBVIOUS

\* A span built from its four parts is a span.
LEMMA SpanRecord ==
    ASSUME NEW a \in Nat \X Nat, NEW b \in (Nat \X Nat) \cup {<< >>}, NEW o \in BOOLEAN,
           NEW u \in BOOLEAN
    PROVE  [id |-> a, parent |-> b, ok |-> o, usage |-> u] \in SpanRecords
<1> DEFINE P == (Nat \X Nat) \cup {<< >>}
<1> DEFINE Q == Nat \X Nat
<1>1. SpanRecords = [id : Q, parent : P, ok : BOOLEAN, usage : BOOLEAN]
  BY DEF SpanRecords
<1>2. a \in Q /\ b \in P
  OBVIOUS
<1> HIDE DEF P, Q
<1> QED
  BY <1>1, <1>2

\* Types are kept by the sequential suites, and by execute() around every suite.
LEMMA SoloType ==
    ASSUME RunnerType, Solo
    PROVE  RunnerType'
<1> USE DEF RunnerType
<1>1. FlagsType'
  <2> USE DEF FlagsType, Running, Over, Raise, Return, Poll
  <2>1. CASE MockArtifacts \/ Prepare \/ PrepareFails \/ Teardown \/ StageCopy \/ CopyFails
             \/ Validate
    BY <2>1 DEF MockArtifacts, Prepare, PrepareFails, Teardown, StageCopy, CopyFails, Validate
  <2>2. CASE Connect \/ Query \/ WriteQueries \/ WriteRows \/ WriteConfig \/ BenchBase
          \/ Refuses \/ Solve \/ Harness
             \/ ExecuteCandidate
    BY <2>2 DEF Connect, Drop, Query, WriteQueries, WriteRows, WriteConfig, BenchBase, Refuses,
        Solve, Harness, ExecuteCandidate
  <2>3. CASE ChatAnswers \/ ChatRetries \/ ChatFails
    BY <2>3 DEF ChatAnswers, ChatRetries, ChatFails, Chatting
  <2> QED
    BY <2>1, <2>2, <2>3 DEF Solo, SuiteStep
<1>2. LoopType'
  <2> USE DEF loopVars
  <2>1. CASE MockArtifacts \/ Prepare \/ PrepareFails \/ Teardown \/ StageCopy \/ CopyFails
             \/ Validate
    BY <2>1 DEF MockArtifacts, Prepare, PrepareFails, Teardown, StageCopy, CopyFails, Validate,
       LoopType
  <2>2. CASE Connect \/ Query \/ WriteQueries \/ WriteRows \/ WriteConfig \/ BenchBase
          \/ Refuses \/ Solve \/ Harness
             \/ ExecuteCandidate
    <3>1. UNCHANGED <<tries, attempt, retried>> /\ (pos' = pos \/ pos' = pos + 1 \/ pos' = 1)
      BY <2>2 DEF Connect, Drop, Query, WriteQueries, WriteRows, WriteConfig, BenchBase,
          Refuses, Solve, Harness, ExecuteCandidate
    <3> QED
      BY <3>1 DEF LoopType
  <2>3. CASE ChatAnswers
    <3>1. pos' = pos + 1 /\ attempt' = 1 /\ retried' = retried + attempt - 1 /\ UNCHANGED tries
      BY <2>3 DEF ChatAnswers
    <3> QED
      BY <3>1 DEF LoopType
  <2>4. CASE ChatRetries
    <3>1. attempt < tries /\ attempt' = attempt + 1 /\ UNCHANGED <<pos, retried, tries>>
      BY <2>4 DEF ChatRetries
    <3> QED
      BY <3>1 DEF LoopType
  <2>5. CASE ChatFails
    BY <2>5 DEF ChatFails, LoopType
  <2> QED
    BY <2>1, <2>2, <2>3, <2>4, <2>5 DEF Solo, SuiteStep
<1>3. LateType'
  BY SoloFrame, BeginType, StreamWorkers DEF LateType
<1>4. ChatType'
  <2>0. CallSpan \in Nat \X Nat /\ AttemptSpan \in Nat \X Nat
        /\ Nat \X Nat \subseteq (Nat \X Nat) \cup {<< >>}
    BY DEF AttemptSpan, CallSpan, LoopType
  <2>1. \A ok, usage \in BOOLEAN : Recorded(ok, usage) \in SpanRecords
        /\ Wrapper(ok) \subseteq SpanRecords
    <3> SUFFICES ASSUME NEW ok \in BOOLEAN, NEW usage \in BOOLEAN
                 PROVE  Recorded(ok, usage) \in SpanRecords /\ Wrapper(ok) \subseteq SpanRecords
      OBVIOUS
    <3>1. Recorded(ok, usage) \in SpanRecords
      BY <2>0, SpanRecord, Zenon DEF Recorded
    <3>2. Wrapper(ok) \subseteq SpanRecords
      BY <2>0, SpanRecord, Zenon DEF Wrapper
    <3> QED
      BY <3>1, <3>2
  <2>2. UNCHANGED requests \/ Sent
    BY DEF Solo, SuiteStep, MockArtifacts, Prepare, PrepareFails, Teardown, StageCopy,
        CopyFails, Validate, Connect, Drop, Query, WriteQueries, WriteRows, WriteConfig,
        BenchBase, Refuses, Solve, Harness, ExecuteCandidate, ChatAnswers, ChatRetries,
        ChatFails, loopVars
  <2>3. \/ UNCHANGED spans
        \/ \E ok, usage \in BOOLEAN : spans' = spans \cup {Recorded(ok, usage)} \cup Wrapper(ok)
        \/ \E ok, usage \in BOOLEAN : spans' = spans \cup {Recorded(ok, usage)}
    BY DEF Solo, SuiteStep, MockArtifacts, Prepare, PrepareFails, Teardown, StageCopy,
        CopyFails, Validate, Connect, Drop, Query, WriteQueries, WriteRows, WriteConfig,
        BenchBase, Refuses, Solve, Harness, ExecuteCandidate, ChatAnswers, ChatRetries,
        ChatFails, loopVars
  <2>4. requests' \in Seq(Nat \X Nat)
    BY <2>0, <2>2, Appended DEF Sent, ChatType
  <2>5. spans' \in SUBSET SpanRecords
    BY <2>1, <2>3 DEF ChatType
  <2> QED
    BY <2>4, <2>5 DEF ChatType
<1> QED
  BY <1>1, <1>2, <1>3, <1>4

\* And by the official run, the disrupted run, and the console's cancel.
LEMMA TpcRunnerType ==
    ASSUME RunnerType, Tpc
    PROVE  RunnerType'
<1> USE DEF RunnerType
<1>1. FlagsType'
  <2>1. ~UNCHANGED <<stage, pending, raw>> /\ ~SealOfficial => Raise("error")
        \/ Raise("cancelled") \/ (Raise(at[FirstRaise]) /\ StreamsJoin)
    BY DEF Tpc, TpcStep, CheckAndConnect, PowerUnit, PowerEnds, OpenStreams, RefreshStatement,
       StreamsJoin, StreamQuery, StreamPolls, Maintain, AcidProbe, SealOfficial, Stay, Abort,
       Enter, PollInto
  <2>2. StreamsJoin /\ ~UNCHANGED <<stage, pending, raw>>
        => at[FirstRaise] \in {"cancelled", "error"}
    BY FirstRaised DEF StreamsJoin, Enter, Stay
  <2>3. SealOfficial => Return("art")
    BY DEF SealOfficial
  <2> QED
    BY <2>1, <2>2, <2>3, TpcFrame DEF Raise, Return, FlagsType
<1>2. LateType'
  BY TpcFrame, BeginType, StreamWorkers DEF LateType
<1> QED
  BY <1>1, <1>2, TpcFrame DEF loopVars, LoopType, ChatType

\* The runner's variables under the disrupted run.
LEMMA DisRunnerType ==
    ASSUME RunnerType, Dis
    PROVE  RunnerType'
<1> USE DEF RunnerType
<1>1. FlagsType'
  BY DEF Dis, DisStep, LoadPhase, ArmAndRun, ToolExits, CancelTimer, JoinAndSnapshot,
     RaiseClosing, TakeAll, ProxyStopped, SealYcsb, Rest, FlagsType, Raise, Return, Benching,
     Running
<1>2. LateType'
  BY DisFrame, BeginType, StreamWorkers DEF LateType
<1> QED
  BY <1>1, <1>2, DisFrame DEF loopVars, LoopType, ChatType

\* The official run's own variables.
LEMMA TpcKeepsType ==
    ASSUME RunnerType, TpcType, WorkInv, Tpc
    PROVE  TpcType'
<1> USE UnitsAssumption DEF RunnerType, TpcType
<1>1. phase' \in {"check", "power", "open", "streams", "dm", "acid", "seal"} /\ round' \in {1, 2}
  <2>1. round' = round \/ (Maintain /\ round # Rounds /\ round' = round + 1)
    BY DEF Tpc, TpcStep, CheckAndConnect, PowerUnit, PowerEnds, OpenStreams, RefreshStatement,
       StreamsJoin, StreamQuery, StreamPolls, Maintain, AcidProbe, SealOfficial
  <2>2. phase' \in {"check", "power", "open", "streams", "dm", "acid", "seal"}
    BY DEF Tpc, TpcStep, CheckAndConnect, PowerUnit, PowerEnds, OpenStreams, RefreshStatement,
       StreamsJoin, StreamQuery, StreamPolls, Maintain, AcidProbe, SealOfficial, Abort, Enter,
       PollInto
  <2> QED
    BY <2>1, <2>2 DEF Rounds, WorkInv
<1>2. done' \in [Workers -> Nat]
  <2>1. \/ UNCHANGED done \/ done' = [done EXCEPT ![0] = done[0] + 1]
        \/ done' = [w \in Workers |-> IF w = 0 THEN done[0] ELSE 0]
        \/ \E w \in Streams \cup {Refresh} : done' = [done EXCEPT ![w] = done[w] + 1]
    BY DEF Tpc, TpcStep, CheckAndConnect, PowerUnit, PowerEnds, OpenStreams, RefreshStatement,
       StreamsJoin, StreamQuery, StreamPolls, Maintain, AcidProbe, SealOfficial, Finished
  <2>2. \A w \in Workers : done[w] + 1 \in Nat
    OBVIOUS
  <2> QED
    BY <2>1, <2>2, StreamWorkers
<1>3. at' \in [Workers -> {"poll", "exec", "done", "cancelled", "error"}]
  <2>1. \/ UNCHANGED at
        \/ at' = [w \in Workers |-> IF w \in Active THEN "poll" ELSE "done"]
        \/ \E w \in Workers, v \in {"poll", "exec", "done", "cancelled", "error"} :
           at' = [at EXCEPT ![w] = v]
    BY StreamWorkers DEF Tpc, TpcStep, CheckAndConnect, PowerUnit, PowerEnds, OpenStreams,
       RefreshStatement, StreamsJoin, StreamQuery, StreamPolls, Maintain, AcidProbe, SealOfficial,
       Finished
  <2> QED
    BY <2>1
<1>4. conns' \in SUBSET Workers
  <2>1. conns' \in {conns, {}, {0}, conns \cup Active, conns \ Active}
    BY DEF Tpc, TpcStep, CheckAndConnect, PowerUnit, PowerEnds, OpenStreams, RefreshStatement,
       StreamsJoin, StreamQuery, StreamPolls, Maintain, AcidProbe, SealOfficial, Abort, PollInto
  <2> QED
    BY <2>1, StreamWorkers
<1>5. db' \in [lines : Nat, orders : Nat]
  <2>1. \/ UNCHANGED db \/ db' = [lines |-> db.lines + 1, orders |-> db.orders + 1]
        \/ db' = [db EXCEPT !.lines = db.lines + 1] \/ db' = [db EXCEPT !.orders = db.orders + 1]
    BY DEF Tpc, TpcStep, CheckAndConnect, PowerUnit, PowerEnds, OpenStreams, RefreshStatement,
       StreamsJoin, StreamQuery, StreamPolls, Maintain, AcidProbe, SealOfficial
  <2> QED
    BY <2>1
<1>6. acid' \in Seq({"n/a", "pass", "fail"})
  <2>1. UNCHANGED acid \/ \E v \in {"n/a", "pass", "fail"} : acid' = Append(acid, v)
    BY DEF Tpc, TpcStep, CheckAndConnect, PowerUnit, PowerEnds, OpenStreams, RefreshStatement,
       StreamsJoin, StreamQuery, StreamPolls, Maintain, AcidProbe, SealOfficial
  <2> DEFINE V == {"n/a", "pass", "fail"}
  <2>2. acid \in Seq(V) /\ (UNCHANGED acid \/ \E v \in V : acid' = Append(acid, v))
    BY <2>1
  <2> HIDE DEF V
  <2>3. \A v \in V : Append(acid, v) \in Seq(V)
    BY <2>2, Appended
  <2>4. acid' \in Seq(V)
    BY <2>2, <2>3, Zenon
  <2> QED
    BY <2>4 DEF V
<1> QED
  BY <1>1, <1>2, <1>3, <1>4, <1>5, <1>6

\* The disrupted run's own variables, moved by its thread.
LEMMA DisMovesType ==
    ASSUME DisType, StatsInv, Dis
    PROVE  DisType'
<1> USE DEF DisType
<1>1. plan' \in Plans /\ crashed' \in BOOLEAN /\ closing' \in BOOLEAN
  BY DEF Dis, DisStep, LoadPhase, ArmAndRun, ToolExits, CancelTimer, JoinAndSnapshot,
     RaiseClosing, TakeAll, ProxyStopped, SealYcsb, Rest
<1>2. step' \in {"load", "gate", "tool", "quiesce", "join", "stop", "close", "stopped"}
  BY DEF Dis, DisStep, LoadPhase, ArmAndRun, ToolExits, CancelTimer, JoinAndSnapshot,
     RaiseClosing, TakeAll, ProxyStopped, SealYcsb
<1>3. timer' \in {"none", "armed", "firing", "closing", "fired", "cancelled"}
  BY DEF Dis, DisStep, LoadPhase, ArmAndRun, ToolExits, CancelTimer, JoinAndSnapshot,
     RaiseClosing, TakeAll, ProxyStopped, SealYcsb
<1>4. UNCHANGED <<link, stats>> /\ tracked' \in {tracked, {}} /\ doomed' \in {doomed, tracked}
      /\ UNCHANGED cutting /\ snap' \in {snap, stats}
  BY DEF Dis, DisStep, LoadPhase, ArmAndRun, ToolExits, CancelTimer, JoinAndSnapshot,
     RaiseClosing, TakeAll, ProxyStopped, SealYcsb, Relays
<1> QED
  BY <1>1, <1>2, <1>3, <1>4

\* And moved by the proxy's threads.
LEMMA ProxyMovesType ==
    ASSUME DisType, StatsInv, Proxy
    PROVE  DisType'
<1> USE DEF DisType
<1>0. UNCHANGED <<plan, step, crashed, closing, snap>>
  BY ProxyFrame
<1>1. timer' \in {"none", "armed", "firing", "closing", "fired", "cancelled"}
  BY DEF Proxy, ProxyStep, TimerFires, ResetAll, Stall, ResetDone, ClosePair, Accept, Handshake,
     HangUp, Discard
<1>2. link' \in [Conns -> {"none", "handshake", "up", "down", "gone"}]
  <2>1. UNCHANGED link
        \/ \E c \in Conns, v \in {"none", "handshake", "up", "down", "gone"} :
           link' = [link EXCEPT ![c] = v]
    BY DEF Proxy, ProxyStep, TimerFires, ResetAll, Stall, ResetDone, ClosePair, Accept, Handshake,
       HangUp, Discard
  <2> QED
    BY <2>1
<1>3. tracked' \in SUBSET Conns /\ cutting' \in SUBSET Conns /\ doomed' \in SUBSET Conns
  <2>1. /\ \/ tracked' \in {tracked, {}} \/ \E c \in Conns : tracked' = tracked \cup {c}
              \/ tracked' = tracked \ {c}
        /\ doomed' = doomed \/ \E c \in Conns : doomed' = doomed \ {c}
        /\ cutting' \in {cutting, tracked} \/ \E c \in Conns : cutting' = cutting \ {c}
    BY DEF Proxy, ProxyStep, TimerFires, ResetAll, Stall, ResetDone, ClosePair, Accept, Handshake,
       HangUp, Discard
  <2> QED
    BY <2>1
<1>4. stats' \in Counters
  <2>1. Cardinality(tracked) \in Nat
    BY FS_CardinalityType DEF StatsInv
  <2>2. \/ UNCHANGED stats
        \/ stats' = [stats EXCEPT !.reset = stats.reset + Cardinality(tracked), !.at = stats.at + 1]
        \/ stats' = [stats EXCEPT !.windows = stats.windows + 1, !.at = stats.at + 1]
        \/ stats' = [stats EXCEPT !.total = stats.total + 1]
    BY DEF Proxy, ProxyStep, TimerFires, ResetAll, Stall, ResetDone, ClosePair, Accept, Handshake,
       HangUp, Discard
  <2>3. \A r \in Counters, n \in Nat :
           /\ [r EXCEPT !.reset = n] \in Counters /\ [r EXCEPT !.at = n] \in Counters
           /\ [r EXCEPT !.windows = n] \in Counters /\ [r EXCEPT !.total = n] \in Counters
    BY DEF Counters
  <2>4. /\ stats.reset + Cardinality(tracked) \in Nat /\ stats.at + 1 \in Nat
        /\ stats.windows + 1 \in Nat /\ stats.total + 1 \in Nat
    BY <2>1 DEF Counters
  <2>5. /\ [stats EXCEPT !.total = stats.total + 1] \in Counters
        /\ [stats EXCEPT !.windows = stats.windows + 1] \in Counters
        /\ [stats EXCEPT !.reset = stats.reset + Cardinality(tracked)] \in Counters
    BY <2>3, <2>4, Zenon
  <2>6. /\ [stats EXCEPT !.reset = stats.reset + Cardinality(tracked),
             !.at = stats.at + 1] \in Counters
        /\ [stats EXCEPT !.windows = stats.windows + 1, !.at = stats.at + 1] \in Counters
    BY <2>3, <2>4, <2>5, Zenon
  <2> QED
    BY <2>2, <2>5, <2>6, Zenon
<1> QED
  BY <1>0, <1>1, <1>2, <1>3, <1>4

\* How execute() stands.
LEMMA StageSolo ==
    ASSUME RunnerType, StageInv, Solo
    PROVE  StageInv'
<1> USE DEF StageInv, RunnerType, FlagsType, Running, Over, Raise, Return, Poll
<1>1. CASE MockArtifacts \/ Prepare \/ PrepareFails \/ Teardown \/ StageCopy \/ CopyFails
           \/ Validate
  BY <1>1 DEF MockArtifacts, Prepare, PrepareFails, Teardown, StageCopy, CopyFails, Validate,
      Stored
<1>2. CASE Connect \/ Query \/ WriteQueries \/ WriteRows \/ WriteConfig \/ BenchBase
        \/ Refuses \/ Solve \/ Harness
           \/ ExecuteCandidate
  <2>1. stage = "run" /\ suite \notin Stored /\ UNCHANGED <<suite, env, outcome>>
    BY <1>2 DEF Connect, Drop, Query, WriteQueries, WriteRows, WriteConfig, BenchBase, Refuses,
        Solve, Harness, ExecuteCandidate, Stored
  <2>2. \/ stage' = "teardown" /\ pending' \in {"error", "cancelled"}
        \/ stage' = "teardown" /\ UNCHANGED pending
        \/ UNCHANGED <<stage, pending>>
    BY <1>2 DEF Connect, Drop, Query, WriteQueries, WriteRows, WriteConfig, BenchBase, Refuses,
        Solve, Harness, ExecuteCandidate
  <2> QED
    BY <2>1, <2>2
<1>3. CASE ChatAnswers \/ ChatRetries \/ ChatFails
  <2>1. stage = "run" /\ suite \notin Stored /\ UNCHANGED <<suite, env, outcome>>
    BY <1>3 DEF ChatAnswers, ChatRetries, ChatFails, Chatting, Stored, ChatSuites
  <2>2. \/ stage' = "teardown" /\ pending' \in {"error", "cancelled"}
        \/ UNCHANGED <<stage, pending>>
    BY <1>3 DEF ChatAnswers, ChatRetries, ChatFails, Chatting
  <2> QED
    BY <2>1, <2>2
<1> QED
  BY <1>1, <1>2, <1>3 DEF Solo, SuiteStep

\* The other parts only move it into teardown, with what they raise.
LEMMA StageMoves ==
    ASSUME RunnerType, RunnerType', StageInv, Tpc \/ Dis \/ Proxy \/ RequestCancel
    PROVE  StageInv'
<1> USE DEF StageInv, RunnerType, FlagsType, Raise, Return
<1>1. CASE Tpc
  <2>1. /\ stage = "run" /\ suite \notin Stored /\ UNCHANGED <<suite, env, outcome>>
        /\ stage' \in {"run", "teardown"} /\ (stage' = "run" => UNCHANGED pending)
    BY <1>1, TpcFrame DEF Official, Stored
  <2> QED
    BY <2>1
<1>2. CASE Dis
  <2>1. /\ stage = "run" /\ suite \notin Stored /\ UNCHANGED <<suite, env, outcome>>
    BY <1>2, DisFrame DEF Stored
  <2>2. /\ stage' \in {"run", "teardown"} /\ (stage' = "run" => UNCHANGED pending)
    BY <1>2, <2>1 DEF Dis, DisStep, LoadPhase, ArmAndRun, ToolExits, CancelTimer, JoinAndSnapshot,
       RaiseClosing, TakeAll, ProxyStopped, SealYcsb, Rest
  <2> QED
    BY <2>1, <2>2
<1>3. CASE Proxy \/ RequestCancel
  <2>1. UNCHANGED <<suite, stage, env, pending, outcome>>
    BY <1>3, ProxyFrame DEF runnerVars, RequestCancel
  <2> QED
    BY <2>1
<1> QED
  BY <1>1, <1>2, <1>3

\* Whole: run() returns only when all of the plan is done, and nothing of it moves afterwards.
LEMMA WholeFixed ==
    ASSUME UNCHANGED <<suite, phase, round, acid, done, db, pos, step, crashed, plan>>, Whole
    PROVE  Whole'
<1> QED
  BY DEF Whole, OfficialWhole, HasRefresh, PowerUnits, Rounds

\* The sequential suites return at the end of their loops only.
LEMMA WholeSolo ==
    ASSUME RunnerType, StageInv, WholeInv, Solo
    PROVE  WholeInv'
<1> SUFFICES ASSUME Through' PROVE Whole'
  BY DEF WholeInv
<1> USE DEF RunnerType, FlagsType, StageInv, Running, Over, Raise, Return, Poll
<1>1. CASE MockArtifacts \/ Prepare \/ PrepareFails \/ Teardown \/ StageCopy \/ CopyFails
           \/ Validate
  <2>1. Through
    BY <1>1 DEF MockArtifacts, Prepare, PrepareFails, Teardown, StageCopy, CopyFails, Validate,
       Through
  <2>2. UNCHANGED <<suite, phase, round, acid, done, db, pos, step, crashed, plan>>
    BY <1>1, SoloFrame DEF MockArtifacts, Prepare, PrepareFails, Teardown, StageCopy, CopyFails,
       Validate, loopVars, tpcVars, disVars
  <2> QED
    BY <2>1, <2>2, WholeFixed DEF WholeInv
<1>2. CASE WriteQueries \/ WriteRows
  <2>1. /\ suite' = suite /\ pos' = pos
        /\ \/ suite \in {"queries", "items"} /\ pos = NUnits
           \/ suite = "code" /\ pos = 2 * NUnits
    BY <1>2 DEF WriteQueries, WriteRows, loopVars
  <2> QED
    BY <2>1 DEF Whole, Official
<1>3. CASE BenchBase
  <2>1. suite' = suite /\ suite = "tpcc" /\ pos' = 1
    BY <1>3 DEF BenchBase, Through
  <2> QED
    BY <2>1 DEF Whole, Official
<1>4. CASE Harness
  <2>1. suite' = suite /\ suite = "swe" /\ pos' = NUnits + 1
    BY <1>4 DEF Harness, Through
  <2> QED
    BY <2>1 DEF Whole, Official
<1>5. CASE Connect \/ Query \/ WriteConfig \/ Refuses \/ Solve \/ ExecuteCandidate \/ ChatAnswers
           \/ ChatRetries \/ ChatFails
  <2>1. stage = "run" /\ UNCHANGED outcome
        /\ (UNCHANGED stage \/ pending' \in {"error", "cancelled"})
    BY <1>5 DEF Connect, Drop, Query, WriteConfig, Refuses, Solve, ExecuteCandidate, ChatAnswers,
       ChatRetries, ChatFails, Chatting
  <2> QED
    BY <2>1 DEF Through
<1> QED
  BY <1>1, <1>2, <1>3, <1>4, <1>5 DEF Solo, SuiteStep

\* The official run returns sealed; the disrupted one stopped, neither crashed nor misfit.
LEMMA WholeMoves ==
    ASSUME SuiteInv, RunnerType', Tpc \/ Dis
           \/ (Proxy \/ (RequestCancel /\ UNCHANGED <<tpcVars, disVars, After>>))
    PROVE  WholeInv'
<1> SUFFICES ASSUME Through' PROVE Whole'
  BY DEF WholeInv
<1> USE DEF SuiteInv, RunnerType, FlagsType, StageInv
<1>1. CASE Tpc
  <2>1. stage = "run" /\ UNCHANGED <<suite, outcome>> /\ suite \in Official
    BY <1>1, TpcFrame
  <2>2. SealOfficial
    <3>1. Raise(at[FirstRaise]) => pending' = at[FirstRaise] 
      BY DEF Raise
    <3>2. StreamsJoin /\ ~UNCHANGED <<stage, pending, raw>>
          => at[FirstRaise] \in {"cancelled", "error"} /\ pending' = at[FirstRaise]
      BY FirstRaised DEF StreamsJoin, Enter, Stay, Abort, Raise
    <3>3. ~UNCHANGED <<stage, pending, raw>> /\ ~SealOfficial => pending' \in {"error",
                       "cancelled"}
      BY <3>2, <1>1 DEF Tpc, TpcStep, CheckAndConnect, PowerUnit, PowerEnds, OpenStreams,
         RefreshStatement, StreamQuery, StreamPolls, Maintain, AcidProbe, SealOfficial, Stay,
         Abort, Enter, PollInto, Raise, StreamsJoin
    <3> QED
      BY <2>1, <3>3 DEF Through
  <2>3. phase = "acid" /\ phase' = "seal" /\ Len(acid) = 4
        /\ UNCHANGED <<suite, round, done, db, acid>>
    BY <2>2 DEF SealOfficial, Driving, Idle, Settled
  <2>4. round = Rounds /\ done[0] = PowerUnits
        /\ (HasRefresh => db.lines = 2 * (NStreams + 1) /\ db.orders = 2 * (NStreams + 1))
    BY <2>3 DEF WorkInv, RefreshInv
  <2>5. \A w \in Active : done[w] = (IF w = Refresh THEN NStreams ELSE NUnits)
    BY <2>3 DEF WorkInv, Quota
  <2>6. (\A w \in Streams : done[w] = NUnits) /\ (HasRefresh => done[Refresh] = NStreams)
    BY <2>5, StreamWorkers DEF Active
  <2>7. OfficialWhole'
    BY <2>3, <2>4, <2>6 DEF OfficialWhole, Rounds, HasRefresh, PowerUnits
  <2> QED
    BY <2>1, <2>7 DEF Whole, Official
<1>2. CASE Dis
  <2>1. stage = "run" /\ UNCHANGED <<suite, outcome, plan>> /\ suite = "ycsb"
    BY <1>2, DisFrame
  <2>2. SealYcsb /\ ~crashed
    BY <1>2, <2>1 DEF Dis, DisStep, LoadPhase, ArmAndRun, ToolExits, CancelTimer, JoinAndSnapshot,
       RaiseClosing, TakeAll, ProxyStopped, SealYcsb, Raise, Through
  <2>3. step = "stopped" /\ UNCHANGED <<step, crashed>>
    BY <2>2 DEF SealYcsb, Benching
  <2> QED
    BY <2>1, <2>2, <2>3 DEF Whole, Official, RelayInv
<1>3. CASE Proxy \/ (RequestCancel /\ UNCHANGED <<tpcVars, disVars, After>>)
  <2>1. UNCHANGED <<suite, stage, env, pending, outcome, phase, round, acid, done, db, pos, step,
                    crashed, plan>>
    BY <1>3, ProxyFrame, CancelFrame DEF runnerVars, tpcVars, disVars, loopVars
  <2> QED
    BY <2>1, WholeFixed DEF WholeInv, Through
<1> QED
  BY <1>1, <1>2, <1>3

\* A unit is counted only after a cancel.
LEMMA BeginCounts ==
    ASSUME RunnerType, NEW w \in Workers, Begin(w)
    PROVE  late' = (IF cancel THEN [late EXCEPT ![w] = late[w] + 1] ELSE late)
<1> QED
  BY DEF Begin, RunnerType, LateType

\* Before anything is begun after a cancel there is nothing to show.
LEMMA LateZero ==
    ASSUME \A w \in Workers : late'[w] = 0
    PROVE  LateInv'
<1>1. late'[0] = 0
  BY StreamWorkers
<1> QED
  BY <1>1 DEF LateInv

\* A unit begun by the run's own thread, where the invariant has room for it.
LEMMA LateOne ==
    ASSUME RunnerType, RunnerType', cancel', \A w \in Workers \ {0} : late[w] = 0,
           late' = [late EXCEPT ![0] = late[0] + 1] \/ late' = late,
           stage' \in {"run", "teardown"},
           stage' = "run" /\ late'[0] > 0 =>
              \/ suite' \in Official /\ phase' = "acid"
              \/ suite' \in Official /\ phase' = "power" /\ late'[0] = 1 /\ HasRefresh'
                 /\ done'[0] \in {1, PowerUnits'}
              \/ suite' = "ycsb" /\ step' \notin {"load", "gate"},
           pending' = "cancelled" => late'[0] <= 2
    PROVE  LateInv'
<1>1. \A w \in Workers \ {0} : late'[w] = 0
  BY DEF RunnerType, LateType
<1> QED
  BY <1>1 DEF LateInv

\* Units begun after a cancel.
LEMMA LateSolo ==
    ASSUME SuiteInv, RunnerType', Solo
    PROVE  LateInv'
<1>0. /\ late \in [Workers -> Nat] /\ late' \in [Workers -> Nat] /\ cancel \in BOOLEAN
      /\ RunnerType /\ LateInv /\ StageInv
  BY DEF SuiteInv, RunnerType, FlagsType, LateType
<1> USE <1>0, StreamWorkers
<1>1. CASE MockArtifacts \/ Prepare \/ PrepareFails \/ Teardown \/ StageCopy \/ CopyFails
           \/ Validate
  <2>1. /\ UNCHANGED <<cancel, pending, late>> /\ stage' \notin {"mock", "prepare"}
        /\ stage' = "run" => stage = "prepare"
    BY <1>1, SoloFrame DEF MockArtifacts, Prepare, PrepareFails, Teardown, StageCopy, CopyFails,
       Validate, Over
  <2> QED
    BY <2>1 DEF LateInv
<1>2. CASE ~(MockArtifacts \/ Prepare \/ PrepareFails \/ Teardown \/ StageCopy \/ CopyFails
              \/ Validate)
  <2>1. stage = "run" /\ suite \notin Official \cup {"ycsb"} /\ UNCHANGED <<suite, cancel>>
        /\ (UNCHANGED late \/ Begin(0))
    BY <1>2, SoloFrame DEF Solo, SuiteStep, Connect, Drop, Query, WriteQueries, WriteRows,
        WriteConfig, BenchBase, Refuses, Solve, Harness, ExecuteCandidate, ChatAnswers,
        ChatRetries, ChatFails, Chatting, Running, ChatSuites, Official
  <2>2. stage' \in {"run", "teardown"} /\ (stage' = "run" /\ cancel => UNCHANGED late)
    BY <1>2, <2>1 DEF Solo, SuiteStep, Connect, Drop, Query, WriteQueries, WriteRows,
        WriteConfig, BenchBase, Refuses, Solve, Harness, ExecuteCandidate, ChatAnswers,
        ChatRetries, ChatFails, Raise, Return, Poll
  <2>3. \A w \in Workers : late[w] = 0
    BY <2>1 DEF LateInv, Official
  <2>4. late' = (IF cancel THEN [late EXCEPT ![0] = late[0] + 1] ELSE late) \/ late' = late
    BY <2>1, BeginCounts
  <2> QED
    BY <2>1, <2>2, <2>3, <2>4 DEF LateInv
<1> QED
  BY <1>1, <1>2

\* The official run polls before each query; its RF1/RF2 bracket is one unit behind a poll.
LEMMA LateTpc ==
    ASSUME SuiteInv, RunnerType', Tpc
    PROVE  LateInv'
<1>0. /\ late \in [Workers -> Nat] /\ late' \in [Workers -> Nat] /\ cancel \in BOOLEAN
      /\ RunnerType /\ LateInv /\ StageInv
  BY DEF SuiteInv, RunnerType, FlagsType, LateType
<1> USE <1>0, StreamWorkers
<1>n. NUnits \in Nat \ {0} /\ done \in [Workers -> Nat] /\ PowerUnits \in Nat
  BY UnitsAssumption DEF SuiteInv, TpcType, PowerUnits
<1>1. stage = "run" /\ suite \in Official /\ suite # "ycsb" /\ UNCHANGED <<suite, cancel>>
  BY TpcFrame DEF Official
<1>2. stage' \in {"run", "teardown"} /\ (stage' = "run" => UNCHANGED pending)
  BY TpcFrame DEF Raise, Return
<1>3. pending = ""
  BY <1>1 DEF StageInv
<1>4. CASE PowerUnit
  <2> DEFINE k == done[0] + 1
  <2>1. phase = "power" /\ k <= PowerUnits /\ Begin(0) /\ (phase' = phase)
    BY <1>4 DEF PowerUnit, Driving, Abort
  <2>2. late' = (IF cancel THEN [late EXCEPT ![0] = late[0] + 1] ELSE late)
    BY <2>1, BeginCounts
  <2>3. CASE ~cancel
    BY <2>2, <2>3, LateZero DEF LateInv
  <2>4. CASE cancel /\ ~IsRefresh(k)
    <3>1. stage' = "teardown"
      BY <1>4, <2>4 DEF PowerUnit, Abort, Raise
    <3>2. late[0] <= 1
      BY <1>1, <2>1 DEF LateInv
    <3> QED
      BY <2>2, <2>4, <3>1, <3>2, <1>1 DEF LateInv
  <2>5. CASE cancel /\ IsRefresh(k)
    <3>1. HasRefresh /\ k \in {1, PowerUnits} /\ PowerUnits = NUnits + 2
      BY <2>5 DEF IsRefresh, PowerUnits
    <3>2. late[0] = 0
      <4>1. done[0] \notin {1, PowerUnits}
        BY <1>n, <3>1, <2>1
      <4> QED
        BY <4>1, <1>1, <2>1 DEF LateInv
    <3>3. stage' = "run" => done' = [done EXCEPT ![0] = k]
      BY <1>4, <1>1 DEF PowerUnit, Abort, Raise
    <3>4. stage' = "run" => done'[0] \in {1, PowerUnits}
      BY <3>3, <3>1, <1>n
    <3>5. HasRefresh' /\ PowerUnits' = PowerUnits
      BY <3>1, <1>1 DEF HasRefresh, PowerUnits
    <3>6. late'[0] = 1 /\ late' = [late EXCEPT ![0] = late[0] + 1]
      BY <2>2, <2>5, <3>2
    <3>7. \A w \in Workers \ {0} : late[w] = 0
      BY DEF LateInv
    <3> QED
      BY <2>1, <2>5, <3>1, <3>4, <3>5, <3>6, <3>7, <1>1, <1>2, LateOne
  <2> QED
    BY <2>3, <2>4, <2>5
<1>5. CASE AcidProbe
  <2>1. Begin(0) /\ phase = "acid" /\ UNCHANGED <<stage, pending, phase>>
    BY <1>5 DEF AcidProbe, Driving, Stay
  <2> QED
    <3>1. CASE ~cancel
      BY <2>1, <3>1, BeginCounts, LateZero DEF LateInv
    <3>2. CASE cancel
      <4>1. \A w \in Workers \ {0} : late[w] = 0
        BY DEF LateInv
      <4>2. late' = [late EXCEPT ![0] = late[0] + 1]
        BY <2>1, <3>2, BeginCounts
      <4> QED
        BY <2>1, <3>2, <4>1, <4>2, <1>1, <1>3, LateOne
    <3> QED
      BY <3>1, <3>2
<1>6. CASE SealOfficial
  <2>1. stage' = "teardown" /\ UNCHANGED <<late, pending>>
    BY <1>6 DEF SealOfficial, Return
  <2> QED
    BY <2>1, <1>1, <1>3 DEF LateInv
<1>7. CASE ~(PowerUnit \/ AcidProbe \/ SealOfficial)
  <2>1. phase \in {"check", "open", "streams", "dm"}
        \/ (phase = "power" /\ (cancel => stage' = "teardown"))
    BY <1>7 DEF Tpc, TpcStep, CheckAndConnect, PowerEnds, OpenStreams, RefreshStatement,
       StreamsJoin, StreamQuery, StreamPolls, Maintain, Driving, PollInto, Abort, Raise
  <2>2. cancel => UNCHANGED late
    BY <1>7 DEF Tpc, TpcStep, CheckAndConnect, PowerEnds, OpenStreams, RefreshStatement,
       StreamsJoin, StreamQuery, StreamPolls, Maintain
  <2>3. ~cancel => late' = late
    BY TpcFrame, BeginCounts
  <2>4. late' = late
    BY <2>2, <2>3
  <2>5. late[0] <= 1 /\ (stage' = "run" => late[0] = 0)
    BY <2>1, <1>1 DEF LateInv
  <2> QED
    BY <2>4, <2>5, <1>1, <1>2 DEF LateInv
<1> QED
  BY <1>4, <1>5, <1>6, <1>7

\* The disrupted run polls before the load and before the tool.
LEMMA LateMoves ==
    ASSUME SuiteInv, RunnerType', Dis \/ Proxy
           \/ (RequestCancel /\ UNCHANGED <<tpcVars, disVars, After>>)
    PROVE  LateInv'
<1>0. /\ late \in [Workers -> Nat] /\ late' \in [Workers -> Nat] /\ cancel \in BOOLEAN
      /\ RunnerType /\ LateInv /\ StageInv
  BY DEF SuiteInv, RunnerType, FlagsType, LateType
<1> USE <1>0, StreamWorkers
<1>1. CASE Dis
  <2>1. stage = "run" /\ suite = "ycsb" /\ suite \notin Official /\ UNCHANGED <<suite, cancel>>
        /\ pending = ""
    BY <1>1, DisFrame DEF Official, StageInv
  <2>2. CASE ToolExits
    <3>1. Begin(0) /\ UNCHANGED <<stage, pending>> /\ step' \notin {"load", "gate"}
      BY <2>2 DEF ToolExits
    <3> QED
      <4>1. CASE ~cancel
        BY <3>1, <4>1, BeginCounts, LateZero DEF LateInv
      <4>2. CASE cancel
        <5>1. \A w \in Workers \ {0} : late[w] = 0
          BY DEF LateInv
        <5>2. late' = [late EXCEPT ![0] = late[0] + 1]
          BY <3>1, <4>2, BeginCounts
        <5> QED
          BY <2>1, <3>1, <4>2, <5>1, <5>2, LateOne
      <4> QED
        BY <4>1, <4>2
  <2>3. CASE ~ToolExits
    <3>1. late' = late
      <4>1. UNCHANGED late \/ (~cancel /\ Begin(0))
        BY <1>1, <2>3 DEF Dis, DisStep, LoadPhase, ArmAndRun, CancelTimer, JoinAndSnapshot,
           RaiseClosing, TakeAll, ProxyStopped, SealYcsb
      <4> QED
        BY <4>1, BeginCounts
    <3>2. /\ stage' \in {"run", "teardown"}
          /\ step' \in {"load", "gate"} => step \in {"load", "gate"}
          /\ pending' = "cancelled" => step \in {"load", "gate"}
      BY <1>1, <2>1, <2>3 DEF Dis, DisStep, LoadPhase, ArmAndRun, CancelTimer, JoinAndSnapshot,
         RaiseClosing, TakeAll, ProxyStopped, SealYcsb, Raise, Return, Rest, Benching
    <3> QED
      <4>1. CASE \A w \in Workers : late[w] = 0
        BY <3>1, <4>1, LateZero
      <4>2. CASE ~\A w \in Workers : late[w] = 0
        <5>1. cancel /\ late[0] > 0 /\ \A w \in Workers \ {0} : late[w] = 0
          BY <4>2 DEF LateInv
        <5>2. step \notin {"load", "gate"}
          BY <2>1, <5>1 DEF LateInv
        <5> QED
          BY <2>1, <3>1, <3>2, <5>1, <5>2, LateOne
      <4> QED
        BY <4>1, <4>2
  <2> QED
    BY <2>2, <2>3
<1>2. CASE Proxy
  <2>1. UNCHANGED <<suite, stage, pending, cancel, late, phase, done, step>>
    BY <1>2, ProxyFrame DEF runnerVars, tpcVars
  <2> QED
    BY <2>1 DEF LateInv, HasRefresh, PowerUnits
<1>3. CASE RequestCancel /\ UNCHANGED <<tpcVars, disVars, After>>
  <2>1. UNCHANGED <<suite, stage, pending, late, phase, done, step>> /\ cancel'
    BY <1>3, CancelFrame DEF tpcVars, disVars
  <2> QED
    BY <2>1 DEF LateInv, HasRefresh, PowerUnits
<1> QED
  BY <1>1, <1>2, <1>3

\* The directories of a run.
LEMMA DirsSolo ==
    ASSUME RunnerType, StageInv, DirsInv, Solo
    PROVE  DirsInv'
<1> USE DEF DuckSuites, Official
<1>0. UNCHANGED suite /\ Made' = Made
  BY SoloFrame DEF Made
<1>1. CASE MockArtifacts \/ Prepare \/ PrepareFails
  <2>1. /\ stage \in {"mock", "prepare"} /\ ~env /\ dirs = {} /\ outcome = ""
    BY <1>1 DEF MockArtifacts, Prepare, PrepareFails, DirsInv, StageInv
  <2>2. \/ stage' = "copy" /\ raw' = "art" /\ dirs' = {"art"} /\ UNCHANGED <<env, outcome>>
        \/ stage' = "run" /\ dirs' = Made /\ UNCHANGED outcome
        \/ stage' = "over" /\ outcome' = "error" /\ UNCHANGED env
    BY <1>1, <2>1 DEF MockArtifacts, Prepare, PrepareFails, Over, Made
  <2>3. "work" \notin Made
    BY DEF Made
  <2>4. CASE stage' = "copy" /\ raw' = "art" /\ dirs' = {"art"} /\ UNCHANGED <<env, outcome>>
    BY <1>0, <2>1, <2>4 DEF DirsInv
  <2>5. CASE stage' = "run" /\ dirs' = Made /\ UNCHANGED outcome
    BY <1>0, <2>1, <2>5, <2>3 DEF DirsInv
  <2>6. CASE stage' = "over" /\ outcome' = "error" /\ UNCHANGED env
    BY <1>0, <2>1, <2>6 DEF DirsInv
  <2> QED
    BY <2>2, <2>4, <2>5, <2>6
<1>2. CASE Teardown
  <2>1. /\ stage = "teardown" /\ UNCHANGED <<env, raw>>
        /\ dirs' = IF suite \in DuckSuites THEN dirs \ {"env"} ELSE dirs
        /\ IF pending # "" THEN stage' = "over" /\ outcome' = pending ELSE stage' = "copy"
           /\ UNCHANGED outcome
    BY <1>2 DEF Teardown, Over
  <2>2. pending \in {"", "error", "cancelled"} /\ outcome # "bundle"
    BY <2>1 DEF RunnerType, FlagsType, StageInv
  <2>3. pending = "" => raw = (IF suite = "swe" THEN "env" ELSE "art") /\ dirs = Made \cup {raw}
    BY <2>1 DEF DirsInv
  <2>4. suite \in DuckSuites => "env" \notin dirs'
    BY <2>1
  <2>5. pending = "" => dirs' = {raw} /\ (suite \in DuckSuites => raw = "art")
    BY <2>1, <2>3 DEF Made
  <2> QED
    BY <1>0, <2>1, <2>2, <2>4, <2>5 DEF DirsInv
<1>3. CASE StageCopy \/ CopyFails \/ Validate
  BY <1>0, <1>3 DEF StageCopy, CopyFails, Validate, Over, DirsInv, StageInv
<1>4. CASE WriteRows
  <2>1. /\ stage = "run" /\ stage' = "teardown" /\ raw' = "art" /\ dirs' = dirs \cup {"art"}
           /\ UNCHANGED outcome
        /\ suite \in {"queries", "items", "code"}
    BY <1>4 DEF WriteRows, Running, Return
  <2> QED
    BY <1>0, <2>1 DEF DirsInv, Made, StageInv
<1>5. CASE BenchBase
  <2>1. /\ stage = "run" /\ stage' = "teardown" /\ suite = "tpcc" /\ UNCHANGED outcome
        /\ \/ raw' = "art" /\ dirs' = (dirs \ {"work"}) \cup {"art"}
           \/ pending' = "error"
    BY <1>5 DEF BenchBase, Running, Return, Raise
  <2> QED
    BY <1>0, <2>1 DEF DirsInv, Made, StageInv
<1>6. CASE Harness
  <2>1. /\ stage = "run" /\ stage' = "teardown" /\ suite = "swe" /\ UNCHANGED <<dirs, outcome>>
        /\ raw' = "env" \/ pending' = "error"
    BY <1>6 DEF Harness, Running, Return, Raise
  <2> QED
    BY <1>0, <2>1 DEF DirsInv, Made, StageInv
<1>7. CASE WriteConfig
  <2>1. /\ stage = "run" /\ suite = "tpcc" /\ UNCHANGED outcome /\ dirs' = dirs \cup {"work"}
        /\ UNCHANGED stage \/ (stage' = "teardown" /\ pending' = "cancelled")
    BY <1>7 DEF WriteConfig, Running, Poll, Raise
  <2> QED
    BY <1>0, <2>1 DEF DirsInv, Made, StageInv
<1>9. CASE WriteQueries
  <2>1. /\ stage = "run" /\ stage' = "teardown" /\ UNCHANGED outcome /\ suite = "queries"
        /\ \/ raw' = "art" /\ dirs' = dirs \cup {"art"}
           \/ pending' = "error"
    BY <1>9 DEF WriteQueries, Drop, Running, Return, Raise
  <2> QED
    BY <1>0, <2>1 DEF DirsInv, Made, StageInv
<1>8. CASE Connect \/ Query \/ Refuses \/ Solve \/ ExecuteCandidate \/ ChatAnswers
        \/ ChatRetries \/ ChatFails
  <2>1. /\ stage = "run" /\ UNCHANGED <<dirs, outcome>>
        /\ UNCHANGED <<stage, pending, raw>>
           \/ (stage' = "teardown" /\ pending' \in {"cancelled", "error"})
    BY <1>8 DEF Connect, Drop, Query, Refuses, Solve, ExecuteCandidate, ChatAnswers, ChatRetries,
       ChatFails, Chatting, Running, Poll, Raise
  <2> QED
    BY <1>0, <2>1 DEF DirsInv, StageInv
<1> QED
  BY <1>1, <1>2, <1>3, <1>4, <1>5, <1>6, <1>7, <1>8, <1>9 DEF Solo, SuiteStep

\* The other parts write the artifacts when run() returns, and nothing else.
LEMMA DirsMoves ==
    ASSUME SuiteInv, Tpc \/ Dis \/ Proxy \/ (RequestCancel /\ UNCHANGED <<tpcVars, disVars,
                                                                          After>>)
    PROVE  DirsInv'
<1>0. RunnerType /\ StageInv /\ DirsInv
  BY DEF SuiteInv
<1>1. CASE Proxy \/ (RequestCancel /\ UNCHANGED <<tpcVars, disVars, After>>)
  <2>1. UNCHANGED <<suite, stage, env, pending, raw, outcome, dirs>>
    BY <1>1, ProxyFrame, CancelFrame DEF runnerVars
  <2> QED
    BY <1>0, <2>1 DEF DirsInv, Made
<1>2. CASE Tpc \/ Dis
  <2>1. stage = "run" /\ suite \in DuckSuites \cup {"ycsb"} /\ suite # "tpcc" /\ suite # "swe"
        /\ UNCHANGED <<suite, env, outcome>>
    BY <1>2, TpcFrame, DisFrame DEF DuckSuites, Official
  <2>2. \/ UNCHANGED <<dirs, stage, pending, raw>>
        \/ UNCHANGED dirs /\ stage' = "teardown" /\ pending' \in {"error", "cancelled"}
        \/ dirs' = dirs \cup {"art"} /\ raw' = "art" /\ stage' = "teardown"
    <3>1. CASE Dis
      BY <3>1 DEF Dis, DisStep, LoadPhase, ArmAndRun, ToolExits, CancelTimer, JoinAndSnapshot,
         RaiseClosing, TakeAll, ProxyStopped, SealYcsb, Raise, Return, Rest, Benching
    <3>2. CASE Tpc
      <4>1. StreamsJoin /\ ~UNCHANGED <<stage, pending, raw>> => Raise("error")
            \/ Raise("cancelled")
        BY FirstRaised DEF StreamsJoin, Enter, Stay, Abort, Raise
      <4> QED
        BY <4>1, <3>2 DEF Tpc, TpcStep, CheckAndConnect, PowerUnit, PowerEnds, OpenStreams,
           RefreshStatement, StreamQuery, StreamPolls, Maintain, AcidProbe, SealOfficial, Stay,
           Abort, Enter, PollInto, Raise, Return, StreamsJoin
    <3> QED
      BY <1>2, <3>1, <3>2
  <2>3. outcome = "" /\ dirs = Made
    BY <1>0, <2>1 DEF StageInv, DirsInv, Made
  <2>4. Made' = Made
    BY <2>1 DEF Made
  <2> QED
    BY <1>0, <2>1, <2>2, <2>3, <2>4 DEF DirsInv
<1> QED
  BY <1>1, <1>2

\* Whose connections are open, and who may be at work.
LEMMA ConnsRest ==
    ASSUME SuiteInv, Solo \/ Dis \/ Proxy
           \/ (RequestCancel /\ UNCHANGED <<tpcVars, disVars, After>>)
    PROVE  ConnsInv' /\ WorkInv' /\ RefreshInv'
<1>0. StageInv /\ ConnsInv /\ WorkInv /\ RefreshInv /\ RunnerType
  BY DEF SuiteInv
<1>1. UNCHANGED <<suite, tpcVars>>
  BY SoloFrame, DisFrame, ProxyFrame, CancelFrame DEF runnerVars
<1>2. UNCHANGED <<HasRefresh, Active, Quiet, PowerUnits, Rounds>>
      /\ UNCHANGED <<phase, conns, at, done, round, db, acid>>
  BY <1>1 DEF tpcVars, HasRefresh, Active, Quiet, PowerUnits, Rounds
<1>3. \/ stage' = stage \/ (stage = "mock" /\ stage' = "copy")
         \/ (stage = "prepare" /\ stage' \in {"run", "over"})
      \/ stage \in {"run", "teardown", "copy", "validate"}
         /\ stage' \in {"teardown", "copy", "validate", "over"}
  <2>1. CASE Solo
    BY <2>1 DEF Solo, SuiteStep, MockArtifacts, Prepare, PrepareFails, Teardown, StageCopy,
        CopyFails, Validate, Connect, Drop, Query, WriteQueries, WriteRows, WriteConfig,
        BenchBase, Refuses, Solve, Harness, ExecuteCandidate, ChatAnswers, ChatRetries,
        ChatFails, Chatting, Running, Raise, Return, Poll, Over
  <2>2. CASE Dis
    BY <2>2 DEF Dis, DisStep, LoadPhase, ArmAndRun, ToolExits, CancelTimer, JoinAndSnapshot,
       RaiseClosing, TakeAll, ProxyStopped, SealYcsb, Raise, Return, Benching, Running
  <2>3. CASE Proxy \/ (RequestCancel /\ UNCHANGED <<tpcVars, disVars, After>>)
    BY <2>3, ProxyFrame, CancelFrame DEF runnerVars
  <2> QED
    BY <2>1, <2>2, <2>3
<1>4. ~(stage = "run" /\ stage' # "run" /\ suite \in Official)
  <2>1. CASE Solo
    BY <2>1 DEF Solo, SuiteStep, MockArtifacts, Prepare, PrepareFails, Teardown, StageCopy,
        CopyFails, Validate, Connect, Drop, Query, WriteQueries, WriteRows, WriteConfig,
        BenchBase, Refuses, Solve, Harness, ExecuteCandidate, ChatAnswers, ChatRetries,
        ChatFails, Chatting, Running, ChatSuites, Official
  <2>2. CASE Dis
    BY <2>2, DisFrame DEF Official
  <2>3. CASE Proxy \/ (RequestCancel /\ UNCHANGED <<tpcVars, disVars, After>>)
    BY <2>3, ProxyFrame, CancelFrame DEF runnerVars
  <2> QED
    BY <2>1, <2>2, <2>3
<1>5. ConnsInv'
  BY <1>0, <1>1, <1>2, <1>3, <1>4 DEF ConnsInv
<1>6. WorkInv'
  <2>1. phase = "seal" => stage' # "run"
    BY <1>0, <1>3 DEF WorkInv, ConnsInv
  <2> QED
    BY <1>0, <1>2, <2>1 DEF WorkInv
<1>7. RefreshInv'
  BY <1>0, <1>2 DEF RefreshInv
<1> QED
  BY <1>5, <1>6, <1>7

\* The official run, step by step.
LEMMA TpcLocal ==
    ASSUME SuiteInv, Tpc
    PROVE  /\ TpcType /\ ConnsInv /\ WorkInv /\ RefreshInv /\ StageInv
           /\ stage = "run" /\ suite \in Official /\ suite' = suite
           /\ (HasRefresh' <=> HasRefresh) /\ Active' = Active /\ PowerUnits' = PowerUnits
              /\ Rounds' = Rounds
           /\ NUnits \in Nat \ {0} /\ NStreams \in Nat \ {0}
           /\ PowerUnits = (IF HasRefresh THEN NUnits + 2 ELSE NUnits)
           /\ HasRefresh \in BOOLEAN
<1> QED
  BY TpcFrame, UnitsAssumption DEF SuiteInv, HasRefresh, Active, PowerUnits, Rounds

\* The official run's own steps.
LEMMA TpcConns ==
    ASSUME SuiteInv, Tpc
    PROVE  ConnsInv'
<1> USE TpcLocal, StreamWorkers
<1>1. CASE CheckAndConnect \/ PowerUnit \/ PowerEnds
  <2>1. /\ UNCHANGED at /\ phase \in {"check", "power"}
        /\ \/ stage' = "teardown" /\ conns' = {} /\ phase' = phase
           \/ stage' = stage /\ phase' = "power" /\ conns' = {0}
           \/ stage' = stage /\ phase' \in {"power", "open"} /\ phase = "power" /\ conns' = conns
    BY <1>1 DEF CheckAndConnect, PowerUnit, PowerEnds, PollInto, Abort, Enter, Stay, Raise,
        Driving
  <2> QED
    BY <2>1 DEF ConnsInv
<1>2. CASE OpenStreams
  <2>1. /\ phase = "open"
        /\ \/ phase' = "streams" /\ stage' = stage /\ conns' = conns \cup Active
           \/ phase' = phase /\ stage' = "teardown" /\ conns' = {} /\ UNCHANGED at
    BY <1>2 DEF OpenStreams, Driving, Enter, Stay, Abort, Raise
  <2> QED
    BY <2>1 DEF ConnsInv
<1>3. CASE RefreshStatement \/ (\E w \in Streams : StreamQuery(w))
           \/ (\E w \in Active : StreamPolls(w))
  <2>1. phase = "streams" /\ phase' = phase /\ stage' = stage /\ conns' = conns
    BY <1>3 DEF RefreshStatement, StreamQuery, StreamPolls, Driving, Stay
  <2> QED
    BY <2>1 DEF ConnsInv
<1>4. CASE StreamsJoin
  <2>1. CASE \E w \in Active : Raised(w)
    <3>1. phase = "streams" /\ stage' = "teardown" /\ conns' = {} /\ phase' = phase /\ Quiet
          /\ Quiet' = Quiet
      BY <1>4, <2>1 DEF StreamsJoin, Driving, Abort, Raise, Quiet
    <3> QED
      BY <3>1 DEF ConnsInv
  <2>2. CASE ~\E w \in Active : Raised(w)
    <3>1. phase = "streams" /\ stage' = stage /\ conns' = conns \ Active
          /\ phase' \in {"acid", "dm"} /\ Quiet /\ UNCHANGED at
      BY <1>4, <2>2 DEF StreamsJoin, Driving, Enter, Stay
    <3>2. \A w \in Active : at[w] = "done"
      BY <3>1, <2>2 DEF Quiet, Raised
    <3> QED
      BY <3>1, <3>2 DEF ConnsInv
  <2> QED
    BY <2>1, <2>2
<1>5. CASE Maintain \/ AcidProbe \/ SealOfficial
  <2>1. /\ UNCHANGED at /\ phase \in {"dm", "acid"}
        /\ \/ stage' = "teardown" /\ conns' = {} /\ phase' \in {"dm", "acid", "seal"}
           \/ stage' = stage /\ phase' \in {"acid", "open"} /\ conns' = conns
    BY <1>5 DEF Maintain, AcidProbe, SealOfficial, Abort, Enter, Stay, Raise, Return, Driving
  <2> QED
    BY <2>1 DEF ConnsInv
<1> QED
  BY <1>1, <1>2, <1>3, <1>4, <1>5 DEF Tpc, TpcStep

\* A verdict after two is the third.
LEMMA ThirdVerdict ==
    ASSUME NEW V, NEW s \in Seq(V), NEW v \in V, Len(s) < 4
    PROVE  /\ Len(s) \in {0, 1, 2, 3}
           /\ Len(s) = 2 => Len(Append(s, v)) = 3 /\ Append(s, v)[3] = v
<1>1. \A n \in Nat : n < 4 => n \in {0, 1, 2, 3}
  OBVIOUS
<1>2. Len(s) \in {0, 1, 2, 3}
  <2>1. Len(s) \in Nat
    OBVIOUS
  <2> QED
    BY <1>1, <2>1
<1>3. ASSUME Len(s) = 2 PROVE Len(Append(s, v)) = 3 /\ Append(s, v)[3] = v
  <2>1. Len(Append(s, v)) = Len(s) + 1 /\ Append(s, v)[Len(s) + 1] = v
    OBVIOUS
  <2>2. Len(s) + 1 = 3
    BY <1>3
  <2> QED
    BY <2>1, <2>2, Zenon
<1> QED
  BY <1>2, <1>3

\* Which connections may be left open depends on nothing else.
LEMMA LeftOpenSame ==
    ASSUME UNCHANGED <<suite, env, pending, phase, acid, dropped>>, Active' = Active, LeftOpen
    PROVE  LeftOpen'
<1> QED
  BY DEF LeftOpen

\* A run in progress has lost a connection in the isolation probe only.
LEMMA DropRunning ==
    ASSUME SuiteInv, stage = "run"
    PROVE  /\ pending = "" /\ env
           /\ dropped = {} \/ (dropped = {0} /\ Len(acid) > 2 /\ acid[3] = "fail")
           /\ phase \notin {"acid", "seal"} => dropped = {} /\ acid = << >>
<1>1. pending = "" /\ env
  BY DEF SuiteInv, StageInv
<1>2. dropped = {} \/ (dropped = {0} /\ Len(acid) > 2 /\ acid[3] = "fail")
  BY <1>1 DEF SuiteInv, DropInv, LeftOpen
<1>3. phase \notin {"acid", "seal"} => acid = << >>
  BY DEF SuiteInv, DropInv
<1>4. Len(<< >>) = 0
  OBVIOUS
<1>5. ASSUME phase \notin {"acid", "seal"} PROVE dropped = {} /\ acid = << >>
  <2>1. acid = << >>
    BY <1>3, <1>5
  <2>2. ~(Len(acid) > 2)
    BY <1>4, <2>1
  <2> QED
    BY <1>2, <2>1, <2>2
<1> QED
  BY <1>1, <1>2, <1>5

\* The query set and a failing prepare() drop the connection they opened.
LEMMA DropSolo ==
    ASSUME SuiteInv, Solo
    PROVE  DropInv'
<1>0. UNCHANGED <<suite, phase, acid>> /\ Active' = Active /\ DropInv /\ StageInv /\ ConnsInv
  BY SoloFrame DEF SuiteInv, tpcVars, Active, HasRefresh
<1>1. CASE MockArtifacts \/ Prepare
  <2>1. stage \in {"mock", "prepare"} /\ UNCHANGED <<con, dropped>>
    BY <1>1 DEF MockArtifacts, Prepare, dbVars
  <2> QED
    BY <1>0, <2>1 DEF DropInv
<1>2. CASE PrepareFails
  <2>1. /\ stage = "prepare" /\ stage' = "over" /\ UNCHANGED <<con, env>>
        /\ dropped' \in {{}, {0}} /\ (dropped' # {} => suite \in DuckSuites)
    BY <1>2 DEF PrepareFails, Over
  <2>2. ~env /\ con = "none"
    BY <1>0, <2>1 DEF StageInv, DropInv
  <2> QED
    BY <1>0, <2>1, <2>2 DEF DropInv, LeftOpen
<1>3. CASE Teardown \/ StageCopy \/ CopyFails \/ Validate
  <2>1. /\ stage \in {"teardown", "copy", "validate"} /\ stage' \notin {"mock", "prepare"}
        /\ UNCHANGED <<con, dropped, env, pending>>
    BY <1>3 DEF Teardown, StageCopy, CopyFails, Validate, Over, dbVars
  <2>2. LeftOpen => LeftOpen'
    BY <1>0, <2>1, LeftOpenSame
  <2> QED
    BY <1>0, <2>1, <2>2 DEF DropInv
<1>4. CASE Connect \/ Query \/ WriteQueries
  <2>1. /\ stage = "run" /\ suite = "queries" /\ stage' \in {"run", "teardown"}
        /\ con' # "none" => stage' = "run"
        /\ dropped' \in {dropped, dropped \cup {0}}
        /\ dropped' # dropped => pending' \in {"error", "cancelled"}
    BY <1>4 DEF Connect, Query, WriteQueries, Drop, Running, Raise, Return, dbVars
  <2>2. phase = "check"
    BY <1>0, <2>1 DEF ConnsInv, Official
  <2>3. dropped = {}
    BY <2>1, <2>2, DropRunning
  <2> QED
    BY <1>0, <2>1, <2>3 DEF DropInv, LeftOpen, DuckSuites
<1>5. CASE ~(MockArtifacts \/ Prepare \/ PrepareFails \/ Teardown \/ StageCopy \/ CopyFails
              \/ Validate \/ Connect \/ Query \/ WriteQueries)
  <2>1. suite \notin DuckSuites /\ UNCHANGED <<con, dropped>>
    BY <1>5 DEF Solo, SuiteStep, WriteRows, WriteConfig, BenchBase, Refuses, Solve, Harness,
       ExecuteCandidate, ChatAnswers, ChatRetries, ChatFails, Chatting, Running, ChatSuites,
       DuckSuites, Official, dbVars
  <2> QED
    BY <1>0, <2>1 DEF DropInv, DuckSuites
<1> QED
  BY <1>1, <1>2, <1>3, <1>4, <1>5

\* The official run drops connections it opened outside a try.
LEMMA DropTpc ==
    ASSUME SuiteInv, Tpc
    PROVE  DropInv'
<1>0. /\ stage = "run" /\ suite \in Official /\ UNCHANGED <<suite, env, con>> /\ Active' = Active
      /\ stage' \in {"run", "teardown"} /\ con = "none" /\ suite \in DuckSuites
      /\ suite' \in Official /\ suite' \in DuckSuites
  <2>1. /\ stage = "run" /\ suite \in Official /\ UNCHANGED <<suite, env, con>>
        /\ stage' \in {"run", "teardown"}
    BY TpcFrame DEF Raise, Return
  <2> QED
    BY <2>1 DEF SuiteInv, DropInv, Official, DuckSuites, Active, HasRefresh
<1>1. /\ pending = "" /\ env
      /\ dropped = {} \/ (dropped = {0} /\ Len(acid) > 2 /\ acid[3] = "fail")
      /\ phase \notin {"acid", "seal"} => dropped = {} /\ acid = << >>
  BY <1>0, DropRunning
<1>2. CASE CheckAndConnect
  <2>1. /\ phase = "check" /\ acid' = acid /\ phase' \in {"check", "power"}
        /\ dropped' \in {dropped, dropped \cup {0}}
        /\ dropped' # dropped => pending' = "error" /\ phase' = "check"
    BY <1>2 DEF CheckAndConnect, Abort, Enter, Raise, Driving
  <2> QED
    BY <1>0, <1>1, <2>1 DEF DropInv, LeftOpen
<1>3. CASE OpenStreams
  <2>1. /\ phase = "open" /\ acid' = acid /\ phase' \in {"open", "streams"}
        /\ \/ dropped' = dropped
           \/ /\ pending' = "error" /\ phase' = "open"
              /\ \E last \in Workers : dropped' = dropped \cup {w \in Active : w <= last}
    BY <1>3 DEF OpenStreams, Abort, Enter, Raise, Driving
  <2>2. dropped = {} /\ acid = << >>
    BY <1>1, <2>1
  <2>3. CASE dropped' = dropped
    BY <1>0, <2>1, <2>2, <2>3 DEF DropInv
  <2>4. CASE /\ pending' = "error" /\ phase' = "open"
             /\ \E last \in Workers : dropped' = dropped \cup {w \in Active : w <= last}
    <3>1. PICK last \in Workers : dropped' = {w \in Active : w <= last}
      BY <2>2, <2>4
    <3>2. dropped' = {} \/ \E n \in Active : dropped' = {w \in Active : w <= n}
      BY <3>1, UnitsAssumption DEF Active, Streams, Refresh, Workers
    <3> QED
      BY <1>0, <2>1, <2>2, <2>4, <3>2 DEF DropInv, LeftOpen
  <2> QED
    BY <2>1, <2>3, <2>4
<1>4. CASE AcidProbe
  <2>1. /\ phase = "acid" /\ phase' = "acid"
        /\ \E v : acid' = Append(acid, v)
        /\ \/ dropped' = dropped
           \/ /\ dropped' = dropped \cup {0} /\ Probe = "isolation"
              /\ acid' = Append(acid, "fail")
    BY <1>4 DEF AcidProbe, Driving
  <2>2. acid \in Seq({"n/a", "pass", "fail"}) /\ Len(acid) \in Nat /\ Len(acid) < 4
    BY <1>4 DEF AcidProbe, SuiteInv, TpcType
  <2>3. CASE dropped' = dropped
    <3>1. Len(acid) > 2 => Len(acid') > 2 /\ acid'[3] = acid[3]
      BY <2>1, <2>2
    <3> QED
      BY <1>0, <1>1, <2>1, <2>3, <3>1 DEF DropInv, LeftOpen
  <2>4. CASE /\ dropped' = dropped \cup {0} /\ Probe = "isolation"
             /\ acid' = Append(acid, "fail")
    <3>1. Len(acid) = 2
      <4>1. Len(acid) \in {0, 1, 2, 3}
        <5> DEFINE V == {"n/a", "pass", "fail"}
        <5>1. acid \in Seq(V) /\ "fail" \in V /\ Len(acid) < 4
          BY <2>2
        <5> HIDE DEF V
        <5> QED
          BY <5>1, ThirdVerdict, Zenon
      <4>2. Probes[1] # "isolation" /\ Probes[2] # "isolation" /\ Probes[4] # "isolation"
        BY DEF Probes
      <4> QED
        <5> HIDE DEF Probes
        <5>1. CASE Len(acid) = 0
          BY <2>4, <4>2, <5>1 DEF Probe
        <5>2. CASE Len(acid) = 1
          BY <2>4, <4>2, <5>2 DEF Probe
        <5>3. CASE Len(acid) = 3
          BY <2>4, <4>2, <5>3 DEF Probe
        <5> QED
          BY <4>1, <5>1, <5>2, <5>3
    <3>2. Len(acid') = 3 /\ acid'[3] = "fail"
      <4>1. Len(Append(acid, "fail")) = 3 /\ Append(acid, "fail")[3] = "fail"
        <5> DEFINE V == {"n/a", "pass", "fail"}
        <5>1. acid \in Seq(V) /\ "fail" \in V /\ Len(acid) < 4
          BY <2>2
        <5> HIDE DEF V
        <5> QED
          BY <3>1, <5>1, ThirdVerdict, Zenon
      <4> QED
        BY <2>4, <4>1
    <3>3. dropped' = {0}
      BY <1>1, <2>4
    <3> QED
      BY <1>0, <2>1, <3>2, <3>3 DEF DropInv, LeftOpen
  <2> QED
    BY <2>1, <2>3, <2>4
<1>5. CASE ~(CheckAndConnect \/ OpenStreams \/ AcidProbe)
  <2>1. /\ UNCHANGED <<dropped, acid>>
        /\ phase = "acid" => phase' = "seal"
        /\ phase # "seal"
    BY <1>5 DEF Tpc, TpcStep, PowerUnit, PowerEnds, RefreshStatement, StreamsJoin, StreamQuery,
       StreamPolls, Maintain, SealOfficial, Driving, Idle
  <2> QED
    BY <1>0, <1>1, <2>1 DEF DropInv, LeftOpen
<1> QED
  BY <1>2, <1>3, <1>4, <1>5

\* Nobody else has a DuckDB connection.
LEMMA DropRest ==
    ASSUME SuiteInv, Dis \/ Proxy \/ (RequestCancel /\ UNCHANGED <<tpcVars, disVars, After>>)
    PROVE  DropInv'
<1>0. DropInv
  BY DEF SuiteInv
<1>1. CASE Dis
  <2>1. suite = "ycsb" /\ UNCHANGED <<suite, con, dropped, acid, phase>>
    BY <1>1, DisFrame DEF dbVars, tpcVars
  <2> QED
    BY <1>0, <2>1 DEF DropInv, DuckSuites, Official
<1>2. CASE Proxy \/ (RequestCancel /\ UNCHANGED <<tpcVars, disVars, After>>)
  <2>1. UNCHANGED <<suite, stage, env, pending, con, dropped, phase, acid>>
    BY <1>2, ProxyFrame, CancelFrame DEF runnerVars, tpcVars, dbVars
  <2>2. Active' = Active
    BY <2>1 DEF Active, HasRefresh
  <2>3. LeftOpen => LeftOpen'
    BY <2>1, <2>2, LeftOpenSame
  <2> QED
    BY <1>0, <2>1, <2>3 DEF DropInv
<1> QED
  BY <1>1, <1>2

\* The official run's work, unit by unit.
LEMMA TpcWork ==
    ASSUME SuiteInv, Tpc
    PROVE  WorkInv'
<1> USE TpcLocal, StreamWorkers
<1>0. Rounds \in {1, 2} /\ (HasRefresh => Rounds = 1) /\ (~HasRefresh => Rounds = 2)
      /\ round \in {1, 2}
  BY DEF Rounds, TpcType
<1>t. done \in [Workers -> Nat]
      /\ at \in [Workers -> {"poll", "exec", "done", "cancelled", "error"}]
  BY DEF TpcType
<1>1. CASE CheckAndConnect \/ PowerEnds \/ (OpenStreams /\ phase' # "streams")
  <2>1. /\ UNCHANGED <<done, round, acid>> /\ phase \in {"check", "power", "open"}
        /\ phase' = phase \/ (phase = "check" /\ phase' = "power")
           \/ (phase = "power" /\ phase' = "open" /\ done[0] = PowerUnits)
    BY <1>1 DEF CheckAndConnect, PowerEnds, OpenStreams, PollInto, Abort, Enter, Driving
  <2> QED
    BY <2>1, <1>0, <1>t DEF WorkInv
<1>2. CASE PowerUnit
  <2>1. /\ UNCHANGED <<round, acid, phase>> /\ phase = "power"
        /\ done' = done \/ (done[0] + 1 <= PowerUnits /\ done' = [done EXCEPT ![0] = done[0] + 1])
    BY <1>2 DEF PowerUnit, Abort, Driving
  <2> QED
    BY <2>1, <1>0, <1>t DEF WorkInv
<1>3. CASE OpenStreams /\ phase' = "streams"
  <2>1. /\ UNCHANGED <<round, acid>> /\ phase = "open" /\ phase' = "streams"
        /\ done' = [w \in Workers |-> IF w = 0 THEN done[0] ELSE 0]
        /\ at' = [w \in Workers |-> IF w \in Active THEN "poll" ELSE "done"]
    BY <1>3 DEF OpenStreams, Abort, Enter, Driving
  <2>2. done'[0] = done[0] /\ \A w \in Active : done'[w] = 0 /\ at'[w] = "poll"
    BY <2>1
  <2> QED
    <3>1. \A w \in Active : Quota(w) \in Nat \ {0}
      BY DEF Quota
    <3>2. done[0] = PowerUnits /\ round <= Rounds /\ Len(acid) <= 4
      BY <2>1 DEF WorkInv
    <3> HIDE TpcLocal
    <3>3. Active' = Active /\ PowerUnits' = PowerUnits /\ Rounds' = Rounds
      BY TpcLocal
    <3> QED
      BY <2>1, <2>2, <3>1, <3>2, <3>3 DEF WorkInv
<1>4. CASE \E w \in Active : StreamPolls(w)
  <2>1. PICK w \in Active : StreamPolls(w)
    BY <1>4
  <2>2. /\ UNCHANGED <<round, acid, phase, done>> /\ phase = "streams" /\ at[w] = "poll"
        /\ \/ at' = [at EXCEPT ![w] = "cancelled"] \/ at' = [at EXCEPT ![w] = "exec"]
    BY <2>1 DEF StreamPolls, Driving
  <2> QED
    BY <2>2, <1>0, <1>t DEF WorkInv
<1>5. CASE RefreshStatement \/ \E w \in Streams : StreamQuery(w)
  <2>1. PICK w \in Active : /\ UNCHANGED <<round, acid, phase>> /\ phase = "streams"
                               /\ at[w] = "exec"
        /\ \/ done' = done /\ (at' = at \/ at' = [at EXCEPT ![w] = "error"])
           \/ Finished(w, Quota(w))
    <3>1. CASE RefreshStatement
      BY <3>1 DEF RefreshStatement, Active, Driving, Quota
    <3>2. CASE \E w \in Streams : StreamQuery(w)
      BY <3>2 DEF StreamQuery, Driving, Quota
    <3> QED
      BY <1>5, <3>1, <3>2
  <2>2. CASE done' = done /\ (at' = at \/ at' = [at EXCEPT ![w] = "error"])
    BY <2>1, <2>2, <1>0, <1>t DEF WorkInv
  <2>3. CASE Finished(w, Quota(w))
    <3>1. /\ done' = [done EXCEPT ![w] = done[w] + 1]
          /\ at' = [at EXCEPT ![w] = IF done[w] + 1 = Quota(w) THEN "done" ELSE "poll"]
      BY <2>3 DEF Finished
    <3>2. done[w] < Quota(w) /\ Quota(w) \in Nat
      BY <2>1 DEF WorkInv, Quota
    <3>3. w # 0 /\ w \in Workers
      OBVIOUS
    <3>4. \A v \in Active \ {w} : done'[v] = done[v] /\ at'[v] = at[v]
      BY <3>1, <1>t
    <3>5. /\ at'[w] = "done" => done'[w] = Quota(w)
          /\ at'[w] \in {"poll", "exec"} => done'[w] < Quota(w)
      BY <3>1, <3>2, <3>3, <1>t
    <3>6. done'[0] = done[0]
      BY <3>1, <3>3, <1>t
    <3> QED
      BY <2>1, <3>4, <3>5, <3>6, <1>0 DEF WorkInv
  <2> QED
    BY <2>1, <2>2, <2>3
<1>6. CASE StreamsJoin
  <2>1. CASE \E w \in Active : Raised(w)
    <3>1. UNCHANGED <<round, acid, phase, done, at>> /\ phase = "streams"
      BY <1>6, <2>1 DEF StreamsJoin, Driving, Abort
    <3> QED
      BY <3>1, <1>0 DEF WorkInv
  <2>2. CASE ~\E w \in Active : Raised(w)
    <3>1. phase = "streams" /\ phase' = (IF HasRefresh THEN "acid" ELSE "dm") /\ Quiet
          /\ UNCHANGED <<at, round, acid, done>>
      BY <1>6, <2>2 DEF StreamsJoin, Driving, Enter
    <3>2. \A w \in Active : at[w] = "done"
      BY <3>1, <2>2 DEF Quiet, Raised
    <3>3. \A w \in Active : done[w] = Quota(w)
      BY <3>1, <3>2 DEF WorkInv
    <3>4. round \in {1, 2} /\ (phase' = "acid" => round = Rounds)
      BY <3>1, <1>0 DEF WorkInv
    <3>5. done[0] = PowerUnits /\ Len(acid) <= 4
      BY <3>1 DEF WorkInv
    <3>6. phase' \in {"acid", "dm"} /\ (phase' = "dm" => ~HasRefresh)
      BY <3>1
    <3> HIDE TpcLocal
    <3>7. /\ (HasRefresh' <=> HasRefresh) /\ Active' = Active /\ PowerUnits' = PowerUnits
             /\ Rounds' = Rounds
      BY TpcLocal
    <3> QED
      BY <3>1, <3>3, <3>4, <3>5, <3>6, <3>7, <1>0 DEF WorkInv
  <2> QED
    BY <2>1, <2>2
<1>7. CASE Maintain
  <2>1. /\ UNCHANGED <<done, at, acid>> /\ phase = "dm"
        /\ \/ phase' = phase /\ UNCHANGED round
           \/ round = Rounds /\ phase' = "acid" /\ round' = round
           \/ round # Rounds /\ phase' = "open" /\ round' = round + 1
    BY <1>7 DEF Maintain, Abort, Enter, Driving
  <2>2. /\ done[0] = PowerUnits /\ Len(acid) <= 4 /\ ~HasRefresh
        /\ \A w \in Active : done[w] = Quota(w)
    BY <2>1 DEF WorkInv
  <2> HIDE TpcLocal
  <2>3. /\ (HasRefresh' <=> HasRefresh) /\ Active' = Active /\ PowerUnits' = PowerUnits
           /\ Rounds' = Rounds
    BY TpcLocal
  <2>4. round' \in {1, 2} /\ (phase' = "acid" => round' = Rounds)
    BY <1>0, <2>1, <2>2
  <2>5. round' <= Rounds
    BY <1>0, <2>2, <2>4
  <2>6. phase' \in {"dm", "acid", "open"}
    BY <2>1
  <2> QED
    BY <2>1, <2>2, <2>3, <2>4, <2>5, <2>6 DEF WorkInv
<1>8. CASE AcidProbe
  <2>1. /\ UNCHANGED <<done, at, phase, round>> /\ phase = "acid" /\ Len(acid) < 4
           /\ \E v \in {"n/a", "pass", "fail"} : acid' = Append(acid, v)
    BY <1>8 DEF AcidProbe, Driving
  <2>2. Len(acid') <= 4
    BY <2>1 DEF TpcType
  <2> QED
    BY <2>1, <2>2, <1>0 DEF WorkInv
<1>9. CASE SealOfficial
  <2>1. UNCHANGED <<done, at, acid, round>> /\ phase = "acid" /\ phase' = "seal" /\ Len(acid) = 4
        /\ stage' = "teardown"
    BY <1>9 DEF SealOfficial, Driving, Return
  <2> QED
    BY <2>1, <1>0 DEF WorkInv
<1> QED
  BY <1>1, <1>2, <1>3, <1>4, <1>5, <1>6, <1>7, <1>8, <1>9 DEF Tpc, TpcStep

\* The refresh statements the two tables have seen.
LEMMA TpcRefresh ==
    ASSUME SuiteInv, Tpc
    PROVE  RefreshInv'
<1>l. /\ TpcType /\ ConnsInv /\ WorkInv /\ RefreshInv
      /\ (HasRefresh' <=> HasRefresh) /\ Active' = Active /\ PowerUnits' = PowerUnits
      /\ NUnits \in Nat \ {0} /\ NStreams \in Nat \ {0}
      /\ (HasRefresh => PowerUnits = NUnits + 2 /\ Refresh \in Active)
      /\ Refresh \in Workers /\ Refresh # 0 /\ 0 \in Workers /\ Refresh \notin Streams
  BY TpcLocal, StreamWorkers, UnitsAssumption DEF Active, Refresh
<1>t. /\ done \in [Workers -> Nat]
         /\ at \in [Workers -> {"poll", "exec", "done", "cancelled", "error"}]
      /\ db.lines \in Nat /\ db.orders \in Nat
  BY <1>l DEF TpcType
<1>0. CASE ~HasRefresh
  <2>1. db' = db
    BY <1>0, <1>l DEF Tpc, TpcStep, CheckAndConnect, PowerUnit, PowerEnds, OpenStreams,
       RefreshStatement, StreamsJoin, StreamQuery, StreamPolls, Maintain, AcidProbe, SealOfficial,
       IsRefresh
  <2> QED
    BY <1>0, <1>l, <2>1 DEF RefreshInv
<1>1. CASE HasRefresh /\ (CheckAndConnect \/ PowerEnds \/ (OpenStreams /\ phase' # "streams"))
  <2>1. /\ UNCHANGED <<done, db>> /\ phase \in {"check", "power", "open"}
        /\ phase' = phase \/ (phase = "check" /\ phase' = "power")
           \/ (phase = "power" /\ phase' = "open" /\ done[0] = PowerUnits)
    BY <1>1 DEF CheckAndConnect, PowerEnds, OpenStreams, PollInto, Abort, Enter, Driving
  <2>2. phase = "check" => done[0] = 0
    BY <1>l DEF WorkInv
  <2> QED
    BY <1>1, <2>1, <2>2, <1>l DEF RefreshInv
<1>2. CASE HasRefresh /\ PowerUnit
  <2> DEFINE k == done[0] + 1
  <2>1. /\ phase' = phase /\ phase = "power" /\ k <= PowerUnits
        /\ \/ UNCHANGED <<done, db>>
           \/ /\ done' = [done EXCEPT ![0] = k]
              /\ db' = IF IsRefresh(k) THEN [lines |-> db.lines + 1, orders |-> db.orders + 1]
                 ELSE db
    BY <1>2 DEF PowerUnit, Abort, Stay, Driving
  <2>2. /\ db.lines = db.orders
        /\ (db.orders = (IF done[0] = 0 THEN 0 ELSE IF done[0] < PowerUnits THEN 1 ELSE 2))
    BY <1>2, <2>1, <1>l DEF RefreshInv
  <2>3. IsRefresh(k) <=> k \in {1, PowerUnits}
    BY <1>2 DEF IsRefresh
  <2>4. CASE UNCHANGED <<done, db>>
    BY <1>2, <2>1, <2>2, <2>4, <1>l DEF RefreshInv
  <2>5. CASE /\ done' = [done EXCEPT ![0] = k]
             /\ db' = IF IsRefresh(k) THEN [lines |-> db.lines + 1, orders |-> db.orders + 1]
                ELSE db
    <3>1. done'[0] = k /\ done[0] \in Nat /\ PowerUnits = NUnits + 2
      BY <2>5, <1>t, <1>2, <1>l
    <3>2. db'.lines = db'.orders
          /\ (db'.orders = (IF k \in {1, PowerUnits} THEN db.orders + 1 ELSE db.orders))
      BY <2>5, <2>2, <2>3
    <3>3. db'.orders = (IF k < PowerUnits THEN 1 ELSE 2)
      BY <3>1, <3>2, <2>1, <2>2, <1>l, <1>t
    <3> QED
      BY <1>2, <2>1, <3>1, <3>2, <3>3, <1>l DEF RefreshInv
  <2> QED
    BY <2>1, <2>4, <2>5
<1>3. CASE HasRefresh /\ OpenStreams /\ phase' = "streams"
  <2>1. /\ db' = db /\ phase = "open" /\ phase' = "streams"
        /\ done' = [w \in Workers |-> IF w = 0 THEN done[0] ELSE 0]
        /\ at' = [w \in Workers |-> IF w \in Active THEN "poll" ELSE "done"]
    BY <1>3 DEF OpenStreams, Abort, Enter, Driving
  <2>2. done'[Refresh] = 0 /\ at'[Refresh] = "poll" /\ db.lines = 2 /\ db.orders = 2
    BY <2>1, <1>3, <1>l DEF RefreshInv
  <2> QED
    BY <2>1, <2>2, <1>l DEF RefreshInv
<1>4. CASE HasRefresh /\ \E w \in Active : StreamPolls(w)
  <2>1. PICK w \in Active : StreamPolls(w)
    BY <1>4
  <2>2. /\ UNCHANGED <<phase, done, db>> /\ phase = "streams" /\ at[w] = "poll"
        /\ \/ at' = [at EXCEPT ![w] = "cancelled"] \/ at' = [at EXCEPT ![w] = "exec"]
    BY <2>1 DEF StreamPolls, Driving
  <2>3. at'[Refresh] = at[Refresh]
        \/ (at[Refresh] = "poll" /\ at'[Refresh] \in {"cancelled", "exec"})
    BY <2>2, <1>t, <1>l
  <2> QED
    BY <1>4, <2>2, <2>3, <1>l DEF RefreshInv
<1>5. CASE HasRefresh /\ RefreshStatement
  <2> DEFINE even == 2 + 2 * done[Refresh]
  <2>1. phase = "streams" /\ phase' = phase /\ at[Refresh] = "exec"
    BY <1>5 DEF RefreshStatement, Driving
  <2>2. db.orders \in {even, even + 1} /\ db.lines \in {db.orders, db.orders + 1}
        /\ done[Refresh] \in Nat
    BY <1>5, <2>1, <1>l, <1>t DEF RefreshInv
  <2>3. CASE at' = [at EXCEPT ![Refresh] = "error"] /\ UNCHANGED <<db, done>>
    <3>1. at'[Refresh] = "error"
      BY <2>3, <1>t, <1>l
    <3> QED
      BY <2>1, <2>3, <3>1, <1>5, <1>l DEF RefreshInv
  <2>4. CASE db.lines = db.orders /\ db' = [db EXCEPT !.lines = db.lines + 1]
             /\ UNCHANGED <<done, at>>
    <3>1. db'.lines = db.lines + 1 /\ db'.orders = db.orders
      BY <2>4, <1>l DEF TpcType
    <3> QED
      BY <2>1, <2>2, <2>4, <3>1, <1>5, <1>l DEF RefreshInv
  <2>5. CASE /\ db.lines > db.orders /\ db' = [db EXCEPT !.orders = db.orders + 1]
             /\ IF db.orders % 2 = 0 THEN UNCHANGED <<done, at>> ELSE Finished(Refresh, NStreams)
    <3>1. db'.orders = db.orders + 1 /\ db'.lines = db.lines /\ db.lines = db.orders + 1
      BY <2>2, <2>5, <1>l, <1>t DEF TpcType
    <3>2. CASE db.orders = even
      <4>1. db.orders % 2 = 0
        BY <2>2, <3>2
      <4>2. UNCHANGED <<done, at>>
        BY <2>5, <4>1
      <4> QED
        BY <2>1, <2>2, <3>1, <3>2, <4>2, <1>5, <1>l DEF RefreshInv
    <3>3. CASE db.orders = even + 1
      <4>1. db.orders % 2 # 0
        BY <2>2, <3>3
      <4>2. done'[Refresh] = done[Refresh] + 1 /\ at'[Refresh] \in {"done", "poll"}
        BY <2>5, <4>1, <1>t, <1>l DEF Finished
      <4>3. db'.orders = 2 + 2 * done'[Refresh] /\ db'.lines = db'.orders
        BY <3>1, <3>3, <4>2, <2>2
      <4> QED
        BY <2>1, <4>2, <4>3, <1>5, <1>l DEF RefreshInv
    <3> QED
      BY <2>2, <3>2, <3>3
  <2> QED
    BY <1>5, <2>3, <2>4, <2>5 DEF RefreshStatement
<1>6. CASE HasRefresh /\ \E w \in Streams : StreamQuery(w)
  <2>1. PICK w \in Streams : StreamQuery(w)
    BY <1>6
  <2>2. /\ UNCHANGED <<phase, db>> /\ phase = "streams"
        /\ done' = done \/ done' = [done EXCEPT ![w] = done[w] + 1]
        /\ \E v : at' = [at EXCEPT ![w] = v]
    BY <2>1 DEF StreamQuery, Driving, Finished
  <2>3. at'[Refresh] = at[Refresh] /\ done'[Refresh] = done[Refresh]
    BY <2>2, <1>t, <1>l
  <2> QED
    BY <1>6, <2>2, <2>3, <1>l DEF RefreshInv
<1>7. CASE HasRefresh /\ (StreamsJoin \/ AcidProbe \/ SealOfficial)
  <2>1. /\ UNCHANGED <<db, done, at>>
        /\ \/ phase = "acid" /\ phase' \in {"acid", "seal"}
           \/ phase = "streams" /\ phase' = phase
           \/ phase = "streams" /\ phase' = "acid" /\ Quiet /\ ~\E w \in Active : Raised(w)
    BY <1>7 DEF StreamsJoin, AcidProbe, SealOfficial, Abort, Enter, Driving
  <2>2. CASE phase = "streams" /\ phase' = "acid"
    <3>1. at[Refresh] = "done"
      BY <1>7, <2>1, <2>2, <1>l DEF Quiet, Raised
    <3>2. done[Refresh] = NStreams
      BY <1>7, <2>2, <3>1, <1>l DEF WorkInv, Quota
    <3>3. db.lines = 2 + 2 * NStreams /\ db.orders = 2 + 2 * NStreams
      BY <1>7, <2>2, <3>1, <3>2, <1>l DEF RefreshInv
    <3>4. db'.lines = 2 * (NStreams + 1) /\ db'.orders = 2 * (NStreams + 1)
      BY <2>1, <3>3, <1>l
    <3> QED
      BY <2>2, <3>4, <1>7, <1>l DEF RefreshInv
  <2> QED
    BY <1>7, <2>1, <2>2, <1>l DEF RefreshInv
<1>8. CASE HasRefresh /\ Maintain
  <2>1. phase = "dm"
    BY <1>8 DEF Maintain, Driving
  <2> QED
    BY <1>8, <2>1, <1>l DEF WorkInv
<1> QED
  BY <1>0, <1>1, <1>2, <1>3, <1>4, <1>5, <1>6, <1>7, <1>8 DEF Tpc, TpcStep

\* The disrupted run's thread, its timer and its relays, while another suite moves.
LEMMA RelaySame ==
    ASSUME SuiteInv, Solo \/ Tpc \/ (RequestCancel /\ UNCHANGED <<tpcVars, disVars, After>>)
    PROVE  RelayInv' /\ StatsInv'
<1>1. UNCHANGED disVars /\ suite' = suite
  BY SoloFrame, TpcFrame, CancelFrame
<1>2. UNCHANGED <<plan, step, timer, link, tracked, cutting, doomed, closing, stats, snap,
                  gaveUp>>
      /\ Proxied' = Proxied
  BY <1>1 DEF disVars, Proxied
<1>3. /\ stage' \in {"mock", "prepare"} => stage \in {"mock", "prepare"}
      /\ stage = "run" /\ stage' # "run" => suite # "ycsb"
  <2>1. CASE Solo
    BY <2>1 DEF Solo, SuiteStep, MockArtifacts, Prepare, PrepareFails, Teardown, StageCopy,
        CopyFails, Validate, Connect, Drop, Query, WriteQueries, WriteRows, WriteConfig,
        BenchBase, Refuses, Solve, Harness, ExecuteCandidate, ChatAnswers, ChatRetries,
        ChatFails, Chatting, Running, Raise, Return, Poll, Over, ChatSuites
  <2>2. CASE Tpc
    BY <2>2, TpcFrame DEF Raise, Return, Official
  <2>3. CASE RequestCancel /\ UNCHANGED <<tpcVars, disVars, After>>
    BY <2>3, CancelFrame
  <2> QED
    BY <2>1, <2>2, <2>3
<1>4. RelayInv'
  BY <1>1, <1>2, <1>3 DEF SuiteInv, RelayInv
<1>5. StatsInv'
  BY <1>2 DEF SuiteInv, StatsInv
<1> QED
  BY <1>4, <1>5

\* And while its own thread moves.
LEMMA RelayDis ==
    ASSUME DisType, RelayInv, Dis
    PROVE  RelayInv'
<1>0. stage = "run" /\ suite = "ycsb" /\ UNCHANGED <<suite, plan>> /\ (Proxied' <=> Proxied)
      /\ stage' \notin {"mock", "prepare"}
      /\ plan \in Plans /\ (Proxied => plan # "misfit")
  <2>1. stage' \in {"run", "teardown"}
    BY DisFrame DEF Dis, DisStep, LoadPhase, ArmAndRun, ToolExits, CancelTimer, JoinAndSnapshot,
       RaiseClosing, TakeAll, ProxyStopped, SealYcsb, Raise, Return, Benching, Running
  <2> QED
    BY <2>1, DisFrame DEF Proxied, DisType
<1>1. CASE LoadPhase \/ ArmAndRun
  <2>1. /\ step \in {"load", "gate"} /\ UNCHANGED <<link, tracked, cutting, doomed, closing,
                                                    gaveUp>>
        /\ \/ step' = step /\ timer' = timer
           \/ step = "load" /\ step' = "gate" /\ timer' = timer
           \/ step = "gate" /\ stage' = stage /\ step' = "tool" /\ plan # "misfit"
              /\ timer' = (IF Proxied THEN "armed" ELSE "none")
    BY <1>1 DEF LoadPhase, ArmAndRun, Benching, Relays
  <2>2. timer = "none" /\ tracked = {} /\ cutting = {} /\ doomed = {} /\ ~closing
        /\ \A c \in Conns : link[c] = "none"
    BY <2>1 DEF RelayInv
  <2> QED
    BY <1>0, <2>1, <2>2 DEF RelayInv
<1>2. CASE ToolExits \/ CancelTimer
  <2>1. /\ UNCHANGED <<stage, link, tracked, cutting, doomed, closing, gaveUp>>
        /\ \/ step = "tool" /\ step' = (IF Proxied THEN "quiesce" ELSE "stopped") /\ timer' = timer
           \/ step = "quiesce" /\ step' = "join"
              /\ timer' = (IF timer = "armed" THEN "cancelled" ELSE timer)
    BY <1>2 DEF ToolExits, CancelTimer, Benching, Relays
  <2> QED
    BY <1>0, <2>1 DEF RelayInv
<1>3. CASE JoinAndSnapshot \/ RaiseClosing \/ ProxyStopped
  <2>1. /\ UNCHANGED <<stage, timer, link, tracked, cutting, doomed>>
        /\ \/ step = "join" /\ step' = "stop" /\ UNCHANGED closing
              /\ (timer \in {"fired", "cancelled"} \/ (timer \in {"firing", "closing"} /\ gaveUp'))
           \/ step = "stop" /\ step' = step /\ UNCHANGED gaveUp
           \/ step = "close" /\ step' = "stopped" /\ doomed = {} /\ UNCHANGED <<closing, gaveUp>>
    BY <1>3 DEF JoinAndSnapshot, RaiseClosing, ProxyStopped, Benching, Relays
  <2> QED
    BY <1>0, <2>1 DEF RelayInv
<1>4. CASE TakeAll
  <2>1. step = "stop" /\ closing /\ doomed' = tracked /\ tracked' = {} /\ step' = "close"
        /\ UNCHANGED <<stage, link, timer, cutting, closing, gaveUp>>
    BY <1>4 DEF TakeAll, Benching
  <2>2. Proxied /\ doomed = {}
    BY <2>1 DEF RelayInv
  <2> QED
    BY <1>0, <2>1, <2>2 DEF RelayInv
<1>5. CASE SealYcsb
  <2>1. step = "stopped" /\ UNCHANGED <<step, timer, link, tracked, cutting, doomed, closing,
                                        gaveUp>>
    BY <1>5 DEF SealYcsb, Benching, Relays
  <2> QED
    BY <1>0, <2>1 DEF RelayInv
<1> QED
  BY <1>1, <1>2, <1>3, <1>4, <1>5 DEF Dis, DisStep

\* And while the timer and the relay threads move.
LEMMA RelayProxy ==
    ASSUME DisType, RelayInv, Proxy
    PROVE  RelayInv'
<1>0. /\ UNCHANGED <<suite, stage, plan, step, closing, gaveUp>> /\ (Proxied' <=> Proxied)
      /\ link \in [Conns -> {"none", "handshake", "up", "down", "gone"}] /\ tracked \subseteq Conns
      /\ step \in {"load", "gate", "tool", "quiesce", "join", "stop", "close", "stopped"}
  BY ProxyFrame DEF runnerVars, Proxied, DisType
<1>1. CASE TimerFires
  <2>1. timer = "armed" /\ timer' = "firing" /\ UNCHANGED <<link, tracked, cutting, doomed>>
    BY <1>1 DEF TimerFires
  <2>2. Proxied /\ step \in {"tool", "quiesce"}
    BY <1>0, <2>1 DEF RelayInv
  <2> QED
    BY <1>0, <2>1, <2>2 DEF RelayInv
<1>2. CASE ResetAll
  <2>1. timer = "firing" /\ timer' = "closing" /\ cutting' = tracked /\ tracked' = {}
        /\ UNCHANGED <<link, doomed>>
    BY <1>2 DEF ResetAll
  <2>2. Proxied /\ step \notin {"load", "gate"} /\ cutting = {}
    BY <1>0, <2>1 DEF RelayInv
  <2> QED
    BY <1>0, <2>1, <2>2 DEF RelayInv
<1>3. CASE Stall \/ ResetDone
  <2>1. timer \in {"firing", "closing"} /\ timer' = "fired" /\ (timer = "closing" => cutting = {})
        /\ UNCHANGED <<link, tracked, cutting, doomed>>
    BY <1>3 DEF Stall, ResetDone
  <2>2. Proxied /\ step \notin {"load", "gate"} /\ cutting = {}
    BY <1>0, <2>1 DEF RelayInv
  <2> QED
    BY <1>0, <2>1, <2>2 DEF RelayInv
<1>4. CASE \E c \in Conns : ClosePair(c)
  <2>1. PICK c \in Conns :
               /\ UNCHANGED <<timer, tracked>>
               /\ \/ c \in cutting /\ cutting' = cutting \ {c} /\ UNCHANGED doomed
                  \/ c \in doomed /\ doomed' = doomed \ {c} /\ UNCHANGED cutting
               /\ link' = [link EXCEPT ![c] = IF link[c] = "up" THEN "down" ELSE link[c]]
    BY <1>4 DEF ClosePair
  <2>2. timer = "closing" \/ step = "close"
    BY <2>1 DEF RelayInv
  <2>3. Proxied /\ step \notin {"load", "gate"}
    BY <1>0, <2>2 DEF RelayInv
  <2>4. \A d \in Conns : link'[d] = (IF d = c /\ link[d] = "up" THEN "down" ELSE link[d])
    BY <1>0, <2>1
  <2>5. \A d \in Conns : /\ link'[d] = "up" => d \in tracked' \cup cutting' \cup doomed'
                         /\ d \in tracked' => link'[d] \in {"up", "down"}
    BY <2>1, <2>4 DEF RelayInv
  <2> QED
    BY <1>0, <2>1, <2>2, <2>3, <2>5 DEF RelayInv
<1>5. CASE \E c \in Conns : Accept(c)
  <2>1. PICK c \in Conns : step = "tool" /\ Proxied /\ link[c] = "none"
        /\ link' = [link EXCEPT ![c] = "handshake"]
                /\ UNCHANGED <<timer, tracked, cutting, doomed>>
    BY <1>5 DEF Accept, Benching
  <2>2. \A d \in Conns : /\ link'[d] = "up" => d \in tracked' \cup cutting' \cup doomed'
                         /\ d \in tracked' => link'[d] \in {"up", "down"}
    BY <1>0, <2>1 DEF RelayInv
  <2> QED
    BY <1>0, <2>1, <2>2 DEF RelayInv
<1>6. CASE \E c \in Conns : Handshake(c)
  <2>1. PICK c \in Conns : /\ link[c] = "handshake" /\ UNCHANGED <<timer, cutting, doomed>>
                           /\ \/ link' = [link EXCEPT ![c] = "gone"] /\ UNCHANGED tracked
                              \/ ~closing /\ link' = [link EXCEPT ![c] = "up"]
                                 /\ tracked' = tracked \cup {c}
    BY <1>6 DEF Handshake
  <2>2. Proxied /\ step \notin {"load", "gate"}
    BY <2>1 DEF RelayInv
  <2>3. \A d \in Conns : /\ link'[d] = "up" => d \in tracked' \cup cutting' \cup doomed'
                         /\ d \in tracked' => link'[d] \in {"up", "down"}
    BY <1>0, <2>1 DEF RelayInv
  <2>4. tracked' = tracked \/ ~closing
    BY <2>1
  <2> QED
    BY <1>0, <2>1, <2>2, <2>3, <2>4 DEF RelayInv
<1>7. CASE \E c \in Conns : HangUp(c) \/ Discard(c)
  <2>1. PICK c \in Conns : /\ UNCHANGED <<timer, cutting, doomed>>
                           /\ \/ link[c] = "up" /\ link' = [link EXCEPT ![c] = "down"]
                                 /\ UNCHANGED tracked
                              \/ link[c] = "down" /\ link' = [link EXCEPT ![c] = "gone"]
                                 /\ tracked' = tracked \ {c}
    BY <1>7 DEF HangUp, Discard
  <2>2. Proxied /\ step \notin {"load", "gate"}
    BY <2>1 DEF RelayInv
  <2>3. \A d \in Conns : /\ link'[d] = "up" => d \in tracked' \cup cutting' \cup doomed'
                         /\ d \in tracked' => link'[d] \in {"up", "down"}
    BY <1>0, <2>1 DEF RelayInv
  <2>4. tracked' \subseteq tracked
    BY <2>1
  <2> QED
    BY <1>0, <2>1, <2>2, <2>3, <2>4 DEF RelayInv
<1> QED
  BY <1>1, <1>2, <1>3, <1>4, <1>5, <1>6, <1>7 DEF Proxy, ProxyStep

\* What the proxy counts.
LEMMA StatsDis ==
    ASSUME DisType, RelayInv, StatsInv, Dis
    PROVE  StatsInv'
<1>0. /\ UNCHANGED <<plan, stats>> /\ (Proxied' <=> Proxied)
      /\ stats.reset \in Nat /\ stats.total \in Nat /\ IsFiniteSet(tracked)
         /\ Cardinality(tracked) \in Nat
  <2>1. UNCHANGED <<plan, stats>>
    BY DEF Dis, DisStep, LoadPhase, ArmAndRun, ToolExits, CancelTimer, JoinAndSnapshot,
       RaiseClosing, TakeAll, ProxyStopped, SealYcsb, Rest, Relays
  <2>2. stats.reset \in Nat /\ stats.total \in Nat
    BY DEF DisType, Counters
  <2>3. IsFiniteSet(tracked) /\ Cardinality(tracked) \in Nat
    BY FS_CardinalityType DEF StatsInv
  <2> QED
    BY <2>1, <2>2, <2>3 DEF Proxied
<1>1. timer' \in {"closing", "fired"} <=> timer \in {"closing", "fired"}
  <2>1. \/ timer' = timer
        \/ step = "gate" /\ timer' = (IF Proxied THEN "armed" ELSE "none")
        \/ timer' = (IF timer = "armed" THEN "cancelled" ELSE timer)
    BY DEF Dis, DisStep, LoadPhase, ArmAndRun, ToolExits, CancelTimer, JoinAndSnapshot,
       RaiseClosing, TakeAll, ProxyStopped, SealYcsb, Benching
  <2> QED
    BY <2>1 DEF RelayInv
<1>2. IsFiniteSet(tracked') /\ Cardinality(tracked') \in Nat
      /\ Cardinality(tracked') <= Cardinality(tracked)
  <2>1. tracked' = tracked \/ tracked' = {}
    BY DEF Dis, DisStep, LoadPhase, ArmAndRun, ToolExits, CancelTimer, JoinAndSnapshot,
       RaiseClosing, TakeAll, ProxyStopped, SealYcsb, Relays
  <2> QED
    BY <1>0, <2>1, FS_EmptySet
<1>3. Proxied /\ step' \in {"stop", "close", "stopped"} => snap' = stats
      \/ (step \in {"stop", "close", "stopped"} /\ UNCHANGED <<snap, gaveUp>>)
  BY DEF Dis, DisStep, LoadPhase, ArmAndRun, ToolExits, CancelTimer, JoinAndSnapshot,
     RaiseClosing, TakeAll, ProxyStopped, SealYcsb, Benching
<1> QED
  BY <1>0, <1>1, <1>2, <1>3 DEF StatsInv

\* A pair is counted as reset at most once: it leaves the tracked set when it is.
LEMMA StatsProxy ==
    ASSUME DisType, RelayInv, StatsInv, Proxy
    PROVE  StatsInv'
<1>0. /\ UNCHANGED <<plan, step, snap, gaveUp>> /\ (Proxied' <=> Proxied)
      /\ stats \in Counters
      /\ IsFiniteSet(tracked) /\ Cardinality(tracked) \in Nat
  BY ProxyFrame, FS_CardinalityType DEF Proxied, DisType, StatsInv
<1>1. CASE TimerFires \/ ResetDone \/ \E c \in Conns : ClosePair(c) \/ Accept(c) \/ HangUp(c)
  <2>1. UNCHANGED <<stats, tracked>>
        /\ (timer' \in {"closing", "fired"} <=> timer \in {"closing", "fired"})
    BY <1>1 DEF TimerFires, ResetDone, ClosePair, Accept, HangUp
  <2> QED
    BY <1>0, <2>1 DEF StatsInv
<1>2. CASE ResetAll
  <2>1. /\ timer = "firing" /\ timer' = "closing" /\ tracked' = {}
        /\ stats' = [stats EXCEPT !.reset = stats.reset + Cardinality(tracked), !.at = stats.at + 1]
    BY <1>2 DEF ResetAll
  <2>2. stats'.reset = stats.reset + Cardinality(tracked) /\ stats'.at = stats.at + 1
        /\ stats'.total = stats.total
    BY <1>0, <2>1 DEF Counters
  <2>3. Proxied /\ step \in {"stop", "close", "stopped"} => gaveUp /\ snap.at = 0
    BY <2>1 DEF RelayInv, StatsInv
  <2>4. IsFiniteSet(tracked') /\ Cardinality(tracked') = 0
    BY <2>1, FS_EmptySet
  <2>5. stats.reset \in Nat /\ stats.total \in Nat
        /\ stats.reset + Cardinality(tracked) <= stats.total /\ stats.at = 0
    BY <1>0, <2>1 DEF Counters, StatsInv
  <2> QED
    BY <1>0, <2>1, <2>2, <2>3, <2>4, <2>5 DEF StatsInv
<1>3. CASE Stall
  <2>1. timer = "firing" /\ timer' = "fired" /\ tracked' = tracked
        /\ stats' = [stats EXCEPT !.windows = stats.windows + 1, !.at = stats.at + 1]
    BY <1>3 DEF Stall
  <2>2. stats'.reset = stats.reset /\ stats'.at = stats.at + 1 /\ stats'.total = stats.total
    BY <1>0, <2>1 DEF Counters
  <2>3. Proxied /\ step \in {"stop", "close", "stopped"} => gaveUp /\ snap.at = 0
    BY <2>1 DEF RelayInv, StatsInv
  <2>4. stats.reset + Cardinality(tracked) <= stats.total /\ stats.at = 0
    BY <1>0, <2>1 DEF Counters, StatsInv
  <2> QED
    BY <1>0, <2>1, <2>2, <2>3, <2>4 DEF StatsInv
<1>4. CASE \E c \in Conns : Handshake(c)
  <2>1. PICK c \in Conns : /\ timer' = timer
                           /\ \/ UNCHANGED <<tracked, stats>>
                              \/ tracked' = tracked \cup {c}
                                 /\ stats' = [stats EXCEPT !.total = stats.total + 1]
    BY <1>4 DEF Handshake
  <2>2. CASE tracked' = tracked \cup {c} /\ stats' = [stats EXCEPT !.total = stats.total + 1]
    <3>1. /\ stats'.reset = stats.reset /\ stats'.at = stats.at /\ stats'.windows = stats.windows
          /\ stats'.total = stats.total + 1 /\ stats.total \in Nat /\ stats.reset \in Nat
      BY <1>0, <2>2 DEF Counters
    <3>2. IsFiniteSet(tracked')
          /\ Cardinality(tracked') \in {Cardinality(tracked), Cardinality(tracked) + 1}
      BY <1>0, <2>2, FS_AddElement
    <3> QED
      BY <1>0, <2>1, <3>1, <3>2 DEF StatsInv
  <2>3. CASE UNCHANGED <<tracked, stats>>
    BY <1>0, <2>1, <2>3 DEF StatsInv
  <2> QED
    BY <2>1, <2>2, <2>3
<1>5. CASE \E c \in Conns : Discard(c)
  <2>1. PICK c \in Conns : UNCHANGED <<timer, stats>> /\ tracked' = tracked \ {c}
    BY <1>5 DEF Discard
  <2>2. IsFiniteSet(tracked') /\ Cardinality(tracked') \in Nat
        /\ Cardinality(tracked') <= Cardinality(tracked)
    BY <1>0, <2>1, FS_Subset, FS_CardinalityType
  <2>3. stats.total \in Nat /\ stats.reset \in Nat
    BY <1>0 DEF Counters
  <2> QED
    BY <1>0, <2>1, <2>2, <2>3 DEF StatsInv
<1> QED
  BY <1>1, <1>2, <1>3, <1>4, <1>5 DEF Proxy, ProxyStep

\* The sequential loops never overrun.
LEMMA LoopMoves ==
    ASSUME SuiteInv, Solo \/ Tpc \/ Dis \/ Proxy
           \/ (RequestCancel /\ UNCHANGED <<tpcVars, disVars, After>>)
    PROVE  LoopInv'
<1>0. LoopInv /\ pos \in Nat /\ (stage \in {"mock", "prepare"} => pos = 0) /\ NUnits \in Nat \ {0}
  BY UnitsAssumption DEF SuiteInv, RunnerType, LoopType, RequestInv
<1>1. CASE Solo
  <2>1. suite' = suite
    BY <1>1, SoloFrame
  <2>2. CASE MockArtifacts \/ Prepare \/ PrepareFails \/ Teardown \/ StageCopy \/ CopyFails
             \/ Validate
    <3>1. pos' = pos /\ (stage' = "run" => stage = "prepare")
      BY <2>2 DEF MockArtifacts, Prepare, PrepareFails, Teardown, StageCopy, CopyFails, Validate,
         Over, loopVars
    <3> QED
      BY <1>0, <2>1, <3>1 DEF LoopInv
  <2>3. CASE ~(MockArtifacts \/ Prepare \/ PrepareFails \/ Teardown \/ StageCopy \/ CopyFails
                \/ Validate)
    <3>1. /\ stage = "run"
          /\ \/ pos' = pos
             \/ pos' = pos + 1 /\ pos < NUnits
             \/ pos' = pos + 1 /\ suite = "code" /\ pos < 2 * NUnits
             \/ suite = "tpcc"
             \/ suite = "swe" /\ stage' = "teardown"
      BY <1>1, <2>3 DEF Solo, SuiteStep, Connect, Drop, Query, WriteQueries, WriteRows,
          WriteConfig, BenchBase, Refuses, Solve, Harness, ExecuteCandidate, ChatAnswers,
          ChatRetries, ChatFails, Chatting, Running, Raise, Return, loopVars
    <3> QED
      BY <1>0, <2>1, <3>1 DEF LoopInv
  <2> QED
    BY <2>2, <2>3
<1>2. CASE Tpc \/ Dis \/ Proxy \/ (RequestCancel /\ UNCHANGED <<tpcVars, disVars, After>>)
  <2>1. UNCHANGED <<suite, pos>> /\ (stage' = "run" => stage = "run" \/ stage = stage')
    BY <1>2, TpcFrame, DisFrame, ProxyFrame, CancelFrame DEF loopVars, runnerVars
  <2> QED
    BY <1>0, <2>1 DEF LoopInv
<1> QED
  BY <1>1, <1>2

\* A chat suite's requests and spans stay as they are outside its own three steps.
LEMMA ChatSame ==
    ASSUME SuiteInv, UNCHANGED <<suite, requests, spans, retried, tries, attempt>>, K' = K,
           pos' = pos \/ (suite = "code" /\ pos >= NUnits /\ pos' = pos + 1)
           \/ suite \notin ChatSuites,
           pending' = "" => pending = "",
           stage' \in {"mock", "prepare"} => stage' = stage /\ pos' = pos
    PROVE  RequestInv' /\ SpanInv'
<1>1. RequestInv /\ SpanInv /\ pos \in Nat /\ NUnits \in Nat \ {0}
  BY UnitsAssumption DEF SuiteInv, RunnerType, LoopType
<1>2. Enabled' = Enabled /\ IdsSent' = IdsSent
  BY DEF Enabled, IdsSent
<1>3. RequestInv'
  BY <1>1, <1>2 DEF RequestInv
<1>4. SpanInv'
  BY <1>1, <1>2 DEF SpanInv
<1> QED
  BY <1>3, <1>4

\* Outside the chat suites there are no requests and no spans.
LEMMA ChatRest ==
    ASSUME SuiteInv, Solo \/ Tpc \/ Dis \/ Proxy
           \/ (RequestCancel /\ UNCHANGED <<tpcVars, disVars, After>>),
           ~ChatAnswers, ~ChatRetries, ~ChatFails
    PROVE  RequestInv' /\ SpanInv'
<1>0. StageInv /\ pos \in Nat /\ NUnits \in Nat \ {0}
  BY UnitsAssumption DEF SuiteInv, RunnerType, LoopType
<1>1. CASE Tpc \/ Dis \/ Proxy \/ (RequestCancel /\ UNCHANGED <<tpcVars, disVars, After>>)
  <2>1. UNCHANGED <<suite, loopVars>> /\ (stage' \in {"mock", "prepare"} => stage' = stage)
        /\ (pending' = "" => pending = "")
    <3>1. CASE Tpc \/ Dis
      <4>1. stage = "run" /\ UNCHANGED <<suite, loopVars>>
        BY <3>1, TpcFrame, DisFrame
      <4>2. stage' \in {"run", "teardown"}
        <5>1. CASE Tpc
          BY <4>1, <5>1, TpcFrame DEF Raise, Return
        <5>2. CASE Dis
          BY <4>1, <5>2 DEF Dis, DisStep, LoadPhase, ArmAndRun, ToolExits, CancelTimer,
             JoinAndSnapshot, RaiseClosing, TakeAll, ProxyStopped, SealYcsb, Raise, Return
        <5> QED
          BY <3>1, <5>1, <5>2
      <4> QED
        BY <1>0, <4>1, <4>2 DEF StageInv
    <3>2. CASE Proxy \/ (RequestCancel /\ UNCHANGED <<tpcVars, disVars, After>>)
      BY <3>2, ProxyFrame, CancelFrame DEF runnerVars, loopVars
    <3> QED
      BY <1>1, <3>1, <3>2
  <2> QED
    BY <2>1, ChatSame DEF loopVars, K
<1>2. CASE Solo
  <2>1. suite' = suite
    BY <1>2, SoloFrame
  <2>2. CASE MockArtifacts \/ Prepare \/ PrepareFails \/ Teardown \/ StageCopy \/ CopyFails
             \/ Validate
    <3>1. UNCHANGED <<loopVars, pending>> /\ stage' \notin {"mock", "prepare"}
      BY <2>2 DEF MockArtifacts, Prepare, PrepareFails, Teardown, StageCopy, CopyFails, Validate,
         Over
    <3> QED
      BY <2>1, <3>1, ChatSame DEF loopVars, K
  <2>3. CASE Connect \/ Query \/ WriteQueries \/ WriteRows \/ WriteConfig \/ BenchBase
          \/ Refuses \/ Solve \/ Harness
             \/ ExecuteCandidate
    <3>1. /\ stage = "run" /\ stage' \in {"run", "teardown"}
             /\ UNCHANGED <<requests, spans, retried, tries, attempt>>
          /\ pos' = pos \/ (suite = "code" /\ pos >= NUnits /\ pos' = pos + 1)
             \/ suite \notin ChatSuites
      BY <2>3 DEF Connect, Drop, Query, WriteQueries, WriteRows, WriteConfig, BenchBase,
          Refuses, Solve, Harness, ExecuteCandidate, Running, Raise, Return, Poll, loopVars,
          ChatSuites
    <3>2. pending' = "" => pending = ""
      BY <1>0, <3>1 DEF StageInv
    <3>3. CASE suite \in ChatSuites
      <4>1. K' = K
        BY <1>0, <3>1, <3>3 DEF K
      <4> QED
        BY <2>1, <3>1, <3>2, <4>1, ChatSame
    <3>4. CASE suite \notin ChatSuites
      <4>1. RequestInv
        BY DEF SuiteInv
      <4> QED
        BY <2>1, <3>1, <3>4, <4>1 DEF RequestInv, SpanInv
    <3> QED
      BY <3>3, <3>4
  <2> QED
    BY <1>2, <2>2, <2>3 DEF Solo, SuiteStep
<1> QED
  BY <1>1, <1>2

\* Where a chat suite stands when it makes an attempt.
LEMMA ChatLocal ==
    ASSUME SuiteInv, ChatAnswers \/ ChatRetries \/ ChatFails
    PROVE  /\ suite \in ChatSuites /\ suite' = suite /\ tries' = tries /\ stage = "run"
              /\ stage' \in {"run", "teardown"}
           /\ pending = "" /\ pos < NUnits /\ K = pos /\ pos \in Nat /\ attempt \in Nat \ {0}
              /\ retried \in Nat
           /\ NUnits \in Nat \ {0} /\ (Enabled' <=> Enabled) /\ Sent /\ RequestInv /\ SpanInv
           /\ AttemptSpan = <<pos + 1, IF Enabled THEN attempt ELSE 0>>
           /\ requests \in Seq(Nat \X Nat) /\ spans \subseteq SpanRecords
<1>1. /\ suite \in ChatSuites /\ suite' = suite /\ tries' = tries /\ stage = "run" /\ pos < NUnits
         /\ Sent
      /\ stage' \in {"run", "teardown"}
  BY DEF ChatAnswers, ChatRetries, ChatFails, Chatting, Running, Poll, Raise
<1>2. StageInv /\ RequestInv /\ SpanInv /\ LoopType /\ ChatType
  BY DEF SuiteInv, RunnerType
<1>3. pos \in Nat /\ attempt \in Nat \ {0} /\ retried \in Nat /\ NUnits \in Nat \ {0}
  BY <1>2, UnitsAssumption DEF LoopType
<1>4. pending = "" /\ K = pos
  BY <1>1, <1>2, <1>3 DEF StageInv, K
<1>5. AttemptSpan = <<pos + 1, IF Enabled THEN attempt ELSE 0>>
  BY DEF AttemptSpan, CallSpan
<1>6. Enabled' <=> Enabled
  BY <1>1 DEF Enabled
<1> QED
  BY <1>1, <1>2, <1>3, <1>4, <1>5, <1>6 DEF ChatType

\* Nothing is sent twice: an attempt's id is none of those already sent.
LEMMA SentOnce ==
    ASSUME SuiteInv, ChatAnswers \/ ChatRetries \/ ChatFails
    PROVE  /\ requests' = Append(requests, AttemptSpan) /\ requests' \in Seq(Nat \X Nat)
           /\ Len(requests') = Len(requests) + 1 /\ Len(requests) \in Nat
           /\ \A i \in 1 .. Len(requests) : requests'[i] = requests[i] /\ requests[i] # AttemptSpan
           /\ requests'[Len(requests) + 1] = AttemptSpan
           /\ \A i, j \in 1 .. Len(requests') : requests'[i] = requests'[j] => i = j
           /\ IdsSent' = IdsSent \cup {AttemptSpan}
<1>l. /\ AttemptSpan = <<pos + 1, IF Enabled THEN attempt ELSE 0>> /\ pos \in Nat
         /\ attempt \in Nat \ {0}
      /\ Sent /\ requests \in Seq(Nat \X Nat) /\ K = pos /\ pending = "" /\ suite \in ChatSuites
         /\ RequestInv
  BY ChatLocal
<1>z. pos \in Nat /\ attempt \in Nat \ {0} /\ K = pos
  BY ChatLocal
<1>1. AttemptSpan \in Nat \X Nat /\ AttemptSpan[1] = pos + 1
      /\ AttemptSpan[2] = (IF Enabled THEN attempt ELSE 0)
  <2>1. AttemptSpan = <<pos + 1, IF Enabled THEN attempt ELSE 0>>
    BY ChatLocal
  <2> QED
    BY <1>z, <2>1
<1>2. requests' = Append(requests, AttemptSpan)
  BY <1>l DEF Sent
<1>3. /\ requests' \in Seq(Nat \X Nat) /\ Len(requests') = Len(requests) + 1
         /\ Len(requests) \in Nat
      /\ \A i \in 1 .. Len(requests) : requests'[i] = requests[i]
      /\ requests'[Len(requests) + 1] = AttemptSpan
  <2> DEFINE P == Nat \X Nat
  <2>1. AttemptSpan \in P /\ requests \in Seq(P)
    BY <1>1, <1>l
  <2> HIDE DEF P
  <2>2. /\ Append(requests, AttemptSpan) \in Seq(P)
           /\ Len(Append(requests, AttemptSpan)) = Len(requests) + 1 /\ Len(requests) \in Nat
        /\ \A i \in 1 .. Len(requests) : Append(requests, AttemptSpan)[i] = requests[i]
        /\ Append(requests, AttemptSpan)[Len(requests) + 1] = AttemptSpan
    BY <2>1
  <2>3. requests' \in Seq(P)
    BY <2>2, <1>2
  <2> QED
    BY <2>2, <2>3, <1>2 DEF P
<1>4. \A i \in 1 .. Len(requests) : requests[i] # AttemptSpan
  <2> SUFFICES ASSUME NEW i \in 1 .. Len(requests), requests[i] = AttemptSpan PROVE FALSE
    OBVIOUS
  <2>1. requests[i][1] = K + 1 /\ requests[i][2] = (IF Enabled THEN attempt ELSE 0)
    BY <1>1, <1>l
  <2>2. Enabled /\ requests[i][2] < attempt
    BY <2>1, <1>l DEF RequestInv
  <2> QED
    BY <2>1, <2>2, <1>z
<1>5. \A i, j \in 1 .. Len(requests) : requests[i] = requests[j] => i = j
  BY <1>l DEF RequestInv
<1>6. 1 .. Len(requests') = (1 .. Len(requests)) \cup {Len(requests) + 1}
  <2>1. Len(requests) \in Nat /\ Len(requests') = Len(requests) + 1
    BY <1>3
  <2> QED
    BY <2>1
<1>7. \A i, j \in 1 .. Len(requests') : requests'[i] = requests'[j] => i = j
  BY <1>3, <1>4, <1>5, <1>6
<1>8. IdsSent' = IdsSent \cup {AttemptSpan}
  <2>1. IdsSent' = {requests'[i] : i \in 1 .. Len(requests')}
    BY DEF IdsSent
  <2>2. {requests'[i] : i \in 1 .. Len(requests')}
          = {requests'[i] : i \in 1 .. Len(requests)} \cup {requests'[Len(requests) + 1]}
    BY <1>6
  <2>3. {requests'[i] : i \in 1 .. Len(requests)} = {requests[i] : i \in 1 .. Len(requests)}
    BY <1>3
  <2> QED
    BY <2>1, <2>2, <2>3, <1>3 DEF IdsSent
<1> QED
  BY <1>2, <1>3, <1>4, <1>7, <1>8

\* An attempt sends one request: it answers and its item is finished, or it is retried.
LEMMA RequestsChat ==
    ASSUME SuiteInv, ChatAnswers \/ ChatRetries \/ ChatFails
    PROVE  RequestInv'
<1>l. /\ AttemptSpan = <<pos + 1, IF Enabled THEN attempt ELSE 0>> /\ pos \in Nat
         /\ attempt \in Nat \ {0} /\ retried \in Nat
      /\ K = pos /\ pending = "" /\ suite \in ChatSuites /\ suite' = suite /\ RequestInv
         /\ pos < NUnits /\ NUnits \in Nat \ {0}
      /\ (Enabled' <=> Enabled) /\ stage' \notin {"mock", "prepare"} /\ requests \in Seq(Nat \X Nat)
  BY ChatLocal
<1>z. pos \in Nat /\ attempt \in Nat \ {0} /\ retried \in Nat /\ K = pos /\ pos < NUnits
      /\ NUnits \in Nat \ {0}
  BY ChatLocal
<1>s. /\ Len(requests') = Len(requests) + 1 /\ Len(requests) \in Nat
      /\ \A i \in 1 .. Len(requests) : requests'[i] = requests[i]
      /\ requests'[Len(requests) + 1] = AttemptSpan
  BY SentOnce
<1>d. \A i, j \in 1 .. Len(requests') : requests'[i] = requests'[j] => i = j
  BY SentOnce
<1>i. 1 .. Len(requests') = (1 .. Len(requests)) \cup {Len(requests) + 1}
  <2>1. Len(requests) \in Nat /\ Len(requests') = Len(requests) + 1
    BY <1>s
  <2> QED
    BY <2>1
<1>r. /\ \A i \in 1 .. Len(requests) : /\ requests[i][1] \in 1 .. pos + 1
                                       /\ requests[i][2] = 0 <=> ~Enabled
                                       /\ requests[i][1] = pos + 1 => Enabled
                                          /\ requests[i][2] < attempt
      /\ retried = Len(requests) - pos - (attempt - 1)
  BY <1>l DEF RequestInv
<1>a. AttemptSpan[1] = pos + 1 /\ AttemptSpan[2] = (IF Enabled THEN attempt ELSE 0)
  BY <1>l
<1>n. \A i \in 1 .. Len(requests) : requests[i][1] \in Nat /\ requests[i][2] \in Nat
  <2>0. requests \in Seq(Nat \X Nat)
    BY ChatLocal
  <2>1. \A i \in 1 .. Len(requests) : requests[i] \in Nat \X Nat
    BY <2>0
  <2> QED
    BY <2>1
<1>1. CASE pending' # ""
  BY <1>1, <1>d, <1>l DEF RequestInv
<1>2. CASE pending' = "" /\ ChatAnswers
  <2>1. pos' = pos + 1 /\ attempt' = 1 /\ retried' = retried + attempt - 1
    BY <1>2 DEF ChatAnswers
  <2>2. K' = pos + 1
    BY <2>1, <1>z DEF K
  <2>6. \A i \in 1 .. Len(requests') : requests'[i][1] \in 1 .. pos + 1
        /\ (requests'[i][2] = 0 <=> ~Enabled)
    <3> SUFFICES ASSUME NEW i \in 1 .. Len(requests')
                 PROVE  requests'[i][1] \in 1 .. pos + 1 /\ (requests'[i][2] = 0 <=> ~Enabled)
      OBVIOUS
    <3>1. CASE i = Len(requests) + 1
      <4>1. pos \in Nat /\ attempt \in Nat \ {0}
        BY <1>l
      <4> QED
        BY <3>1, <1>s, <1>a, <4>1
    <3>2. CASE i \in 1 .. Len(requests)
      BY <3>2, <1>s, <1>r
    <3> QED
      BY <3>1, <3>2, <1>i
  <2>7. retried' = Len(requests') - K' - (attempt' - 1)
    BY <2>1, <2>2, <1>r, <1>z, <1>s
  <2>8. \A i \in 1 .. Len(requests') : /\ requests'[i][1] \in 1 .. K' + 1
                                       /\ requests'[i][2] = 0 <=> ~Enabled'
                                       /\ requests'[i][1] # K' + 1
    <3>1. pos \in Nat /\ (Enabled' <=> Enabled)
      BY <1>l
    <3> QED
      BY <2>2, <2>6, <3>1
  <2> QED
    BY <2>1, <2>7, <2>8, <1>d, <1>l DEF RequestInv
<1>3. CASE pending' = "" /\ ChatRetries
  <2>1. pos' = pos /\ attempt' = attempt + 1 /\ retried' = retried /\ attempt < tries
    BY <1>3 DEF ChatRetries
  <2>e. Enabled
    <3>1. tries \in Nat \ {0}
      BY DEF SuiteInv, RunnerType, LoopType
    <3> QED
      BY <2>1, <3>1, <1>z DEF Enabled
  <2>2. K' = pos
    BY <2>1, <1>z DEF K
  <2>7. \A i \in 1 .. Len(requests') :
          requests'[i][1] \in 1 .. pos + 1 /\ requests'[i][2] # 0
          /\ (requests'[i][1] = pos + 1 => requests'[i][2] < attempt + 1)
    <3> SUFFICES ASSUME NEW i \in 1 .. Len(requests')
                 PROVE  requests'[i][1] \in 1 .. pos + 1 /\ requests'[i][2] # 0
                        /\ (requests'[i][1] = pos + 1 => requests'[i][2] < attempt + 1)
      OBVIOUS
    <3>0. pos \in Nat /\ attempt \in Nat \ {0}
      BY <1>l
    <3>1. CASE i = Len(requests) + 1
      BY <3>1, <1>s, <1>a, <2>e, <3>0
    <3>2. CASE i \in 1 .. Len(requests)
      BY <3>2, <1>s, <1>r, <1>n, <2>e, <3>0
    <3> QED
      BY <3>1, <3>2, <1>i
  <2>8. retried' = Len(requests') - K' - (attempt' - 1)
    BY <2>1, <2>2, <1>r, <1>z, <1>s
  <2>9. \A i \in 1 .. Len(requests') : /\ requests'[i][1] \in 1 .. K' + 1
                                       /\ requests'[i][2] = 0 <=> ~Enabled'
                                       /\ requests'[i][1] = K' + 1 => Enabled'
                                          /\ requests'[i][2] < attempt'
    <3>1. Enabled' <=> Enabled
      BY <1>l
    <3> QED
      BY <2>1, <2>2, <2>7, <2>e, <3>1
  <2>p. ~(pos' >= NUnits)
    BY <2>1, <1>z
  <2> QED
    BY <2>8, <2>9, <2>p, <1>d, <1>l DEF RequestInv
<1>4. CASE pending' = "" /\ ChatFails
  BY <1>4 DEF ChatFails, Raise
<1> QED
  BY <1>1, <1>2, <1>3, <1>4, ChatLocal

\* The spans of an answered call are its own attempt's and, with retries on, its parent's.
LEMMA SpansAnswered ==
    ASSUME SuiteInv, ChatAnswers
    PROVE  SpanInv'
<1>z. pos \in Nat /\ attempt \in Nat \ {0}
  BY ChatLocal
<1>k. K = pos /\ K' = pos + 1
  <2>1. pos \in Nat /\ attempt \in Nat \ {0} /\ K = pos /\ pos < NUnits /\ NUnits \in Nat
    BY ChatLocal
  <2>2. pos' = pos + 1
    BY DEF ChatAnswers
  <2> QED
    BY <2>1, <2>2 DEF K
<1>e. Enabled' <=> Enabled
  BY ChatLocal
<1>a. AttemptSpan = <<pos + 1, IF Enabled THEN attempt ELSE 0>> /\ CallSpan = <<pos + 1, 0>>
  BY ChatLocal DEF CallSpan
<1> DEFINE r == Recorded(TRUE, TRUE)
<1> DEFINE c == [id |-> CallSpan, parent |-> << >>, ok |-> TRUE, usage |-> FALSE]
<1>r. /\ r.id = AttemptSpan /\ r.id[1] = pos + 1 /\ (r.id[2] = 0 <=> ~Enabled) /\ r.usage
      /\ r.parent = (IF Enabled THEN <<pos + 1, 0>> ELSE << >>)
  <2>1. r.id = AttemptSpan /\ r.usage /\ r.parent = (IF Enabled THEN CallSpan ELSE << >>)
    BY DEF Recorded
  <2>2. AttemptSpan[1] = pos + 1 /\ (AttemptSpan[2] = 0 <=> ~Enabled)
    BY <1>z, <1>a
  <2> QED
    BY <2>1, <2>2, <1>a
<1>c. c.id = <<pos + 1, 0>> /\ c.id[1] = pos + 1 /\ c.id[2] = 0 /\ ~c.usage /\ c.parent = << >>
  BY <1>a
<1> HIDE DEF r, c
<1>s. spans' = spans \cup {r} \cup (IF Enabled THEN {c} ELSE {})
  BY DEF ChatAnswers, Wrapper, r, c
<1>o. /\ {s.id : s \in {t \in spans : Enabled => t.id[2] # 0}} = IdsSent
      /\ \A s \in spans :
            /\ s.id[1] \in 1 .. pos + 1
            /\ s.id[1] = pos + 1 => ~s.usage /\ s.id[2] # 0
            /\ s.usage => (s.id[2] = 0 <=> ~Enabled)
            /\ ~Enabled => s.parent = << >>
            /\ Enabled => s.parent = (IF s.id[2] = 0 THEN << >> ELSE <<s.id[1], 0>>)
      /\ \A k \in 1 .. pos :
            /\ \E s \in spans : s.usage /\ s.id[1] = k
            /\ \A s, t \in spans : s.usage /\ t.usage /\ s.id[1] = k /\ t.id[1] = k => s = t
            /\ Enabled => \E s \in spans : s.id = <<k, 0>> /\ s.parent = << >>
            /\ Enabled => \E s \in spans : s.id[2] # 0 /\ s.parent = <<k, 0>>
  BY <1>k, ChatLocal DEF SpanInv
<1>i. IdsSent' = IdsSent \cup {AttemptSpan}
  BY SentOnce
<1>1. {s.id : s \in {t \in spans' : Enabled => t.id[2] # 0}} = IdsSent'
  <2>1. {t \in spans' : Enabled => t.id[2] # 0} = {t \in spans : Enabled => t.id[2] # 0} \cup {r}
    BY <1>s, <1>r, <1>c
  <2>2. {s.id : s \in {t \in spans : Enabled => t.id[2] # 0} \cup {r}}
          = {s.id : s \in {t \in spans : Enabled => t.id[2] # 0}} \cup {r.id}
    OBVIOUS
  <2>3. {s.id : s \in {t \in spans : Enabled => t.id[2] # 0}} = IdsSent
    BY <1>o
  <2> QED
    BY <2>1, <2>2, <2>3, <1>i, <1>r
<1>2. \A s \in spans' :
         /\ s.id[1] \in 1 .. pos + 2
         /\ s.id[1] # pos + 2
         /\ s.usage => (s.id[2] = 0 <=> ~Enabled)
         /\ ~Enabled => s.parent = << >>
         /\ Enabled => s.parent = (IF s.id[2] = 0 THEN << >> ELSE <<s.id[1], 0>>)
  <2> SUFFICES ASSUME NEW s \in spans'
               PROVE  /\ s.id[1] \in 1 .. pos + 2
                      /\ s.id[1] # pos + 2
                      /\ s.usage => (s.id[2] = 0 <=> ~Enabled)
                      /\ ~Enabled => s.parent = << >>
                      /\ Enabled => s.parent = (IF s.id[2] = 0 THEN << >> ELSE <<s.id[1], 0>>)
    OBVIOUS
  <2>1. CASE s \in spans
    <3>1. s.id[1] \in 1 .. pos + 1
      BY <2>1, <1>o
    <3>2. s.id[1] \in 1 .. pos + 2 /\ s.id[1] # pos + 2
      BY <3>1, <1>z
    <3> QED
      BY <2>1, <3>2, <1>o
  <2>2. CASE s = r
    BY <2>2, <1>r, <1>z
  <2>3. CASE Enabled /\ s = c
    BY <2>3, <1>c, <1>z
  <2> QED
    BY <2>1, <2>2, <2>3, <1>s
<1>3. \A k \in 1 .. pos + 1 :
         /\ \E s \in spans' : s.usage /\ s.id[1] = k
         /\ \A s, t \in spans' : s.usage /\ t.usage /\ s.id[1] = k /\ t.id[1] = k => s = t
         /\ Enabled => \E s \in spans' : s.id = <<k, 0>> /\ s.parent = << >>
         /\ Enabled => \E s \in spans' : s.id[2] # 0 /\ s.parent = <<k, 0>>
  <2> SUFFICES ASSUME NEW k \in 1 .. pos + 1
               PROVE  /\ \E s \in spans' : s.usage /\ s.id[1] = k
                      /\ \A s, t \in spans' : s.usage /\ t.usage /\ s.id[1] = k /\ t.id[1] = k
                         => s = t
                      /\ Enabled => \E s \in spans' : s.id = <<k, 0>> /\ s.parent = << >>
                      /\ Enabled => \E s \in spans' : s.id[2] # 0 /\ s.parent = <<k, 0>>
    OBVIOUS
  <2>0. spans \subseteq spans' /\ r \in spans' /\ (Enabled => c \in spans')
    BY <1>s
  <2>1. CASE k = pos + 1
    <3>1. \A s \in spans' : s.usage /\ s.id[1] = k => s = r
      BY <2>1, <1>s, <1>o, <1>c
    <3> QED
      BY <2>0, <2>1, <3>1, <1>r, <1>c
  <2>2. CASE k # pos + 1
    <3>1. k \in 1 .. pos
      BY <2>2, <1>z
    <3>2. \A s \in spans' : s.id[1] = k => s \in spans
      BY <1>s, <1>r, <1>c, <2>2
    <3>3. /\ \E s \in spans : s.usage /\ s.id[1] = k
          /\ \A s, t \in spans : s.usage /\ t.usage /\ s.id[1] = k /\ t.id[1] = k => s = t
          /\ Enabled => \E s \in spans : s.id = <<k, 0>> /\ s.parent = << >>
          /\ Enabled => \E s \in spans : s.id[2] # 0 /\ s.parent = <<k, 0>>
      BY <3>1, <1>o
    <3> QED
      BY <2>0, <3>2, <3>3
  <2> QED
    BY <2>1, <2>2
<1>4. 1 .. K' + 1 = 1 .. pos + 2 /\ K' + 1 = pos + 2 /\ 1 .. K' = 1 .. pos + 1
  BY <1>z, <1>k
<1> QED
  BY <1>1, <1>2, <1>3, <1>4, <1>e DEF SpanInv

\* A failed attempt with attempts left leaves the span of that attempt.
LEMMA SpansRetried ==
    ASSUME SuiteInv, ChatRetries
    PROVE  SpanInv'
<1>z. pos \in Nat /\ attempt \in Nat \ {0}
  BY ChatLocal
<1>k. K = pos /\ K' = pos
  <2>1. pos \in Nat /\ attempt \in Nat \ {0} /\ K = pos /\ pos < NUnits /\ NUnits \in Nat
    BY ChatLocal
  <2>2. pos' = pos
    BY DEF ChatRetries
  <2> QED
    BY <2>1, <2>2 DEF K
<1>e. (Enabled' <=> Enabled) /\ Enabled
  <2>1. tries \in Nat \ {0} /\ attempt < tries
    BY DEF SuiteInv, RunnerType, LoopType, ChatRetries
  <2>2. Enabled' <=> Enabled
    BY ChatLocal
  <2> QED
    BY <2>1, <2>2, <1>z DEF Enabled
<1>a. AttemptSpan = <<pos + 1, attempt>> /\ CallSpan = <<pos + 1, 0>>
  BY <1>e, ChatLocal DEF CallSpan
<1> DEFINE r == Recorded(FALSE, FALSE)
<1>r. /\ r.id = AttemptSpan /\ r.id[1] = pos + 1 /\ r.id[2] # 0 /\ ~r.usage
         /\ r.parent = <<pos + 1, 0>>
  <2>1. r.id = AttemptSpan /\ ~r.usage /\ r.parent = CallSpan
    BY <1>e DEF Recorded
  <2>2. AttemptSpan[1] = pos + 1 /\ AttemptSpan[2] # 0
    BY <1>z, <1>a
  <2> QED
    BY <2>1, <2>2, <1>a
<1> HIDE DEF r
<1>s. spans' = spans \cup {r}
  BY DEF ChatRetries, r
<1>o. /\ {s.id : s \in {t \in spans : t.id[2] # 0}} = IdsSent
      /\ \A s \in spans :
            /\ s.id[1] \in 1 .. pos + 1
            /\ s.id[1] = pos + 1 => ~s.usage /\ s.id[2] # 0
            /\ s.usage => s.id[2] # 0
            /\ s.parent = (IF s.id[2] = 0 THEN << >> ELSE <<s.id[1], 0>>)
      /\ \A k \in 1 .. pos :
            /\ \E s \in spans : s.usage /\ s.id[1] = k
            /\ \A s, t \in spans : s.usage /\ t.usage /\ s.id[1] = k /\ t.id[1] = k => s = t
            /\ \E s \in spans : s.id = <<k, 0>> /\ s.parent = << >>
            /\ \E s \in spans : s.id[2] # 0 /\ s.parent = <<k, 0>>
  <2>1. SpanInv /\ suite \in ChatSuites /\ pending = ""
    BY ChatLocal
  <2> QED
    BY <2>1, <1>k, <1>e DEF SpanInv
<1>i. IdsSent' = IdsSent \cup {AttemptSpan}
  BY SentOnce
<1>1. {s.id : s \in {t \in spans' : t.id[2] # 0}} = IdsSent'
  <2>1. {t \in spans' : t.id[2] # 0} = {t \in spans : t.id[2] # 0} \cup {r}
    BY <1>s, <1>r
  <2>2. {s.id : s \in {t \in spans : t.id[2] # 0} \cup {r}} = {s.id :
                                                                s \in {t \in spans :
                                                                        t.id[2] # 0}} \cup {r.id}
    OBVIOUS
  <2>3. {s.id : s \in {t \in spans : t.id[2] # 0}} = IdsSent
    BY <1>o
  <2> QED
    BY <2>1, <2>2, <2>3, <1>i, <1>r
<1>2. \A s \in spans' :
         /\ s.id[1] \in 1 .. pos + 1
         /\ s.id[1] = pos + 1 => ~s.usage /\ s.id[2] # 0
         /\ s.usage => s.id[2] # 0
         /\ s.parent = (IF s.id[2] = 0 THEN << >> ELSE <<s.id[1], 0>>)
  <2>1. \A s \in spans : /\ s.id[1] \in 1 .. pos + 1
                            /\ (s.id[1] = pos + 1 => ~s.usage /\ s.id[2] # 0)
                         /\ (s.usage => s.id[2] # 0)
                            /\ s.parent = (IF s.id[2] = 0 THEN << >> ELSE <<s.id[1], 0>>)
    BY <1>o
  <2>2. /\ r.id[1] \in 1 .. pos + 1 /\ r.id[2] # 0 /\ ~r.usage /\ r.parent = <<r.id[1], 0>>
    BY <1>r, <1>z
  <2> QED
    BY <1>s, <2>1, <2>2
<1>3. \A k \in 1 .. pos :
         /\ \E s \in spans' : s.usage /\ s.id[1] = k
         /\ \A s, t \in spans' : s.usage /\ t.usage /\ s.id[1] = k /\ t.id[1] = k => s = t
         /\ \E s \in spans' : s.id = <<k, 0>> /\ s.parent = << >>
         /\ \E s \in spans' : s.id[2] # 0 /\ s.parent = <<k, 0>>
  BY <1>s, <1>o, <1>r
<1> QED
  BY <1>1, <1>2, <1>3, <1>k, <1>e DEF SpanInv

\* One attempt, however it ends.
LEMMA ChatMoves ==
    ASSUME SuiteInv, Solo \/ Tpc \/ Dis \/ Proxy
           \/ (RequestCancel /\ UNCHANGED <<tpcVars, disVars, After>>)
    PROVE  RequestInv' /\ SpanInv'
<1>1. CASE ChatAnswers
  BY <1>1, RequestsChat, SpansAnswered
<1>2. CASE ChatRetries
  BY <1>2, RequestsChat, SpansRetried
<1>3. CASE ChatFails
  <2>1. pending' = "error"
    BY <1>3 DEF ChatFails, Raise
  <2>2. SpanInv'
    BY <2>1 DEF SpanInv
  <2> QED
    BY <1>3, <2>2, RequestsChat
<1> QED
  BY <1>1, <1>2, <1>3, ChatRest

\* It holds at first.
LEMMA SuiteInit ==
    ASSUME Init
    PROVE  SuiteInv
<1>u. NUnits \in Nat \ {0} /\ NStreams \in Nat \ {0} /\ Budgets \subseteq Nat \ {0}
  BY UnitsAssumption
<1>f. /\ suite \in Suites /\ stage \in (IF suite \in Stored THEN {"over"} ELSE {"mock", "prepare"})
      /\ env = FALSE /\ pending = "" /\ raw = "" /\ outcome = "" /\ cancel = FALSE /\ dirs = {}
      /\ con = "none" /\ dropped = {}
  BY DEF Init, RunnerInit
<1>l. pos = 0 /\ attempt = 1 /\ retried = 0 /\ tries \in Tries
  BY DEF Init, RunnerInit
<1>c. requests = << >> /\ spans = {}
  BY DEF Init, RunnerInit
<1>w. late = [w \in Workers |-> 0] /\ late[0] = 0
  BY StreamWorkers DEF Init, RunnerInit
<1>t. /\ phase = "check" /\ round = 1 /\ conns = {} /\ db = [lines |-> 0, orders |-> 0]
         /\ acid = << >>
      /\ done = [w \in Workers |-> 0] /\ at = [w \in Workers |-> "poll"]
  BY DEF Init, TpcInit
<1>d. /\ plan \in Plans /\ (plan # "none" => suite = "ycsb")
      /\ step = "load" /\ timer = "none" /\ crashed = FALSE
      /\ link = [c \in Conns |-> "none"] /\ tracked = {} /\ cutting = {} /\ doomed = {}
      /\ closing = FALSE /\ stats = NoStats /\ snap = NoStats
  BY DEF Init, DisInit, Plans
<1>1. RunnerType
  <2>1. FlagsType
    BY <1>f DEF FlagsType, Suites
  <2>2. LoopType
    BY <1>l, <1>u DEF LoopType, Tries
  <2>3. LateType
    BY <1>w DEF LateType
  <2>4. requests \in Seq(Nat \X Nat) /\ spans \subseteq SpanRecords
    <3> DEFINE P == Nat \X Nat
    <3> HIDE DEF P
    <3>1. requests \in Seq(P)
      BY <1>c
    <3> QED
      BY <3>1, <1>c DEF P
  <2> QED
    BY <2>1, <2>2, <2>3, <2>4 DEF RunnerType, ChatType
<1>2. TpcType
  <2>1. acid \in Seq({"n/a", "pass", "fail"})
    <3> DEFINE P == {"n/a", "pass", "fail"}
    <3> HIDE DEF P
    <3>1. acid \in Seq(P)
      BY <1>t
    <3> QED
      BY <3>1 DEF P
  <2> QED
    BY <2>1, <1>t DEF TpcType
<1>3. DisType
  BY <1>d DEF DisType, Plans, Counters, NoStats
<1>4. StageInv
  BY <1>f DEF StageInv, Stored
<1>5. WholeInv
  BY <1>f DEF WholeInv, Through
<1>6. LateInv
  BY <1>f, <1>w DEF LateInv
<1>7. DirsInv
  BY <1>f DEF DirsInv, Stored, DuckSuites, Official
<1>8. ConnsInv
  BY <1>f, <1>t, StreamWorkers DEF ConnsInv
<1>16. DropInv
  BY <1>f, <1>t DEF DropInv
<1>9. WorkInv
  <2>1. done[0] = 0 /\ Len(acid) = 0
    BY <1>t, StreamWorkers
  <2> QED
    BY <2>1, <1>t DEF WorkInv, Rounds
<1>10. RefreshInv
  BY <1>t DEF RefreshInv
<1>11. RelayInv
  BY <1>f, <1>d DEF RelayInv
<1>12. StatsInv
  <2>1. IsFiniteSet(tracked) /\ Cardinality(tracked) = 0
    BY <1>d, FS_EmptySet
  <2> QED
    BY <2>1, <1>d DEF StatsInv, NoStats
<1>13. RequestInv
  <2>1. K = 0
    BY <1>l, <1>u DEF K
  <2>2. Len(requests) = 0
    BY <1>c
  <2>3. ~(pos >= NUnits)
    BY <1>l, <1>u
  <2> QED
    BY <2>1, <2>2, <2>3, <1>c, <1>l DEF RequestInv
<1>14. SpanInv
  <2>1. K = 0
    BY <1>l, <1>u DEF K
  <2>2. IdsSent = {}
    BY <1>c DEF IdsSent
  <2>3. {t \in spans : Enabled => t.id[2] # 0} = {}
    BY <1>c
  <2>4. {s.id : s \in {t \in spans : Enabled => t.id[2] # 0}} = {}
    BY <2>3
  <2>5. 1 .. K = {} /\ \A s \in spans : FALSE
    BY <2>1, <1>c
  <2> QED
    BY <2>2, <2>4, <2>5 DEF SpanInv
<1>15. LoopInv
  BY <1>l, <1>u DEF LoopInv
<1> QED
  BY <1>1, <1>2, <1>3, <1>4, <1>5, <1>6, <1>7, <1>8, <1>9, <1>10, <1>11, <1>12, <1>13, <1>14,
     <1>15, <1>16 DEF SuiteInv

\* The scores, the trace file and the judge are computed beside it.
LEMMA SuiteFrame ==
    ASSUME SuiteInv, UNCHANGED <<runnerVars, tpcVars, disVars>>
    PROVE  SuiteInv'
<1>v. /\ UNCHANGED <<suite, stage, env, pending, raw, outcome, cancel, late, dirs, pos, tries,
                     attempt, requests, spans, retried, con, dropped>>
      /\ UNCHANGED <<phase, round, done, at, conns, db, acid>>
      /\ UNCHANGED <<plan, step, timer, crashed, link, tracked, cutting, doomed, closing, stats,
                     snap, gaveUp>>
  BY DEF runnerVars, tpcVars, disVars
<1>o. /\ HasRefresh' = HasRefresh /\ Active' = Active /\ PowerUnits' = PowerUnits
         /\ Rounds' = Rounds /\ Quiet' = Quiet
      /\ Made' = Made /\ Proxied' = Proxied
  BY <1>v DEF HasRefresh, Active, PowerUnits, Rounds, Quiet, Made, Proxied
<1>1. FlagsType' /\ LoopType' /\ LateType' /\ ChatType'
  BY <1>v DEF SuiteInv, RunnerType, FlagsType, LoopType, LateType, ChatType
<1>2. TpcType' /\ DisType'
  BY <1>v DEF SuiteInv, TpcType, DisType
<1>3. StageInv'
  BY <1>v DEF SuiteInv, StageInv
<1>4. WholeInv'
  BY <1>v, WholeFixed DEF SuiteInv, WholeInv, Through
<1>5. LateInv'
  BY <1>v, <1>o DEF SuiteInv, LateInv
<1>6. DirsInv' /\ LoopInv'
  BY <1>v, <1>o DEF SuiteInv, DirsInv, LoopInv
<1>7. ConnsInv' /\ WorkInv' /\ RefreshInv'
  BY <1>v, <1>o DEF SuiteInv, ConnsInv, WorkInv, RefreshInv
<1>8. RelayInv' /\ StatsInv'
  BY <1>v, <1>o DEF SuiteInv, RelayInv, StatsInv
<1>9. RequestInv' /\ SpanInv'
  <2>1. K' = K
    BY <1>v DEF K
  <2> QED
    BY <1>v, <2>1, ChatSame
<1>10. DropInv'
  <2>1. LeftOpen => LeftOpen'
    BY <1>v, <1>o, LeftOpenSame
  <2> QED
    BY <1>v, <2>1 DEF SuiteInv, DropInv
<1> QED
  BY <1>1, <1>2, <1>3, <1>4, <1>5, <1>6, <1>7, <1>8, <1>9, <1>10 DEF SuiteInv, RunnerType

\* Every step keeps it.
LEMMA SuiteStepKeeps ==
    ASSUME SuiteInv, [Next]_vars
    PROVE  SuiteInv'
<1>1. CASE UNCHANGED <<runnerVars, tpcVars, disVars>>
  BY <1>1, SuiteFrame
<1>2. CASE Solo \/ Tpc \/ Dis \/ Proxy \/ (RequestCancel /\ UNCHANGED <<tpcVars, disVars, After>>)
  <2>0. RunnerType /\ TpcType /\ DisType /\ StageInv /\ WholeInv /\ DirsInv /\ WorkInv /\ RelayInv
        /\ StatsInv
    BY DEF SuiteInv
  <2>1. RunnerType'
    <3>1. CASE Proxy
      BY <2>0, <3>1, ProxyFrame DEF runnerVars, RunnerType, FlagsType, LoopType, LateType,
          ChatType
    <3>2. CASE RequestCancel /\ UNCHANGED <<tpcVars, disVars, After>>
      BY <2>0, <3>2, CancelFrame DEF loopVars, RunnerType, FlagsType, LoopType, LateType, ChatType
    <3> QED
      BY <1>2, <2>0, <3>1, <3>2, SoloType, TpcRunnerType, DisRunnerType
  <2>2. TpcType'
    <3>1. CASE Tpc
      BY <2>0, <3>1, TpcKeepsType
    <3>2. CASE ~Tpc
      <4>1. UNCHANGED tpcVars
        BY <1>2, <3>2, SoloFrame, DisFrame, ProxyFrame, CancelFrame
      <4> QED
        BY <2>0, <4>1 DEF tpcVars, TpcType
    <3> QED
      BY <3>1, <3>2
  <2>3. DisType'
    <3>1. CASE Dis \/ Proxy
      BY <2>0, <3>1, DisMovesType, ProxyMovesType
    <3>2. CASE ~(Dis \/ Proxy)
      <4>1. UNCHANGED disVars
        BY <1>2, <3>2, SoloFrame, TpcFrame, CancelFrame
      <4> QED
        BY <2>0, <4>1 DEF disVars, DisType
    <3> QED
      BY <3>1, <3>2
  <2>4. StageInv'
    BY <1>2, <2>0, <2>1, StageSolo, StageMoves
  <2>5. WholeInv'
    BY <1>2, <2>0, <2>1, WholeSolo, WholeMoves
  <2>6. LateInv'
    BY <1>2, <2>1, LateSolo, LateTpc, LateMoves
  <2>7. DirsInv'
    BY <1>2, <2>0, DirsSolo, DirsMoves
  <2>8. ConnsInv' /\ WorkInv' /\ RefreshInv'
    BY <1>2, ConnsRest, TpcConns, TpcWork, TpcRefresh
  <2>9. RelayInv' /\ StatsInv'
    BY <1>2, <2>0, RelaySame, RelayDis, RelayProxy, StatsDis, StatsProxy
  <2>10. RequestInv' /\ SpanInv' /\ LoopInv'
    BY <1>2, ChatMoves, LoopMoves
  <2>11. DropInv'
    BY <1>2, DropSolo, DropTpc, DropRest
  <2> QED
    BY <2>1, <2>2, <2>3, <2>4, <2>5, <2>6, <2>7, <2>8, <2>9, <2>10, <2>11 DEF SuiteInv
<1> QED
  BY <1>1, <1>2 DEF Next, vars

\* The inductive invariant of every suite's run holds, for any numbers of units, streams,
\* retries and connections.
THEOREM SuiteInductive == Spec => []SuiteInv
<1>1. Init => SuiteInv
  BY SuiteInit
<1>2. SuiteInv /\ [Next]_vars => SuiteInv'
  BY SuiteStepKeeps
<1> QED
  BY <1>1, <1>2, PTL DEF Spec

\* A bundle is the whole plan, a cancel is obeyed before a third unit begins, a finished run
\* leaves on this host the staged copy only, no timer and no relayed pair but one that join()
\* gave up on, and no DuckDB connection but those opened outside any finally.
THEOREM SuitesWholeAndClean == Spec => []WholeAndClean
<1>1. SuiteInv => WholeOrNothing
  <2> SUFFICES ASSUME SuiteInv PROVE WholeOrNothing
    OBVIOUS
  <2>1. outcome = "bundle" /\ env => Whole
    BY DEF SuiteInv, StageInv, WholeInv, Through
  <2>2. outcome = "cancelled" => \A w \in Workers : late[w] <= 2
    <3>1. outcome = "cancelled" => late[0] <= 2
      BY DEF SuiteInv, StageInv, LateInv
    <3> QED
      BY <3>1 DEF SuiteInv, LateInv
  <2> QED
    BY <2>1, <2>2 DEF WholeOrNothing
<1>2. SuiteInv => NothingLeftBehind
  <2> SUFFICES ASSUME SuiteInv, stage = "over"
               PROVE  /\ outcome = "bundle" => dirs = {"staged"}
                      /\ suite \in DuckSuites /\ env => "env" \notin dirs
                      /\ tracked = {} /\ doomed = {} /\ timer # "armed"
                      /\ (timer \in {"firing", "closing"} \/ cutting # {}) => gaveUp
                      /\ \A c \in Conns : link[c] = "up" => c \in cutting
    BY DEF NothingLeftBehind
  <2>1. /\ outcome = "bundle" => dirs = {"staged"}
        /\ suite \in DuckSuites /\ env => "env" \notin dirs
    BY DEF SuiteInv, DirsInv
  <2>2. step \in {"load", "gate", "stopped"} /\ doomed = {}
    BY DEF SuiteInv, RelayInv
  <2>3. CASE Proxied /\ step = "stopped"
    <3>1. tracked = {} /\ timer # "armed" /\ (cutting # {} => timer = "closing")
          /\ (timer \in {"firing", "closing"} => gaveUp)
      BY <2>3 DEF SuiteInv, RelayInv
    <3>2. \A c \in Conns : link[c] = "up" => c \in cutting
      BY <2>2, <3>1 DEF SuiteInv, RelayInv
    <3> QED
      BY <2>1, <2>2, <3>1, <3>2
  <2>4. CASE ~Proxied \/ step # "stopped"
    <3>1. timer = "none" /\ tracked = {} /\ (\A c \in Conns : link[c] = "none") /\ cutting = {}
      BY <2>2, <2>4 DEF SuiteInv, RelayInv
    <3> QED
      BY <2>1, <2>2, <3>1
  <2> QED
    BY <2>3, <2>4
<1>3. SuiteInv => ConnectionsClosed
  BY DEF SuiteInv, ConnsInv, DropInv, ConnectionsClosed
<1> QED
  BY SuiteInductive, <1>1, <1>2, <1>3, PTL DEF WholeAndClean

\* A pair is never the empty tuple, and is what its two halves say.
LEMMA PairsAreWhole ==
    ASSUME NEW p \in Nat \X Nat
    PROVE  p = <<p[1], p[2]>> /\ p[1] \in Nat /\ p[2] \in Nat /\ p # << >>
<1>1. p = <<p[1], p[2]>> /\ p[1] \in Nat /\ p[2] \in Nat
  OBVIOUS
<1>2. Len(<<p[1], p[2]>>) = 2 /\ Len(<< >>) = 0
  OBVIOUS
<1>3. Len(p) = 2
  BY <1>1, <1>2
<1> QED
  BY <1>1, <1>2, <1>3

\* And its halves are what it was built from.
LEMMA PairHalves ==
    ASSUME NEW p \in Nat \X Nat, NEW n, p = <<n, 0>>
    PROVE  p[1] = n /\ p[2] = 0
  OBVIOUS

\* Every item of a chat suite is finished.
Served == SuiteInv /\ suite \in ChatSuites /\ pending = "" /\ K = NUnits /\ attempt = 1

\* The leaves of its spans are the requests sent, every parent is there, every item carries
\* its tokens once, and the requests beyond one per item are the retries.
LEMMA LeavesAreSent ==
    ASSUME Served
    PROVE  LET leaves == {s \in spans : \A t \in spans : t.parent # s.id} IN
           /\ {s.id : s \in leaves} = IdsSent
           /\ \A s \in spans : s.parent = << >> \/ \E t \in spans : t.id = s.parent
           /\ \A k \in 1 .. NUnits : \E s \in spans :
                 s.usage /\ s.id[1] = k /\ \A t \in spans : t.usage /\ t.id[1] = k => t = s
           /\ retried = Len(requests) - NUnits
<1> DEFINE leaves == {s \in spans : \A t \in spans : t.parent # s.id}
<1>n. NUnits \in Nat \ {0} /\ retried \in Nat /\ Len(requests) \in Nat
  <2>1. requests \in Seq(Nat \X Nat) /\ retried \in Nat
    BY DEF Served, SuiteInv, RunnerType, LoopType, ChatType
  <2> QED
    BY <2>1, UnitsAssumption
<1>t. \A s \in spans : s.id \in Nat \X Nat
  BY DEF Served, SuiteInv, RunnerType, ChatType, SpanRecords
<1>p. \A s \in spans : /\ s.id = <<s.id[1], s.id[2]>> /\ s.id[1] \in Nat /\ s.id[2] \in Nat
                        /\ s.id # << >>
  BY <1>t, PairsAreWhole
<1>o. /\ {s.id : s \in {t \in spans : Enabled => t.id[2] # 0}} = IdsSent
      /\ \A s \in spans :
            /\ s.id[1] \in 1 .. NUnits + 1
            /\ s.id[1] = NUnits + 1 => ~s.usage /\ s.id[2] # 0
            /\ ~Enabled => s.parent = << >>
            /\ Enabled => s.parent = (IF s.id[2] = 0 THEN << >> ELSE <<s.id[1], 0>>)
      /\ \A k \in 1 .. NUnits :
            /\ \E s \in spans : s.usage /\ s.id[1] = k
            /\ \A s, t \in spans : s.usage /\ t.usage /\ s.id[1] = k /\ t.id[1] = k => s = t
            /\ Enabled => \E s \in spans : s.id = <<k, 0>> /\ s.parent = << >>
            /\ Enabled => \E s \in spans : s.id[2] # 0 /\ s.parent = <<k, 0>>
  BY DEF Served, SuiteInv, SpanInv
<1>r. /\ \A i \in 1 .. Len(requests) :
            /\ requests[i][1] \in 1 .. NUnits + 1
            /\ requests[i][1] = NUnits + 1 => Enabled /\ requests[i][2] < 1
            /\ requests[i][2] = 0 <=> ~Enabled
      /\ retried = Len(requests) - NUnits - (1 - 1)
  BY DEF Served, SuiteInv, RequestInv
<1>q. \A i \in 1 .. Len(requests) : requests[i][2] \in Nat
  <2>1. requests \in Seq(Nat \X Nat)
    BY DEF Served, SuiteInv, RunnerType, ChatType
  <2>2. \A i \in 1 .. Len(requests) : requests[i] \in Nat \X Nat
    BY <2>1
  <2> QED
    BY <2>2, PairsAreWhole
<1>i. \A i \in 1 .. Len(requests) : requests[i][1] \in 1 .. NUnits
  <2> SUFFICES ASSUME NEW i \in 1 .. Len(requests) PROVE requests[i][1] \in 1 .. NUnits
    OBVIOUS
  <2> DEFINE a == requests[i][1]
             b == requests[i][2]
  <2>1. a \in 1 .. NUnits + 1 /\ b \in Nat /\ (b = 0 <=> ~Enabled)
        /\ (a = NUnits + 1 => Enabled /\ b < 1)
    BY <1>r, <1>q
  <2> HIDE DEF a, b
  <2>2. a # NUnits + 1
    BY <2>1
  <2>3. a \in 1 .. NUnits
    BY <2>1, <2>2, <1>n
  <2> QED
    BY <2>3 DEF a
<1>1. \A s \in spans : (Enabled => s.id[2] # 0) => s.id[1] \in 1 .. NUnits
  <2> SUFFICES ASSUME NEW s \in spans, Enabled => s.id[2] # 0 PROVE s.id[1] \in 1 .. NUnits
    OBVIOUS
  <2>1. s.id \in {u.id : u \in {t \in spans : Enabled => t.id[2] # 0}}
    OBVIOUS
  <2>2. s.id \in IdsSent
    BY <2>1, <1>o
  <2>3. PICK i \in 1 .. Len(requests) : s.id = requests[i]
    BY <2>2 DEF IdsSent
  <2> QED
    BY <2>3, <1>i
<1>2. leaves = {t \in spans : Enabled => t.id[2] # 0}
  <2>1. CASE ~Enabled
    <3>1. \A s, t \in spans : t.parent # s.id
      BY <2>1, <1>o, <1>p
    <3> QED
      BY <2>1, <3>1
  <2>2. CASE Enabled
    <3>1. ASSUME NEW s \in spans, s.id[2] # 0, NEW t \in spans PROVE t.parent # s.id
      <4>1. t.parent = << >> \/ t.parent = <<t.id[1], 0>>
        BY <2>2, <1>o
      <4>2. s.id # <<t.id[1], 0>>
        BY <3>1, <1>t, PairHalves
      <4> QED
        BY <4>1, <4>2, <1>p
    <3>2. ASSUME NEW s \in spans, s.id[2] = 0 PROVE \E t \in spans : t.parent = s.id
      <4>1. s.id = <<s.id[1], 0>>
        BY <1>p, <3>2
      <4>2. s.id[1] \in 1 .. NUnits + 1 /\ s.id[1] # NUnits + 1
        BY <1>o, <3>2
      <4>3. s.id[1] \in 1 .. NUnits
        BY <4>2, <1>n
      <4>4. \E t \in spans : t.parent = <<s.id[1], 0>>
        BY <4>3, <2>2, <1>o
      <4> QED
        BY <4>1, <4>4
    <3> QED
      BY <2>2, <3>1, <3>2
  <2> QED
    BY <2>1, <2>2
<1>3. {s.id : s \in leaves} = IdsSent
  BY <1>2, <1>o
<1>4. \A s \in spans : s.parent = << >> \/ \E t \in spans : t.id = s.parent
  <2> SUFFICES ASSUME NEW s \in spans, s.parent # << >> PROVE \E t \in spans : t.id = s.parent
    OBVIOUS
  <2>1. Enabled /\ s.id[2] # 0 /\ s.parent = <<s.id[1], 0>>
    BY <1>o
  <2>2. s.id[1] \in 1 .. NUnits
    BY <2>1, <1>1
  <2>3. \E t \in spans : t.id = <<s.id[1], 0>>
    BY <2>1, <2>2, <1>o
  <2> QED
    BY <2>1, <2>3
<1>5. \A k \in 1 .. NUnits : \E s \in spans :
         s.usage /\ s.id[1] = k /\ \A t \in spans : t.usage /\ t.id[1] = k => t = s
  BY <1>o
<1>6. retried = Len(requests) - NUnits
  BY <1>r, <1>n
<1> QED
  BY <1>3, <1>4, <1>5, <1>6

\* Requests and spans tell each other, the proxy's evidence is final when it is copied, and
\* no stream writes while the ACID probes read.
THEOREM SuitesEvidenceIsSound == Spec => []EvidenceIsSound
<1>1. SuiteInv => TraceIsHonest
  <2> SUFFICES ASSUME SuiteInv PROVE TraceIsHonest
    OBVIOUS
  <2>1. \A i, j \in 1 .. Len(requests) : requests[i] = requests[j] => i = j
    BY DEF SuiteInv, RequestInv
  <2>2. ASSUME outcome = "bundle" /\ env /\ suite \in ChatSuites
        PROVE  Served
    <3>1. Whole /\ pending = ""
      BY <2>2 DEF SuiteInv, StageInv, WholeInv, Through
    <3>2. pos = NUnits \/ pos = 2 * NUnits
      BY <2>2, <3>1 DEF Whole, ChatSuites, Official
    <3>3. NUnits \in Nat \ {0}
      BY UnitsAssumption
    <3>4. pos >= NUnits /\ K = NUnits
      BY <3>2, <3>3 DEF K
    <3> QED
      BY <2>2, <3>1, <3>4 DEF SuiteInv, RequestInv, Served
  <2> QED
    BY <2>1, <2>2, LeavesAreSent DEF TraceIsHonest, IdsSent
<1>2. SuiteInv => EvidenceIsWhole
  <2> SUFFICES ASSUME SuiteInv PROVE EvidenceIsWhole
    OBVIOUS
  <2>1. stats.reset <= stats.total
    <3>1. Cardinality(tracked) \in Nat /\ stats.reset \in Nat /\ stats.total \in Nat
      BY FS_CardinalityType DEF SuiteInv, StatsInv, DisType, Counters
    <3>2. stats.reset + Cardinality(tracked) <= stats.total
      BY DEF SuiteInv, StatsInv
    <3> QED
      BY <3>1, <3>2
  <2>2. ASSUME step \in {"stop", "close", "stopped"} /\ Proxied
        PROVE  /\ IF snap.at = 0 THEN snap.reset = 0 /\ snap.windows = 0
                  ELSE /\ snap.at = stats.at /\ snap.reset = stats.reset
                       /\ snap.windows = stats.windows
               /\ ~gaveUp => snap.at = stats.at /\ (snap.at > 0 <=> timer = "fired")
    <3>1. timer \in {"fired", "cancelled"} \/ gaveUp
      BY <2>2 DEF SuiteInv, RelayInv
    <3>2. stats.at = (IF timer \in {"closing", "fired"} THEN 1 ELSE 0)
      BY DEF SuiteInv, StatsInv
    <3>3. /\ IF snap.at = 0 THEN snap.reset = 0 /\ snap.windows = 0
             ELSE snap.at = stats.at /\ snap.reset = stats.reset /\ snap.windows = stats.windows
          /\ ~gaveUp => snap.at = stats.at
      BY <2>2 DEF SuiteInv, StatsInv
    <3> QED
      BY <3>1, <3>2, <3>3
  <2> QED
    BY <2>1, <2>2 DEF EvidenceIsWhole
<1>3. SuiteInv => StreamsAreFenced
  <2> SUFFICES ASSUME SuiteInv PROVE StreamsAreFenced
    OBVIOUS
  <2>1. ASSUME NEW w \in Active, at[w] = "exec"
        PROVE  w \in conns
    <3>1. phase \in {"check", "power", "open", "streams", "dm", "acid", "seal"}
      BY DEF SuiteInv, TpcType
    <3>2. phase = "streams" /\ stage = "run"
      BY <2>1, <3>1 DEF SuiteInv, ConnsInv, Quiet
    <3> QED
      BY <3>2 DEF SuiteInv, ConnsInv
  <2>2. ASSUME stage = "run" /\ phase = "acid"
        PROVE  conns = {0} /\ (\A w \in Active : at[w] = "done") /\ db.lines = db.orders
    <3>1. conns = {0} /\ (\A w \in Active : at[w] = "done")
      BY <2>2 DEF SuiteInv, ConnsInv
    <3>2. db.lines = db.orders
      BY <2>2 DEF SuiteInv, RefreshInv
    <3> QED
      BY <3>1, <3>2
  <2> QED
    BY <2>1, <2>2 DEF StreamsAreFenced
<1> QED
  BY SuiteInductive, <1>1, <1>2, <1>3, PTL DEF EvidenceIsSound

(***************************************************************************)
(* The numbers published of a run: SuiteScores.                            *)
(***************************************************************************)
\* No evaluator gives two numbers the same key.
Distinct(S) == \A m, o \in S : m.key = o.key => m = o

\* What a number says.
LEMMA NumberFields ==
    /\ \A k, a, b, c : /\ Number(k, a, b, c).key = k /\ Number(k, a, b, c).num = a
                       /\ Number(k, a, b, c).den = b /\ Number(k, a, b, c).n = c
                       /\ Number(k, a, b, c).official
    /\ \A k, c : /\ Timing(k, c).key = k /\ Timing(k, c).n = c /\ Timing(k, c).official
    /\ \A k, a : /\ Unofficial(k, a).key = k /\ Unofficial(k, a).num = a
                 /\ ~Unofficial(k, a).official
  BY DEF Number, Timing, Unofficial

\* The number an aggregate publishes.
ShareOf(key, pass, counted) ==
    Number(key, Cardinality(pass \cap counted), Cardinality(counted), Cardinality(counted))

\* An aggregate over nothing publishes none.
LEMMA AggregateOne ==
    ASSUME NEW key, NEW pass, NEW counted, NEW m \in Aggregate(key, pass, counted)
    PROVE  /\ counted # {}
           /\ m = ShareOf(key, pass, counted)
  BY DEF Aggregate, When, ShareOf

\* The number of one ACID probe.
Verdict(i) == Number(AcidKey[i], IF acid[i] = "pass" THEN 1 ELSE 0, 1, 0)

\* Only a probe that passed or failed has one.
LEMMA VerdictKeys ==
    ASSUME NEW m \in Verdicts
    PROVE  \E i \in 1 .. Len(acid) : acid[i] \in {"pass", "fail"} /\ m = Verdict(i)
  BY DEF Verdicts, Verdict

\* The probes have keys of their own, all different.
LEMMA AcidKeys ==
    ASSUME Len(acid) \in Nat, Len(acid) <= 4
    PROVE  /\ \A i \in 1 .. Len(acid) : AcidKey[i] \in
                {"acid_atomicity", "acid_consistency", "acid_isolation", "acid_durability"}
           /\ \A i, j \in 1 .. Len(acid) : AcidKey[i] = AcidKey[j] => i = j
<1>1. \A i \in 1 .. Len(acid) : i = 1 \/ i = 2 \/ i = 3 \/ i = 4
  OBVIOUS
<1>2. /\ AcidKey[1] = "acid_atomicity" /\ AcidKey[2] = "acid_consistency"
      /\ AcidKey[3] = "acid_isolation" /\ AcidKey[4] = "acid_durability"
  BY DEF AcidKey
<1> QED
  BY <1>1, <1>2

\* The numbers of each evaluator, with their keys; and no key comes twice.
LEMMA InQueries ==
    ASSUME NEW f, NEW gone, NEW m \in ScoreQueries(f, gone)
    PROVE  \/ m.key = "total_runtime_ms" /\ m = Timing("total_runtime_ms", NUnits)
           \/ m.key = "geomean_latency_ms" /\ m = Timing("geomean_latency_ms", NUnits)
           \/ m.key = "queries_passed" /\ m = ShareOf("queries_passed", f.right, f.ref)
<1>1. \/ m = Timing("total_runtime_ms", NUnits)
      \/ m = Timing("geomean_latency_ms", NUnits)
      \/ m = ShareOf("queries_passed", f.right, f.ref)
  BY AggregateOne DEF ScoreQueries, When
<1> QED
  BY <1>1, NumberFields DEF ShareOf

\* No key twice.
LEMMA DistinctQueries ==
    ASSUME NEW f, NEW gone
    PROVE  Distinct(ScoreQueries(f, gone))
<1> SUFFICES ASSUME NEW m \in ScoreQueries(f, gone), NEW o \in ScoreQueries(f, gone), m.key = o.key
             PROVE  m = o
  BY DEF Distinct
<1> QED
  BY InQueries

\* SWE-bench.
LEMMA InSwe ==
    ASSUME NEW f, NEW gone, NEW m \in ScoreSwe(f, gone)
    PROVE  \/ m.key = "resolved" /\ m = Number("resolved", Cardinality(f.right), NUnits, 0)
           \/ m.key = "cost_per_resolved"
              /\ m = Number("cost_per_resolved", 1, Cardinality(f.right), 0)
<1>1. \/ m = Number("resolved", Cardinality(f.right), NUnits, 0)
      \/ m = Number("cost_per_resolved", 1, Cardinality(f.right), 0)
  BY AggregateOne DEF ScoreSwe, When
<1> QED
  BY <1>1, NumberFields DEF ShareOf

\* No key twice.
LEMMA DistinctSwe ==
    ASSUME NEW f, NEW gone
    PROVE  Distinct(ScoreSwe(f, gone))
<1> SUFFICES ASSUME NEW m \in ScoreSwe(f, gone), NEW o \in ScoreSwe(f, gone), m.key = o.key
             PROVE  m = o
  BY DEF Distinct
<1> QED
  BY InSwe

\* TPC-C.
LEMMA InTpcc ==
    ASSUME NEW f, NEW gone, NEW m \in ScoreTpcc(f, gone)
    PROVE  \/ m.key = "throughput_req_per_sec" /\ m = Timing("throughput_req_per_sec", 0)
           \/ m.key = "p99_latency_us" /\ m = Timing("p99_latency_us", 0)
           \/ m.key = "goodput_req_per_sec" /\ m = Timing("goodput_req_per_sec", 0)
           \/ m.key = "goodput_ratio" /\ m = Timing("goodput_ratio", 0)
           \/ m.key = "tpmc_estimate" /\ m = Timing("tpmc_estimate", 0)
<1>1. \/ m = Timing("throughput_req_per_sec", 0)
      \/ m = Timing("p99_latency_us", 0)
      \/ m = Timing("goodput_req_per_sec", 0)
      \/ m = Timing("goodput_ratio", 0)
      \/ m = Timing("tpmc_estimate", 0)
  BY AggregateOne DEF ScoreTpcc, When
<1> QED
  BY <1>1, NumberFields DEF ShareOf

\* No key twice.
LEMMA DistinctTpcc ==
    ASSUME NEW f, NEW gone
    PROVE  Distinct(ScoreTpcc(f, gone))
<1> SUFFICES ASSUME NEW m \in ScoreTpcc(f, gone), NEW o \in ScoreTpcc(f, gone), m.key = o.key
             PROVE  m = o
  BY DEF Distinct
<1> QED
  BY InTpcc

\* YCSB.
LEMMA InYcsb ==
    ASSUME NEW f, NEW gone, NEW m \in ScoreYcsb(f, gone)
    PROVE  \/ m.key = "throughput_ops" /\ m = Timing("throughput_ops", 0)
           \/ m.key = "read_p99_us" /\ m = Timing("read_p99_us", 0)
           \/ m.key = "completed_under_disruption"
              /\ m = Number("completed_under_disruption", 1, 1, 0)
           \/ m.key = "ops_ok" /\ m = Number("ops_ok", Cardinality(f.right), 1, 0)
           \/ m.key = "ops_failed" /\ m = Number("ops_failed", NUnits - Cardinality(f.right), 1, 0)
           \/ m.key = "error_rate"
              /\ m = Number("error_rate", NUnits - Cardinality(f.right), NUnits, 0)
<1>1. \/ m = Timing("throughput_ops", 0)
      \/ m = Timing("read_p99_us", 0)
      \/ m = Number("completed_under_disruption", 1, 1, 0)
      \/ m = Number("ops_ok", Cardinality(f.right), 1, 0)
      \/ m = Number("ops_failed", NUnits - Cardinality(f.right), 1, 0)
      \/ m = Number("error_rate", NUnits - Cardinality(f.right), NUnits, 0)
  BY AggregateOne DEF ScoreYcsb, When
<1> QED
  BY <1>1, NumberFields DEF ShareOf

\* No key twice.
LEMMA DistinctYcsb ==
    ASSUME NEW f, NEW gone
    PROVE  Distinct(ScoreYcsb(f, gone))
<1> SUFFICES ASSUME NEW m \in ScoreYcsb(f, gone), NEW o \in ScoreYcsb(f, gone), m.key = o.key
             PROVE  m = o
  BY DEF Distinct
<1> QED
  BY InYcsb

\* Official TPC-H.
LEMMA InQphH ==
    ASSUME NEW f, NEW gone, NEW m \in ScoreQphH(f, gone)
    PROVE  \/ m.key = "load_time_s" /\ m = Timing("load_time_s", 0)
           \/ m.key = "power_at_size" /\ m = Timing("power_at_size", 0)
           \/ m.key = "throughput_at_size"
              /\ m = Number("throughput_at_size", NStreams * done[1], 1, 0)
           \/ m.key = "qphh_at_size" /\ m = Timing("qphh_at_size", 0)
           \/ \E i \in 1 .. Len(acid) : m.key = AcidKey[i] /\ m = Verdict(i)
<1>1. \/ m = Timing("load_time_s", 0)
      \/ m = Timing("power_at_size", 0)
      \/ m = Number("throughput_at_size", NStreams * done[1], 1, 0)
      \/ m = Timing("qphh_at_size", 0)
      \/ \E i \in 1 .. Len(acid) : m = Verdict(i)
  BY AggregateOne, VerdictKeys DEF ScoreQphH, When
<1> QED
  BY <1>1, NumberFields DEF ShareOf, Verdict

\* No key twice.
LEMMA DistinctQphH ==
    ASSUME NEW f, NEW gone, Len(acid) <= 4, Len(acid) \in Nat
    PROVE  Distinct(ScoreQphH(f, gone))
<1> SUFFICES ASSUME NEW m \in ScoreQphH(f, gone), NEW o \in ScoreQphH(f, gone), m.key = o.key
             PROVE  m = o
  BY DEF Distinct
<1> QED
  BY InQphH, AcidKeys

\* Official TPC-DS.
LEMMA InQphDS ==
    ASSUME NEW f, NEW gone, NEW m \in ScoreQphDS(f, gone)
    PROVE  \/ m.key = "load_time_s" /\ m = Timing("load_time_s", 0)
           \/ m.key = "power_test_s" /\ m = Timing("power_test_s", 0)
           \/ m.key = "throughput_test_s" /\ m = Timing("throughput_test_s", 0)
           \/ m.key = "maintenance_test_s" /\ m = Timing("maintenance_test_s", 0)
           \/ m.key = "qphds_at_size" /\ m = Timing("qphds_at_size", 0)
           \/ m.key = "queries_passed" /\ m = ShareOf("queries_passed", f.right, f.ref)
           \/ \E i \in 1 .. Len(acid) : m.key = AcidKey[i] /\ m = Verdict(i)
<1>1. \/ m = Timing("load_time_s", 0)
      \/ m = Timing("power_test_s", 0)
      \/ m = Timing("throughput_test_s", 0)
      \/ m = Timing("maintenance_test_s", 0)
      \/ m = Timing("qphds_at_size", 0)
      \/ m = ShareOf("queries_passed", f.right, f.ref)
      \/ \E i \in 1 .. Len(acid) : m = Verdict(i)
  BY AggregateOne, VerdictKeys DEF ScoreQphDS, When
<1> QED
  BY <1>1, NumberFields DEF ShareOf, Verdict

\* No key twice.
LEMMA DistinctQphDS ==
    ASSUME NEW f, NEW gone, Len(acid) <= 4, Len(acid) \in Nat
    PROVE  Distinct(ScoreQphDS(f, gone))
<1> SUFFICES ASSUME NEW m \in ScoreQphDS(f, gone), NEW o \in ScoreQphDS(f, gone), m.key = o.key
             PROVE  m = o
  BY DEF Distinct
<1> QED
  BY InQphDS, AcidKeys

\* The chat suites.
LEMMA InItems ==
    ASSUME NEW f, NEW gone, NEW m \in ScoreItems(f, gone)
    PROVE  \/ m.key = "accuracy" /\ m = ShareOf("accuracy", f.right, Units)
           \/ m.key = "accuracy.by_group.odd"
              /\ m = ShareOf("accuracy.by_group.odd", f.right, Of("odd"))
           \/ m.key = "accuracy.by_group.even"
              /\ m = ShareOf("accuracy.by_group.even", f.right, Of("even"))
           \/ m.key = "answered_rate" /\ m = ShareOf("answered_rate", Answered(f), Units)
           \/ m.key = "avg_latency_ms" /\ m = Timing("avg_latency_ms", NUnits)
           \/ m.key = "total_tokens" /\ m = Timing("total_tokens", 0)
           \/ m.key = "cost_usd" /\ m = Timing("cost_usd", 0)
           \/ m.key = "retry_count" /\ m = Unofficial("retry_count", retried)
           \/ m.key = "retry_overhead_ms" /\ m = Unofficial("retry_overhead_ms", 0)
<1>1. \/ m = ShareOf("accuracy", f.right, Units)
      \/ m = ShareOf("accuracy.by_group.odd", f.right, Of("odd"))
      \/ m = ShareOf("accuracy.by_group.even", f.right, Of("even"))
      \/ m = ShareOf("answered_rate", Answered(f), Units)
      \/ m = Timing("avg_latency_ms", NUnits)
      \/ m = Timing("total_tokens", 0)
      \/ m = Timing("cost_usd", 0)
      \/ m = Unofficial("retry_count", retried)
      \/ m = Unofficial("retry_overhead_ms", 0)
  BY AggregateOne DEF ScoreItems, When, ByGroup, GroupKey, Subjects, AnsweredRate, Serving
<1> QED
  BY <1>1, NumberFields DEF ShareOf

\* No key twice.
LEMMA DistinctItems ==
    ASSUME NEW f, NEW gone
    PROVE  Distinct(ScoreItems(f, gone))
<1> SUFFICES ASSUME NEW m \in ScoreItems(f, gone), NEW o \in ScoreItems(f, gone), m.key = o.key
             PROVE  m = o
  BY DEF Distinct
<1> QED
  BY InItems

\* The two groups split any set of items.
LEMMA Split ==
    ASSUME NEW S \in SUBSET Units
    PROVE  Cardinality(S \cap Units) =
               Cardinality(S \cap Of("odd")) + Cardinality(S \cap Of("even"))
<1>1. IsFiniteSet(Units)
  BY UnitsAssumption, FS_Interval DEF Units
<1> DEFINE A == S \cap Of("odd")
           B == S \cap Of("even")
<1>2. S \cap Units = A \cup B /\ A \cap B = {} /\ A \subseteq Units /\ B \subseteq Units
  BY DEF Of
<1> HIDE DEF A, B
<1>3. IsFiniteSet(A) /\ IsFiniteSet(B)
  BY <1>1, <1>2, FS_Subset
<1>4. Cardinality(A \cup B) = Cardinality(A) + Cardinality(B) - Cardinality({})
  BY <1>2, <1>3, FS_Union
<1>5. Cardinality(A) \in Nat /\ Cardinality(B) \in Nat /\ Cardinality({}) = 0
  BY <1>3, FS_CardinalityType, FS_EmptySet
<1>6. Cardinality(A \cup B) = Cardinality(A) + Cardinality(B)
  BY <1>4, <1>5
<1> QED
  BY <1>2, <1>6 DEF A, B

\* A key that comes once names its number.
LEMMA ValueOf ==
    ASSUME Distinct(scored.numbers), NEW m \in scored.numbers
    PROVE  m.key \in Keyed /\ Value(m.key) = m
  BY DEF Distinct, Keyed, Value

\* And the number it names has it.
LEMMA ByKey ==
    ASSUME Distinct(scored.numbers), NEW key \in Keyed
    PROVE  Value(key) \in scored.numbers /\ Value(key).key = key
  BY DEF Distinct, Keyed, Value

\* What a number depends on.
Inputs == <<suite, acid, done, retried, tries, snap, sut>>

\* While those stand still, the evaluator says the same.
LEMMA ScoreSame ==
    ASSUME Inputs' = Inputs
    PROVE  ScoreOf(facts, lost)' = ScoreOf(facts', lost')
  BY DEF Inputs, ScoreOf, ScoreItems, ScoreQueries, ScoreQphH, ScoreQphDS, ScoreSwe, ScoreTpcc,
         ScoreYcsb, Aggregate, ByGroup, AnsweredRate, Answered, Serving, Enabled, Verdicts,
         Disrupted, Units, Of, Subjects, GroupKey, When, Number, Timing, Unofficial

\* The evaluator of each suite.
LEMMA ScoreCases ==
    ASSUME NEW f, NEW gone
    PROVE  /\ suite \in ChatSuites => ScoreOf(f, gone) = ScoreItems(f, gone)
           /\ suite = "queries" => ScoreOf(f, gone) = ScoreQueries(f, gone)
           /\ suite = "official" => ScoreOf(f, gone) = ScoreQphH(f, gone)
           /\ suite = "officialds" => ScoreOf(f, gone) = ScoreQphDS(f, gone)
           /\ suite = "swe" => ScoreOf(f, gone) = ScoreSwe(f, gone)
           /\ suite = "tpcc" => ScoreOf(f, gone) = ScoreTpcc(f, gone)
           /\ suite = "ycsb" => ScoreOf(f, gone) = ScoreYcsb(f, gone)
  BY DEF ScoreOf, ChatSuites

\* The suites that have one.
LEMMA ScoredSuites ==
    ASSUME suite \in Suites \ Stored
    PROVE  \/ suite \in ChatSuites
           \/ suite \in {"queries", "official", "officialds", "swe", "tpcc", "ycsb"}
  BY DEF Suites, Stored, DuckSuites, Official, ChatSuites

\* Taking artifacts away takes numbers away.
LEMMA ScoreOmits ==
    ASSUME NEW f, NEW gone, suite \in Suites \ Stored
    PROVE  ScoreOf(f, gone) \subseteq ScoreOf(f, {})
<1>1. /\ ScoreItems(f, gone) \subseteq ScoreItems(f, {})
      /\ ScoreQueries(f, gone) \subseteq ScoreQueries(f, {})
      /\ ScoreQphH(f, gone) \subseteq ScoreQphH(f, {})
      /\ ScoreQphDS(f, gone) \subseteq ScoreQphDS(f, {})
      /\ ScoreSwe(f, gone) \subseteq ScoreSwe(f, {})
      /\ ScoreTpcc(f, gone) \subseteq ScoreTpcc(f, {})
      /\ ScoreYcsb(f, gone) \subseteq ScoreYcsb(f, {})
  BY DEF ScoreItems, ScoreQueries, ScoreQphH, ScoreQphDS, ScoreSwe, ScoreTpcc, ScoreYcsb, When
<1>2. /\ suite \in ChatSuites => ScoreOf(f, gone) \subseteq ScoreOf(f, {})
      /\ suite \in {"queries", "official", "officialds", "swe", "tpcc", "ycsb"}
            => ScoreOf(f, gone) \subseteq ScoreOf(f, {})
  BY <1>1, ScoreCases
<1> QED
  BY <1>2, ScoredSuites

\* No record holds two numbers with one key.
LEMMA ScoreDistinct ==
    ASSUME NEW f, NEW gone, suite \in Suites \ Stored, Len(acid) \in Nat, Len(acid) <= 4
    PROVE  Distinct(ScoreOf(f, gone))
<1>1. /\ suite \in ChatSuites => Distinct(ScoreOf(f, gone))
      /\ suite \in {"queries", "official", "officialds", "swe", "tpcc", "ycsb"}
            => Distinct(ScoreOf(f, gone))
  BY ScoreCases, DistinctItems, DistinctQueries, DistinctQphH, DistinctQphDS, DistinctSwe,
     DistinctTpcc, DistinctYcsb
<1> QED
  BY <1>1, ScoredSuites

\* A run whose numbers are published.
SnapInv == ~Proxied => snap.at = 0
\* What is published is what the evaluator says of the artifacts that were left.
Graded == scored.numbers = ScoreOf(facts, lost)
\* It is published of a run that is over and whole.
ScoreInv ==
    scored.how = "scored" =>
        /\ stage = "over" /\ outcome = "bundle" /\ env /\ suite \notin Stored
        /\ facts \in Facts /\ lost \subseteq Artifacts
        /\ Graded

\* The items of a chat suite.
LEMMA ItemsCount ==
    ASSUME Served, suite \in ChatSuites, NEW f, NEW gone, f \in Facts, Distinct(scored.numbers),
           scored.numbers = ScoreItems(f, gone), facts = f
    PROVE  CountsTheWork
           /\ ("retry_count" \in Keyed => Value("retry_count").num = Len(requests) - NUnits)
<1>t. NUnits \in Nat \ {0}
  BY UnitsAssumption
<1>u. IsFiniteSet(Units)
  BY <1>t, FS_Interval DEF Units
<1>1. Units = {s.id[1] : s \in {t \in spans : t.usage}}
  <2>1. \A k \in Units : \E s \in spans : s.usage /\ s.id[1] = k
    BY LeavesAreSent DEF Units
  <2>2. \A s \in spans : s.usage => s.id[1] \in Units
    <3>1. \A s \in spans : s.id[1] \in 1 .. NUnits + 1 /\ (s.id[1] = NUnits + 1 => ~s.usage)
      BY DEF Served, SuiteInv, SpanInv
    <3>2. \A n \in 1 .. NUnits + 1 : n # NUnits + 1 => n \in 1 .. NUnits
      BY <1>t
    <3> QED
      BY <3>1, <3>2 DEF Units
  <2> QED
    BY <2>1, <2>2
<1>2. ASSUME "accuracy" \in Keyed
      PROVE  /\ "rows" \notin gone
             /\ Value("accuracy") = ShareOf("accuracy", f.right, Units)
  <2>1. PICK m \in ScoreItems(f, gone) : m.key = "accuracy"
    BY <1>2 DEF Keyed
  <2>2. m = ShareOf("accuracy", f.right, Units)
    BY <2>1, InItems
  <2>3. "rows" \notin gone
    BY <2>1 DEF ScoreItems, When
  <2> QED
    BY <2>1, <2>2, <2>3, ValueOf
<1>3. f.right \subseteq Units /\ f.answered \subseteq Units /\ f.right \subseteq f.answered
      /\ (f.grouped <=> suite = "items") /\ (suite = "items" => f.extra)
  <2>1. Facts = {e \in [right : SUBSET Units, answered : SUBSET Units, metered : BOOLEAN,
                        grouped : {suite = "items"}, extra : {suite = "items", TRUE}] :
                    e.right \subseteq e.answered}
    BY DEF Facts, ChatSuites, DuckSuites, Official
  <2>2. /\ f \in [right : SUBSET Units, answered : SUBSET Units, metered : BOOLEAN,
                  grouped : {suite = "items"}, extra : {suite = "items", TRUE}]
        /\ f.right \subseteq f.answered
    BY <2>1
  <2>3. f.right \in SUBSET Units /\ f.answered \in SUBSET Units
        /\ f.grouped \in {suite = "items"} /\ f.extra \in {suite = "items", TRUE}
    BY <2>2
  <2> QED
    BY <2>2, <2>3
<1>g. ASSUME NEW g \in Subjects, "rows" \notin gone, f.grouped
      PROVE  /\ Share(GroupKey(g), "num") = Cardinality(f.right \cap Of(g))
             /\ Share(GroupKey(g), "den") = Cardinality(Of(g))
  <2>1. CASE Of(g) = {}
    <3>1. \A m \in scored.numbers : m.key # GroupKey(g)
      <4> SUFFICES ASSUME NEW m \in ScoreItems(f, gone), m.key = GroupKey(g) PROVE FALSE
        OBVIOUS
      <4>1. ASSUME m \notin ByGroup(f) PROVE FALSE
        <5>1. \/ m = ShareOf("accuracy", f.right, Units)
              \/ m = ShareOf("answered_rate", Answered(f), Units)
              \/ m = Timing("avg_latency_ms", NUnits) \/ m = Timing("total_tokens", 0)
              \/ m = Timing("cost_usd", 0) \/ m = Unofficial("retry_count", retried)
              \/ m = Unofficial("retry_overhead_ms", 0)
          BY <4>1, AggregateOne DEF ScoreItems, AnsweredRate, Serving, When
        <5>2. m.key \in {"accuracy", "answered_rate", "avg_latency_ms", "total_tokens",
                         "cost_usd", "retry_count", "retry_overhead_ms"}
          BY <5>1, NumberFields DEF ShareOf
        <5>3. m.key \in {"accuracy.by_group.odd", "accuracy.by_group.even"}
          BY DEF GroupKey, Subjects
        <5> QED
          BY <5>2, <5>3
      <4>2. PICK h \in Subjects : m \in Aggregate(GroupKey(h), f.right, Of(h))
        BY <4>1 DEF ByGroup, When
      <4>3. m = ShareOf(GroupKey(h), f.right, Of(h)) /\ Of(h) # {}
        BY <4>2, AggregateOne
      <4>4. m.key = GroupKey(h)
        BY <4>3, NumberFields DEF ShareOf
      <4> QED
        BY <4>3, <4>4, <2>1 DEF GroupKey, Subjects
    <3> QED
      BY <2>1, <3>1, FS_EmptySet DEF Share, Keyed
  <2>2. CASE Of(g) # {}
    <3>1. ShareOf(GroupKey(g), f.right, Of(g)) \in scored.numbers
      BY <1>g, <2>2 DEF ScoreItems, ByGroup, When, Aggregate, ShareOf
    <3>2. ShareOf(GroupKey(g), f.right, Of(g)).key = GroupKey(g)
      BY NumberFields DEF ShareOf
    <3>3. GroupKey(g) \in Keyed /\ Value(GroupKey(g)) = ShareOf(GroupKey(g), f.right, Of(g))
      BY <3>1, <3>2, ValueOf
    <3> QED
      BY <3>3, NumberFields DEF Share, ShareOf
  <2> QED
    BY <2>1, <2>2
<1>4. "accuracy" \in Keyed =>
          /\ Value("accuracy").den = Cardinality({s.id[1] : s \in {t \in spans : t.usage}})
          /\ facts.grouped => \A part \in {"num", "den"} :
                Value("accuracy")[part] =
                    Share("accuracy.by_group.odd", part) + Share("accuracy.by_group.even", part)
          /\ suite = "items" => Value("accuracy").num <= Value("answered_rate").num
  <2> SUFFICES ASSUME "accuracy" \in Keyed
               PROVE  /\ Value("accuracy").den = Cardinality(Units)
                      /\ f.grouped => \A part \in {"num", "den"} :
                            Value("accuracy")[part] =
                                Share("accuracy.by_group.odd",
                                       part) + Share("accuracy.by_group.even", part)
                      /\ suite = "items" => Value("accuracy").num <= Value("answered_rate").num
    BY <1>1
  <2>1. /\ Value("accuracy").num = Cardinality(f.right \cap Units)
        /\ Value("accuracy").den = Cardinality(Units)
        /\ "rows" \notin gone
    BY <1>2, NumberFields DEF ShareOf
  <2>2. ASSUME f.grouped, NEW part \in {"num", "den"}
        PROVE  Value("accuracy")[part] =
                   Share("accuracy.by_group.odd", part) + Share("accuracy.by_group.even", part)
    <3>1. /\ Share("accuracy.by_group.odd", "num") = Cardinality(f.right \cap Of("odd"))
          /\ Share("accuracy.by_group.odd", "den") = Cardinality(Of("odd"))
          /\ Share("accuracy.by_group.even", "num") = Cardinality(f.right \cap Of("even"))
          /\ Share("accuracy.by_group.even", "den") = Cardinality(Of("even"))
      BY <2>1, <2>2, <1>g DEF Subjects, GroupKey
    <3>2. CASE part = "num"
      BY <3>1, <3>2, <2>1, <1>3, Split
    <3>3. CASE part = "den"
      <4>1. Units \cap Units = Units /\ Units \cap Of("odd") = Of("odd")
            /\ Units \cap Of("even") = Of("even")
        BY DEF Of
      <4>2. Cardinality(Units \cap Units) =
               Cardinality(Units \cap Of("odd")) + Cardinality(Units \cap Of("even"))
        BY Split
      <4> QED
        BY <3>1, <3>3, <2>1, <4>1, <4>2
    <3> QED
      BY <2>2, <3>2, <3>3
  <2>3. ASSUME suite = "items" PROVE Value("accuracy").num <= Value("answered_rate").num
    <3>1. ShareOf("answered_rate", Answered(f), Units) \in scored.numbers
      <4>1. Units # {}
        BY <1>t DEF Units
      <4> QED
        BY <2>3, <2>1, <1>3, <4>1 DEF ScoreItems, AnsweredRate, When, Aggregate, ShareOf
    <3>2. Value("answered_rate").num = Cardinality(f.answered \cap Units)
      <4>1. ShareOf("answered_rate", Answered(f), Units).key = "answered_rate"
            /\ ShareOf("answered_rate", Answered(f), Units).num = Cardinality(f.answered \cap Units)
        BY <2>3, NumberFields DEF ShareOf, Answered
      <4> QED
        BY <3>1, <4>1, ValueOf
    <3>3. IsFiniteSet(f.answered \cap Units) /\ f.right \cap Units \subseteq f.answered \cap Units
      BY <1>u, <1>3, FS_Intersection
    <3>4. Cardinality(f.right \cap Units) <= Cardinality(f.answered \cap Units)
      BY <3>3, FS_Subset
    <3> QED
      BY <3>2, <3>4, <2>1
  <2> QED
    BY <2>1, <2>2, <2>3
<1>5. "total_runtime_ms" \notin Keyed /\ "throughput_at_size" \notin Keyed
  BY InItems DEF Keyed
<1>6. ASSUME "retry_count" \in Keyed PROVE Value("retry_count").num = Len(requests) - NUnits
  <2>1. PICK m \in ScoreItems(f, gone) : m.key = "retry_count"
    BY <1>6 DEF Keyed
  <2>2. m.num = retried
    BY <2>1, InItems, NumberFields
  <2>3. retried = Len(requests) - NUnits
    BY LeavesAreSent
  <2> QED
    BY <2>1, <2>2, <2>3, ValueOf
<1> QED
  BY <1>4, <1>5, <1>6 DEF CountsTheWork

\* What the streams finished, added up.
LEMMA StreamSum ==
    ASSUME NEW h, h = [w \in 0 .. NStreams |-> IF w = 0 THEN 0 ELSE h[w - 1] + done[w]],
           \A w \in Streams : done[w] = NUnits
    PROVE  h[NStreams] = NStreams * NUnits
<1>n. NStreams \in Nat \ {0} /\ NUnits \in Nat \ {0}
  BY UnitsAssumption
<1> DEFINE T == {w \in 0 .. NStreams : h[w] # w * NUnits}
<1>1. T \in SUBSET Nat
  OBVIOUS
<1>2. CASE T # {}
  <2>1. PICK n \in T : \A m \in T : n <= m
    BY <1>1, <1>2, Least
  <2>2. h[0] = 0
    BY <1>n
  <2>3. n \in 0 .. NStreams /\ h[n] # n * NUnits /\ 0 * NUnits = 0
    BY <2>1, <1>n
  <2>9. n # 0
    BY <2>2, <2>3
  <2>4. n \in 1 .. NStreams /\ n - 1 \in 0 .. NStreams /\ n - 1 \in Nat /\ n \in Nat
        /\ n - 1 < n
    BY <2>3, <2>9, <1>n
  <2>5. n - 1 \notin T
    BY <2>1, <2>4
  <2>6. h[n - 1] = (n - 1) * NUnits
    BY <2>4, <2>5
  <2>7. h[n] = h[n - 1] + done[n] /\ done[n] = NUnits
    BY <2>4 DEF Streams
  <2>8. (n - 1) * NUnits + NUnits = n * NUnits
    BY <2>4, <1>n
  <2> QED
    BY <2>3, <2>6, <2>7, <2>8
<1> QED
  BY <1>2, <1>n

\* So the throughput test counted every query of every stream.
LEMMA StreamCount ==
    ASSUME \A w \in Streams : done[w] = NUnits
    PROVE  LET f[w \in 0 .. NStreams] == IF w = 0 THEN 0 ELSE f[w - 1] + done[w] IN
           f[NStreams] = NStreams * NUnits
<1>n. NStreams \in Nat \ {0} /\ NUnits \in Nat \ {0}
  BY UnitsAssumption
<1> DEFINE g == [w \in 0 .. NStreams |-> w * NUnits]
           f[w \in 0 .. NStreams] == IF w = 0 THEN 0 ELSE f[w - 1] + done[w]
<1>1. g = [w \in 0 .. NStreams |-> IF w = 0 THEN 0 ELSE g[w - 1] + done[w]]
  <2> SUFFICES ASSUME NEW w \in 0 .. NStreams
               PROVE  w * NUnits = IF w = 0 THEN 0 ELSE g[w - 1] + done[w]
    OBVIOUS
  <2>1. CASE w = 0
    BY <2>1, <1>n
  <2>2. CASE w # 0
    <3>0. w \in 1 .. NStreams /\ w - 1 \in 0 .. NStreams
      BY <2>2, <1>n
    <3>1. g[w - 1] = (w - 1) * NUnits /\ done[w] = NUnits
      BY <3>0 DEF Streams
    <3>2. (w - 1) * NUnits + NUnits = w * NUnits
      BY <1>n
    <3> QED
      BY <2>2, <3>1, <3>2
  <2> QED
    BY <2>1, <2>2
<1>2. f = [w \in 0 .. NStreams |-> IF w = 0 THEN 0 ELSE f[w - 1] + done[w]]
  BY <1>1
<1> QED
  BY <1>2, StreamSum


\* The published run was whole.
LEMMA PublishedIsWhole ==
    ASSUME SuiteInv, outcome = "bundle", env
    PROVE  /\ Whole /\ pending = "" /\ Len(acid) \in Nat /\ Len(acid) <= 4
           /\ suite \in ChatSuites => Served
<1>1. Whole /\ pending = ""
  BY DEF SuiteInv, StageInv, WholeInv, Through
<1>2. Len(acid) \in Nat /\ Len(acid) <= 4
  BY DEF SuiteInv, TpcType, WorkInv
<1>3. ASSUME suite \in ChatSuites PROVE Served
  <2>2. pos = NUnits \/ pos = 2 * NUnits
    BY <1>3, <1>1 DEF Whole, ChatSuites, Official
  <2>3. NUnits \in Nat \ {0}
    BY UnitsAssumption
  <2>4. pos >= NUnits /\ K = NUnits
    BY <2>2, <2>3 DEF K
  <2> QED
    BY <1>3, <1>1, <2>4 DEF SuiteInv, RequestInv, Served
<1> QED
  BY <1>1, <1>2, <1>3

\* The denominators of the other suites.
LEMMA WorkCounted ==
    ASSUME Whole, suite \in Suites \ Stored, suite \notin ChatSuites, NEW gone,
           Len(acid) \in Nat, Len(acid) <= 4,
           Distinct(scored.numbers), scored.numbers = ScoreOf(facts, gone)
    PROVE  CountsTheWork
<1>1. CASE suite = "queries"
  <2>1. pos = NUnits
    BY <1>1 DEF Whole, Official
  <2>2. scored.numbers = ScoreQueries(facts, gone)
    BY <1>1, ScoreCases
  <2>3. "accuracy" \notin Keyed /\ "throughput_at_size" \notin Keyed
    BY <2>2, InQueries DEF Keyed
  <2>4. "total_runtime_ms" \in Keyed => Value("total_runtime_ms").n = NUnits
    BY <2>2, InQueries, ByKey, NumberFields
  <2> QED
    BY <2>1, <2>3, <2>4 DEF CountsTheWork
<1>2. CASE suite = "official"
  <2>1. \A w \in Streams : done[w] = NUnits
    BY <1>2 DEF Whole, Official, OfficialWhole
  <2>2. scored.numbers = ScoreQphH(facts, gone)
    BY <1>2, ScoreCases
  <2>3. \A i \in 1 .. Len(acid) :
            AcidKey[i] \notin {"accuracy", "total_runtime_ms", "throughput_at_size"}
    BY AcidKeys
  <2>4. "accuracy" \notin Keyed /\ "total_runtime_ms" \notin Keyed
    BY <2>2, <2>3, InQphH DEF Keyed
  <2>5. ASSUME "throughput_at_size" \in Keyed
        PROVE  Value("throughput_at_size").num = NStreams * NUnits
    <3>1. Value("throughput_at_size") \in ScoreQphH(facts, gone)
          /\ Value("throughput_at_size").key = "throughput_at_size"
      BY <2>2, <2>5, ByKey
    <3>2. Value("throughput_at_size") = Number("throughput_at_size", NStreams * done[1], 1, 0)
      BY <3>1, <2>3, InQphH
    <3>3. 1 \in Streams
      BY UnitsAssumption DEF Streams
    <3> QED
      BY <3>2, <3>3, <2>1, NumberFields
  <2>6. LET f[w \in 0 .. NStreams] == IF w = 0 THEN 0 ELSE f[w - 1] + done[w] IN
        f[NStreams] = NStreams * NUnits
    BY <2>1, StreamCount
  <2> QED
    BY <2>4, <2>5, <2>6 DEF CountsTheWork
<1>3. CASE suite \in {"officialds", "swe", "tpcc", "ycsb"}
  <2>1. \A m \in scored.numbers :
            m.key \notin {"accuracy", "total_runtime_ms", "throughput_at_size"}
    <3>1. suite = "officialds" => \A m \in scored.numbers :
              m.key \notin {"accuracy", "total_runtime_ms", "throughput_at_size"}
      <4>1. \A i \in 1 .. Len(acid) :
                AcidKey[i] \notin {"accuracy", "total_runtime_ms", "throughput_at_size"}
        BY AcidKeys
      <4>2. suite = "officialds" => scored.numbers = ScoreQphDS(facts, gone)
        BY ScoreCases
      <4> QED
        BY <4>1, <4>2, InQphDS
    <3>2. suite = "swe" => \A m \in scored.numbers :
              m.key \notin {"accuracy", "total_runtime_ms", "throughput_at_size"}
      BY ScoreCases, InSwe
    <3>3. suite = "tpcc" => \A m \in scored.numbers :
              m.key \notin {"accuracy", "total_runtime_ms", "throughput_at_size"}
      BY ScoreCases, InTpcc
    <3>4. suite = "ycsb" => \A m \in scored.numbers :
              m.key \notin {"accuracy", "total_runtime_ms", "throughput_at_size"}
      BY ScoreCases, InYcsb
    <3> QED
      BY <1>3, <3>1, <3>2, <3>3, <3>4
  <2>2. "accuracy" \notin Keyed /\ "total_runtime_ms" \notin Keyed
        /\ "throughput_at_size" \notin Keyed
    BY <2>1 DEF Keyed
  <2> QED
    BY <2>2 DEF CountsTheWork
<1> QED
  BY <1>1, <1>2, <1>3, ScoredSuites

\* Which numbers are the benchmark's own.
LEMMA WhoseNumber ==
    /\ \A k, a, b, c : Number(k, a, b, c).official = TRUE
    /\ \A k, c : Timing(k, c).official = TRUE
    /\ \A k, p, c : ShareOf(k, p, c).official = TRUE
    /\ \A k, a : Unofficial(k, a).official = FALSE
  BY DEF Number, Timing, Unofficial, ShareOf

\* A retry is claimed where there was one.
LEMMA RetriesClaimed ==
    ASSUME suite \in Suites \ Stored, NEW gone, Len(acid) \in Nat, Len(acid) <= 4,
           scored.numbers = ScoreOf(facts, gone)
    PROVE  /\ \A m \in scored.numbers : ~m.official => suite \in ChatSuites /\ tries > 1
           /\ "retry_count" \in Keyed => suite \in ChatSuites
<1>1. CASE suite \in ChatSuites
  <2>1. scored.numbers = ScoreItems(facts, gone)
    BY <1>1, ScoreCases
  <2>2. ASSUME NEW m \in ScoreItems(facts, gone), m.official # TRUE PROVE tries > 1
    <3>3. ASSUME ~Enabled PROVE FALSE
      <4>1. \/ m \in Aggregate("accuracy", facts.right, Units)
            \/ m \in ByGroup(facts) \/ m \in AnsweredRate(facts)
            \/ m \in {Timing("avg_latency_ms", NUnits), Timing("total_tokens", 0),
                      Timing("cost_usd", 0)}
        BY <3>3, <2>2 DEF ScoreItems, Serving, When
      <4>2. (\E k, c : m = Timing(k, c)) \/ \E k, p, c : m = ShareOf(k, p, c)
        BY <4>1, AggregateOne DEF ByGroup, AnsweredRate, When
      <4>3. m.official = TRUE
        BY <4>2, WhoseNumber
      <4> QED
        BY <4>3, <2>2
    <3> QED
      BY <3>3 DEF Enabled
  <2> QED
    BY <1>1, <2>1, <2>2
<1>2. CASE suite \notin ChatSuites
  <2>1. \A i \in 1 .. Len(acid) : AcidKey[i] # "retry_count" /\ Verdict(i).official = TRUE
    BY AcidKeys, WhoseNumber DEF Verdict
  <2>2. suite \in {"queries", "official", "officialds", "swe", "tpcc", "ycsb"}
    BY <1>2, ScoredSuites
  <2>3. \A m \in scored.numbers : m.official = TRUE /\ m.key # "retry_count"
    <3>1. suite = "queries" => \A m \in scored.numbers : m.official = TRUE /\ m.key # "retry_count"
      BY ScoreCases, InQueries, WhoseNumber
    <3>2. suite = "official" => \A m \in scored.numbers : m.official = TRUE /\ m.key # "retry_count"
      BY <2>1, ScoreCases, InQphH, WhoseNumber
    <3>3. suite = "officialds" => \A m \in scored.numbers : m.official = TRUE
          /\ m.key # "retry_count"
      BY <2>1, ScoreCases, InQphDS, WhoseNumber
    <3>4. suite = "swe" => \A m \in scored.numbers : m.official = TRUE /\ m.key # "retry_count"
      BY ScoreCases, InSwe, WhoseNumber
    <3>5. suite = "tpcc" => \A m \in scored.numbers : m.official = TRUE /\ m.key # "retry_count"
      BY ScoreCases, InTpcc, WhoseNumber
    <3>6. suite = "ycsb" => \A m \in scored.numbers : m.official = TRUE /\ m.key # "retry_count"
      BY ScoreCases, InYcsb, WhoseNumber
    <3> QED
      BY <2>2, <3>1, <3>2, <3>3, <3>4, <3>5, <3>6
  <2> QED
    BY <1>2, <2>3 DEF Keyed
<1> QED
  BY <1>1, <1>2

\* What a suite other than a chat suite claims.
LEMMA ClaimsOfOthers ==
    ASSUME SuiteInv, SnapInv, Whole, suite \in Suites \ Stored, NEW gone, facts \in Facts,
           Distinct(scored.numbers), scored.numbers = ScoreOf(facts, gone)
    PROVE  /\ "completed_under_disruption" \in Keyed => timer \in {"closing", "fired"} /\ stats.at > 0
           /\ "cost_per_resolved" \in Keyed => Value("resolved").num > 0
           /\ \A i \in 1 .. Len(acid) : AcidKey[i] \in Keyed => acid[i] \in {"pass", "fail"}
<1>a. /\ \A i \in 1 .. Len(acid) : AcidKey[i] \in
                {"acid_atomicity", "acid_consistency", "acid_isolation", "acid_durability"}
      /\ \A i, j \in 1 .. Len(acid) : AcidKey[i] = AcidKey[j] => i = j
  BY AcidKeys DEF SuiteInv, TpcType, WorkInv
<1>k. /\ suite \in ChatSuites => \A m \in scored.numbers :
            m.key \in {"accuracy", "accuracy.by_group.odd", "accuracy.by_group.even",
                       "answered_rate", "avg_latency_ms", "total_tokens", "cost_usd",
                       "retry_count", "retry_overhead_ms"}
      /\ suite = "queries" => \A m \in scored.numbers :
            m.key \in {"total_runtime_ms", "geomean_latency_ms", "queries_passed"}
      /\ suite = "official" => \A m \in scored.numbers :
            \/ m.key \in {"load_time_s", "power_at_size", "throughput_at_size", "qphh_at_size"}
            \/ m \in Verdicts
      /\ suite = "officialds" => \A m \in scored.numbers :
            \/ m.key \in {"load_time_s", "power_test_s", "throughput_test_s",
                          "maintenance_test_s", "qphds_at_size", "queries_passed"}
            \/ m \in Verdicts
      /\ suite = "swe" => \A m \in scored.numbers : m.key \in {"resolved", "cost_per_resolved"}
      /\ suite = "tpcc" => \A m \in scored.numbers :
            m.key \in {"throughput_req_per_sec", "p99_latency_us", "goodput_req_per_sec",
                       "goodput_ratio", "tpmc_estimate"}
      /\ suite = "ycsb" => \A m \in scored.numbers :
            m.key \in {"throughput_ops", "read_p99_us", "completed_under_disruption", "ops_ok",
                       "ops_failed", "error_rate"}
  <2>1. suite \in ChatSuites => \A m \in scored.numbers :
            m.key \in {"accuracy", "accuracy.by_group.odd", "accuracy.by_group.even",
                       "answered_rate", "avg_latency_ms", "total_tokens", "cost_usd",
                       "retry_count", "retry_overhead_ms"}
    BY ScoreCases, InItems
  <2>2. suite = "queries" => \A m \in scored.numbers :
            m.key \in {"total_runtime_ms", "geomean_latency_ms", "queries_passed"}
    BY ScoreCases, InQueries
  <2>3. suite = "official" => \A m \in scored.numbers :
            \/ m.key \in {"load_time_s", "power_at_size", "throughput_at_size", "qphh_at_size"}
            \/ m \in Verdicts
    <3>1. \A m \in ScoreQphH(facts, gone) :
            \/ m \in Verdicts
            \/ m = Timing("load_time_s", 0) \/ m = Timing("power_at_size", 0)
            \/ m = Number("throughput_at_size", NStreams * done[1], 1, 0)
            \/ m = Timing("qphh_at_size", 0)
      BY DEF ScoreQphH, When
    <3> QED
      BY <3>1, ScoreCases, NumberFields
  <2>4. suite = "officialds" => \A m \in scored.numbers :
            \/ m.key \in {"load_time_s", "power_test_s", "throughput_test_s",
                          "maintenance_test_s", "qphds_at_size", "queries_passed"}
            \/ m \in Verdicts
    <3>1. \A m \in ScoreQphDS(facts, gone) :
            \/ m \in Verdicts
            \/ m \in Aggregate("queries_passed", facts.right, facts.ref)
            \/ \E k \in {"load_time_s", "power_test_s", "throughput_test_s",
                         "maintenance_test_s", "qphds_at_size"} : m = Timing(k, 0)
      BY DEF ScoreQphDS, When
    <3>2. \A m \in Aggregate("queries_passed", facts.right, facts.ref) : m.key = "queries_passed"
      <4> SUFFICES ASSUME NEW m \in Aggregate("queries_passed", facts.right, facts.ref)
                   PROVE  m.key = "queries_passed"
        OBVIOUS
      <4>1. m = ShareOf("queries_passed", facts.right, facts.ref)
        BY AggregateOne
      <4> QED
        BY <4>1, NumberFields DEF ShareOf
    <3> QED
      BY <3>1, <3>2, ScoreCases, NumberFields
  <2>5. suite = "swe" => \A m \in scored.numbers : m.key \in {"resolved", "cost_per_resolved"}
    BY ScoreCases, InSwe
  <2>6. suite = "tpcc" => \A m \in scored.numbers :
            m.key \in {"throughput_req_per_sec", "p99_latency_us", "goodput_req_per_sec",
                       "goodput_ratio", "tpmc_estimate"}
    BY ScoreCases, InTpcc
  <2>7. suite = "ycsb" => \A m \in scored.numbers :
            m.key \in {"throughput_ops", "read_p99_us", "completed_under_disruption", "ops_ok",
                       "ops_failed", "error_rate"}
    BY ScoreCases, InYcsb
  <2> QED
    BY <2>1, <2>2, <2>3, <2>4, <2>5, <2>6, <2>7
<1>v. \A m \in Verdicts : \E i \in 1 .. Len(acid) :
          acid[i] \in {"pass", "fail"} /\ m.key = AcidKey[i]
  BY VerdictKeys, NumberFields DEF Verdict
<1>1. ASSUME "completed_under_disruption" \in Keyed PROVE timer \in {"closing", "fired"} /\ stats.at > 0
  <2>1. PICK m \in scored.numbers : m.key = "completed_under_disruption"
    BY <1>1 DEF Keyed
  <2>2. suite = "ycsb"
    <3>1. m \notin Verdicts
      BY <2>1, <1>a, <1>v
    <3> QED
      BY <2>1, <3>1, <1>k, ScoredSuites
  <2>3. Disrupted
    <3>1. m \in ScoreYcsb(facts, gone)
      BY <2>1, <2>2, ScoreCases
    <3>2. \/ m \in When("summary" \notin gone /\ Disrupted,
                        {Number("completed_under_disruption", 1, 1, 0)})
          \/ m = Timing("throughput_ops", 0) \/ m = Timing("read_p99_us", 0)
          \/ m = Number("ops_ok", Cardinality(facts.right), 1, 0)
          \/ m = Number("ops_failed", NUnits - Cardinality(facts.right), 1, 0)
          \/ m = Number("error_rate", NUnits - Cardinality(facts.right), NUnits, 0)
      BY <3>1 DEF ScoreYcsb, When
    <3>3. m \in When("summary" \notin gone /\ Disrupted,
                     {Number("completed_under_disruption", 1, 1, 0)})
      BY <3>2, <2>1, NumberFields
    <3> QED
      BY <3>3 DEF When
  <2>4. snap.at > 0
    BY <2>3 DEF Disrupted
  <2>5. Proxied
    BY <2>4 DEF SnapInv
  <2>6. step = "stopped"
    BY <2>2 DEF Whole, Official
  <2>7. snap \in Counters
    BY DEF SuiteInv, DisType
  <2>8. snap.at = stats.at /\ stats.at = (IF timer \in {"closing", "fired"} THEN 1 ELSE 0)
    BY <2>4, <2>5, <2>6, <2>7 DEF SuiteInv, StatsInv, Counters
  <2> QED
    BY <2>4, <2>8
<1>2. ASSUME "cost_per_resolved" \in Keyed PROVE Value("resolved").num > 0
  <2>1. PICK m \in scored.numbers : m.key = "cost_per_resolved"
    BY <1>2 DEF Keyed
  <2>2. suite = "swe"
    <3>1. m \notin Verdicts
      BY <2>1, <1>a, <1>v
    <3> QED
      BY <2>1, <3>1, <1>k, ScoredSuites
  <2>3. m \in ScoreSwe(facts, gone)
    BY <2>1, <2>2, ScoreCases
  <2>4. Cardinality(facts.right) > 0 /\ "results" \notin gone
    <3>1. \/ m = Number("resolved", Cardinality(facts.right), NUnits, 0)
          \/ Cardinality(facts.right) > 0
      BY <2>3 DEF ScoreSwe, When
    <3>2. "results" \notin gone
      BY <2>3 DEF ScoreSwe, When
    <3> QED
      BY <3>1, <3>2, <2>1, NumberFields
  <2>5. Number("resolved", Cardinality(facts.right), NUnits, 0) \in scored.numbers
    BY <2>2, <2>4, ScoreCases DEF ScoreSwe, When
  <2>6. Value("resolved") = Number("resolved", Cardinality(facts.right), NUnits, 0)
    BY <2>5, ValueOf, NumberFields
  <2> QED
    BY <2>4, <2>6, NumberFields
<1>3. ASSUME NEW i \in 1 .. Len(acid), AcidKey[i] \in Keyed PROVE acid[i] \in {"pass", "fail"}
  <2>1. PICK m \in scored.numbers : m.key = AcidKey[i]
    BY <1>3 DEF Keyed
  <2>2. m \in Verdicts
    <3>1. m.key \in {"acid_atomicity", "acid_consistency", "acid_isolation", "acid_durability"}
      BY <2>1, <1>a
    <3> QED
      BY <3>1, <1>k, ScoredSuites
  <2> QED
    BY <2>1, <2>2, <1>v, <1>a
<1> QED
  BY <1>1, <1>2, <1>3

\* A published record is honest.
LEMMA PublishedIsHonest ==
    ASSUME SuiteInv, SnapInv, ScoreInv, scored.how = "scored"
    PROVE  CountsTheWork /\ OmitsOnly /\ ClaimsAreEarned
<1>1. /\ outcome = "bundle" /\ env /\ suite \in Suites \ Stored /\ facts \in Facts
      /\ scored.numbers = ScoreOf(facts, lost)
  BY DEF ScoreInv, Graded, SuiteInv, RunnerType, FlagsType
<1>2. /\ Whole /\ Len(acid) \in Nat /\ Len(acid) <= 4
      /\ suite \in ChatSuites => Served
  BY <1>1, PublishedIsWhole
<1>3. Distinct(scored.numbers)
  BY <1>1, <1>2, ScoreDistinct
<1>4. OmitsOnly
  BY <1>1, ScoreOmits DEF OmitsOnly
<1>5. suite \in ChatSuites =>
          CountsTheWork
          /\ ("retry_count" \in Keyed => Value("retry_count").num = Len(requests) - NUnits)
  BY <1>1, <1>2, <1>3, ItemsCount, ScoreCases
<1>6. suite \notin ChatSuites => CountsTheWork
  BY <1>1, <1>2, <1>3, WorkCounted
<1>7. /\ \A m \in scored.numbers : ~m.official => suite \in ChatSuites /\ tries > 1
      /\ "retry_count" \in Keyed => suite \in ChatSuites
  BY <1>1, <1>2, RetriesClaimed
<1>8. /\ "completed_under_disruption" \in Keyed => timer \in {"closing", "fired"} /\ stats.at > 0
      /\ "cost_per_resolved" \in Keyed => Value("resolved").num > 0
      /\ \A i \in 1 .. Len(acid) : AcidKey[i] \in Keyed => acid[i] \in {"pass", "fail"}
  BY <1>1, <1>2, <1>3, ClaimsOfOthers
<1>9. \A m, o \in scored.numbers : m.key = o.key => m = o
  BY <1>3 DEF Distinct
<1>10. ClaimsAreEarned
  BY <1>5, <1>7, <1>8, <1>9 DEF ClaimsAreEarned
<1> QED
  BY <1>4, <1>5, <1>6, <1>10

\* What every step leaves of the plan, of the proxy's copied evidence and of the numbers.
LEMMA ScoreFrame ==
    ASSUME [Next]_vars
    PROVE  /\ UNCHANGED <<suite, plan>>
           /\ UNCHANGED snap \/ step = "join"
           /\ UNCHANGED scoreVars \/ Score
           /\ stage = "over" => UNCHANGED <<runnerVars, tpcVars, snap>>
<1>1. CASE UNCHANGED vars
  BY <1>1 DEF vars, runnerVars, disVars, scoreVars
<1>2. CASE Solo
  <2>1. stage # "over"
    BY <1>2 DEF Solo, SuiteStep, MockArtifacts, Prepare, PrepareFails, Teardown, StageCopy,
        CopyFails, Validate, Connect, Drop, Query, WriteQueries, WriteRows, WriteConfig,
        BenchBase, Refuses, Solve, Harness, ExecuteCandidate, ChatAnswers, ChatRetries,
        ChatFails, Chatting, Running
  <2>2. UNCHANGED <<suite, disVars, After>>
    BY <1>2, SoloFrame DEF Solo
  <2> QED
    BY <2>1, <2>2 DEF disVars, After
<1>3. CASE Tpc
  <2>1. stage = "run" /\ UNCHANGED <<suite, disVars, After>>
    BY <1>3, TpcFrame DEF Tpc
  <2> QED
    BY <2>1 DEF disVars, After
<1>4. CASE Dis
  <2>1. stage = "run" /\ UNCHANGED <<suite, plan>> /\ (UNCHANGED snap \/ step = "join")
    BY <1>4 DEF Dis, DisStep, LoadPhase, ArmAndRun, ToolExits, CancelTimer, JoinAndSnapshot,
       RaiseClosing, TakeAll, ProxyStopped, SealYcsb, Benching, Running, Rest
  <2>2. UNCHANGED After
    BY <1>4 DEF Dis
  <2> QED
    BY <2>1, <2>2 DEF After
<1>5. CASE Proxy
  <2>1. UNCHANGED <<runnerVars, tpcVars, plan, snap>>
    BY <1>5, ProxyFrame
  <2>2. UNCHANGED After
    BY <1>5 DEF Proxy
  <2> QED
    BY <2>1, <2>2 DEF After, runnerVars
<1>6. CASE RequestCancel /\ UNCHANGED <<tpcVars, disVars, After>>
  BY <1>6, CancelFrame DEF disVars, After
<1>7. CASE Score /\ UNCHANGED <<runnerVars, tpcVars, disVars, traceVars, judgeVars>>
  BY <1>7 DEF runnerVars, disVars
<1>8. CASE TraceStep /\ UNCHANGED <<runnerVars, tpcVars, disVars, scoreVars, judgeVars>>
  BY <1>8 DEF runnerVars, disVars
<1>9. CASE JudgeStep /\ UNCHANGED <<runnerVars, tpcVars, disVars, scoreVars, traceVars>>
  BY <1>9 DEF runnerVars, disVars
<1> QED
  BY <1>1, <1>2, <1>3, <1>4, <1>5, <1>6, <1>7, <1>8, <1>9 DEF Next

\* The numbers are published of a run that is over, and never again.
LEMMA ScoreKeeps ==
    ASSUME SuiteInv, SnapInv, ScoreInv, [Next]_vars
    PROVE  SnapInv' /\ ScoreInv'
<1>1. /\ UNCHANGED <<suite, plan>>
      /\ UNCHANGED snap \/ step = "join"
      /\ UNCHANGED scoreVars \/ Score
      /\ stage = "over" => UNCHANGED <<runnerVars, tpcVars, snap>>
  BY ScoreFrame
<1>2. SnapInv'
  <2>1. ~Proxied => step # "join"
    BY DEF SuiteInv, RelayInv
  <2> QED
    BY <1>1, <2>1 DEF SnapInv, Proxied
<1>3. Facts' = Facts /\ Artifacts' = Artifacts
  BY <1>1 DEF Facts, Artifacts, Units
<1>4. stage = "over" => UNCHANGED <<stage, outcome, env, Inputs>>
  BY <1>1 DEF runnerVars, tpcVars, Inputs
<1>5. stage = "over" => ScoreOf(facts, lost)' = ScoreOf(facts', lost')
  BY <1>4, ScoreSame
<1>6. CASE UNCHANGED scoreVars
  <2>1. UNCHANGED <<facts, lost, scored>>
    BY <1>6 DEF scoreVars
  <2>2. ASSUME scored.how = "scored" PROVE Graded'
    <3>1. stage = "over" /\ scored.numbers = ScoreOf(facts, lost)
      BY <2>2 DEF ScoreInv, Graded
    <3>2. ScoreOf(facts, lost)' = ScoreOf(facts, lost)
      BY <2>1, <3>1, <1>5
    <3> QED
      BY <2>1, <3>1, <3>2 DEF Graded
  <2>3. ASSUME scored.how = "scored"
        PROVE  /\ stage' = "over" /\ outcome' = "bundle" /\ env' /\ suite' \notin Stored
               /\ facts' \in Facts' /\ lost' \subseteq Artifacts'
    <3>1. /\ stage = "over" /\ outcome = "bundle" /\ env /\ suite \notin Stored
          /\ facts \in Facts /\ lost \subseteq Artifacts
      BY <2>3 DEF ScoreInv
    <3>2. stage' = stage /\ outcome' = outcome /\ env' = env /\ suite' = suite
      BY <3>1, <1>1, <1>4
    <3> QED
      BY <3>1, <3>2, <2>1, <1>3
  <2>4. scored'.how = "scored" => scored.how = "scored"
    BY <2>1
  <2> QED
    BY <1>2, <2>2, <2>3, <2>4 DEF ScoreInv
<1>7. CASE Score
  <2>1. stage = "over" /\ outcome = "bundle" /\ env /\ suite \notin Stored
    BY <1>7 DEF Score
  <2>2. PICK f \in Facts, gone \in SUBSET Artifacts :
            /\ facts' = f /\ lost' = gone
            /\ scored' = IF ScoreRaises(f, gone) THEN [how |-> "raised", numbers |-> {}]
                         ELSE [how |-> "scored", numbers |-> ScoreOf(f, gone)]
    BY <1>7 DEF Score
  <2>3. scored'.how = "scored" => scored'.numbers = ScoreOf(facts', lost')
    BY <2>2
  <2>4. scored'.how = "scored" => Graded'
    BY <2>1, <2>3, <1>5 DEF Graded
  <2>5. /\ stage' = "over" /\ outcome' = "bundle" /\ env' /\ suite' \notin Stored
        /\ facts' \in Facts' /\ lost' \subseteq Artifacts'
    <3>2. stage' = stage /\ outcome' = outcome /\ env' = env /\ suite' = suite
      BY <2>1, <1>1, <1>4
    <3> QED
      BY <2>1, <2>2, <3>2, <1>3
  <2> QED
    BY <1>2, <2>4, <2>5 DEF ScoreInv
<1> QED
  BY <1>1, <1>2, <1>6, <1>7

\* Every number of a record is about the work its run did, losing an artifact takes numbers
\* away and changes none, and no record claims a retry, a disruption or a verdict it has not had.
THEOREM SuitesScoresAreHonest == Spec => []ScoresAreHonest
<1>1. Init => SnapInv /\ ScoreInv
  BY DEF Init, DisInit, NoStats, ScoreInit, NotYet, SnapInv, ScoreInv
<1>2. SuiteInv /\ SnapInv /\ ScoreInv /\ [Next]_vars => SnapInv' /\ ScoreInv'
  BY ScoreKeeps
<1>3. SuiteInv /\ SnapInv /\ ScoreInv => ScoresAreHonest
  BY PublishedIsHonest DEF ScoresAreHonest
<1> QED
  BY SuiteInductive, <1>1, <1>2, <1>3, PTL DEF Spec

(***************************************************************************)
(* The judge, its two scorers and their cache.                             *)
(***************************************************************************)
\* Its type.
AskRecords ==
    [judge : BOOLEAN, cached : BOOLEAN, at : {"new", "item", "flush", "rename", "done", "dead"},
     reply : Replies \cup {"none"}, mem : [Prompts -> Replies \cup {"none"}],
     got : Seq(Verdicts2), scores : Seq(Verdicts2 \cup {"skip", "error"}),
     met : SUBSET Scorers, after : SUBSET Scorers]
\* The type of every variable of the judges.
JudgeType ==
    /\ job \in [items : {0, 1, 2}, samples : {1, 3}] /\ (suite = "judged" => job.items # 0)
    /\ ask \in [Scorers -> AskRecords]
    /\ cache \in [Prompts -> Replies \cup {"none"}]
    /\ draft = << >> \/ \E m \in [Prompts -> Replies \cup {"none"}] : draft = <<m>>
    /\ calls \in [Scorers -> [Prompts -> Nat]]

\* A scorer that has not begun, and what one that is at work is about to score.
Unbegun(s) ==
    /\ ask[s].mem = Empty /\ ask[s].got = << >> /\ ask[s].scores = << >>
    /\ ask[s].met = {} /\ ask[s].after = {} /\ \A p \in Prompts : calls[s][p] = 0
AtWork(s) ==
    /\ Len(ask[s].scores) < job.items /\ Len(ask[s].got) < job.samples
    /\ ask[s].at \in {"flush", "rename"} => ask[s].reply = ask[s].mem[Item(s)]
       /\ ask[s].reply # "none"
    /\ ask[s].cached => \A i \in DOMAIN ask[s].got : ask[s].got[i] = ask[s].mem[Item(s)]
    /\ ~ask[s].cached =>
          /\ ask[s].at = "item" /\ (ask[s].judge => calls[s][Item(s)] = Len(ask[s].got))
          /\ \A p \in Prompts : p > Item(s) => calls[s][p] = 0
\* The calls a scorer has made.
CallsInv(s) ==
    /\ ask[s].cached => ask[s].judge
    /\ ask[s].cached => \A p \in Prompts :
          calls[s][p] <= 1 /\ (calls[s][p] > 0 => ask[s].mem[p] # "none")
    /\ ~ask[s].cached => ask[s].mem = Empty
    /\ ~ask[s].judge => ask[s].got = << >> /\ \A p \in Prompts : calls[s][p] = 0
\* The scores it has given.
ScoresInv(s) ==
    /\ Len(ask[s].scores) <= job.items
    /\ \A k \in DOMAIN ask[s].scores :
          /\ ask[s].scores[k] \in Verdicts2 =>
                IF ask[s].cached THEN ask[s].mem[k] = ask[s].scores[k]
                ELSE calls[s][k] = job.samples
          /\ ask[s].scores[k] = "error" => ask[s].mem[k] \in {"none", "junk"} \/ ask[s].met # {}
          /\ ~ask[s].judge => ask[s].scores[k] = "skip"
\* What holds of one scorer, whatever step it is at.
ScorerInv(s) ==
    /\ ask[s].at = "new" => Unbegun(s)
    /\ Busy(s) => AtWork(s)
    /\ CallsInv(s) /\ ScoresInv(s)

\* Who ran with whom, and who after whom.
MetInv ==
    /\ \A s \in Scorers : s \notin ask[s].met /\ s \notin ask[s].after
    /\ \A s, t \in Scorers :
          /\ t \in ask[s].met => s \in ask[t].met
          /\ s # t /\ Busy(s) /\ Busy(t) => t \in ask[s].met
          /\ ask[t].at = "new" => t \notin ask[s].met \cup ask[s].after
          /\ t \in ask[s].after => t \notin ask[s].met /\ ask[t].at \in {"done", "dead"}

\* Everything in a cache was paid for.
Paid(p) == \E s \in Scorers : ask[s].cached /\ calls[s][p] > 0
SourceInv ==
    \A p \in Prompts :
        /\ cache[p] # "none" => Paid(p)
        /\ draft # << >> /\ draft[1][p] # "none" => Paid(p)
        /\ \A s \in Scorers : ask[s].cached /\ ask[s].mem[p] # "none" => Paid(p)

\* A scorer nobody met holds what the cache file holds, and the reply it is putting away; and
\* what it has scored is in the file.
AloneInv ==
    \A s \in Scorers : ask[s].cached /\ ask[s].met = {} =>
        /\ Busy(s) => \A p \in Prompts :
              ask[s].at = "item" \/ p # Item(s) => ask[s].mem[p] = cache[p]
        /\ ask[s].at = "rename" => draft = <<ask[s].mem>>
        /\ \A p \in Prompts : p \in Judged(s) => cache[p] # "none"
\* A scorer finds what the ones before it have scored.
AfterInv ==
    \A s, t \in Scorers : t \in ask[s].after /\ ask[s].cached /\ ask[t].cached =>
        \A p \in Prompts : p \in Judged(t) => ask[s].mem[p] # "none" /\ calls[s][p] = 0

\* The inductive invariant of the judges: each one's own state, where its cache came from,
\* and what those that met nobody know.
JudgeInv ==
    /\ JudgeType /\ MetInv /\ SourceInv /\ AloneInv /\ AfterInv
    /\ \A s \in Scorers : ScorerInv(s)

\* What a sequence is after one more element.
LEMMA OneMore ==
    ASSUME NEW S, NEW q \in Seq(S), NEW e \in S
    PROVE  /\ Append(q, e) \in Seq(S) /\ Len(Append(q, e)) = Len(q) + 1
           /\ DOMAIN Append(q, e) = 1 .. Len(q) + 1 /\ DOMAIN q = 1 .. Len(q) /\ Len(q) \in Nat
           /\ \A i \in 1 .. Len(q) : Append(q, e)[i] = q[i]
           /\ Append(q, e)[Len(q) + 1] = e
  OBVIOUS

\* The majority of some verdicts is one of them.
LEMMA MajorityIsOne ==
    ASSUME NEW got \in Seq(Verdicts2), got # << >>
    PROVE  \E i \in DOMAIN got : Majority(got) = got[i]
<1> DEFINE Votes(v) == Cardinality({i \in DOMAIN got : got[i] = v})
           First(i) == /\ \A v \in Verdicts2 : Votes(v) <= Votes(got[i])
                       /\ \A j \in 1 .. i - 1 : Votes(got[j]) < Votes(got[i])
<1>d. DOMAIN got = 1 .. Len(got) /\ Len(got) \in Nat /\ IsFiniteSet(1 .. Len(got))
  BY FS_Interval
<1>v. \A v \in Verdicts2 : Votes(v) \in Nat
  <2> SUFFICES ASSUME NEW v \in Verdicts2 PROVE Votes(v) \in Nat
    OBVIOUS
  <2>1. IsFiniteSet({i \in DOMAIN got : got[i] = v})
    BY <1>d, FS_Subset
  <2> QED
    BY <2>1, FS_CardinalityType
<1>n. 1 \in DOMAIN got /\ \A i \in DOMAIN got : got[i] \in Verdicts2
  BY <1>d
<1> HIDE DEF Votes
<1>1. PICK v \in Verdicts2 : /\ \A u \in Verdicts2 : Votes(u) <= Votes(v)
                             /\ (\E u \in Verdicts2 \ {v} : Votes(u) = Votes(v)) => v = got[1]
  <2>1. Votes("good") \in Nat /\ Votes("poor") \in Nat
    BY <1>v DEF Verdicts2
  <2>2. got[1] = "good" \/ got[1] = "poor"
    BY <1>n DEF Verdicts2
  <2>3. CASE Votes("good") > Votes("poor")
    BY <2>1, <2>3 DEF Verdicts2
  <2>4. CASE Votes("good") < Votes("poor")
    BY <2>1, <2>4 DEF Verdicts2
  <2>5. CASE Votes("good") = Votes("poor")
    BY <2>1, <2>2, <2>5 DEF Verdicts2
  <2> QED
    BY <2>1, <2>3, <2>4, <2>5
<1>2. \E i \in DOMAIN got : got[i] = v
  <2> SUFFICES ASSUME \A i \in DOMAIN got : got[i] # v PROVE FALSE
    OBVIOUS
  <2>1. Votes(v) = 0
    <3>1. {i \in DOMAIN got : got[i] = v} = {}
      OBVIOUS
    <3> QED
      BY <3>1, FS_EmptySet DEF Votes
  <2>2. Votes(got[1]) # 0
    <3>1. {i \in DOMAIN got : got[i] = got[1]} # {}
      BY <1>n
    <3>2. IsFiniteSet({i \in DOMAIN got : got[i] = got[1]})
      BY <1>d, FS_Subset
    <3> QED
      BY <3>1, <3>2, FS_EmptySet DEF Votes
  <2> QED
    BY <1>1, <1>v, <1>n, <2>1, <2>2
<1> DEFINE Where == {i \in DOMAIN got : got[i] = v}
<1>3. PICK i \in Where : \A m \in Where : i <= m
  <2>1. Where \in SUBSET Nat /\ Where # {}
    BY <1>2, <1>d
  <2> QED
    BY <2>1, Least
<1>4. First(i)
  <2>1. i \in DOMAIN got /\ got[i] = v
    OBVIOUS
  <2>2. ASSUME NEW j \in 1 .. i - 1 PROVE Votes(got[j]) < Votes(v)
    <3>1. j \in DOMAIN got /\ j < i
      BY <1>d, <2>1
    <3>2. got[j] # v /\ got[j] \in Verdicts2
      BY <3>1, <1>3, <1>d, <1>n
    <3>3. Votes(got[j]) <= Votes(v) /\ Votes(got[j]) \in Nat /\ Votes(v) \in Nat
      BY <3>2, <1>1, <1>v
    <3>4. Votes(got[j]) # Votes(v)
      <4> SUFFICES ASSUME Votes(got[j]) = Votes(v) PROVE FALSE
        OBVIOUS
      <4>1. v = got[1]
        BY <3>2, <1>1
      <4>2. i <= 1
        BY <4>1, <1>n, <1>3
      <4> QED
        BY <4>2, <2>1, <1>d
    <3> QED
      BY <3>3, <3>4
  <2> QED
    BY <1>1, <2>1, <2>2
<1>5. Majority(got) = got[CHOOSE k \in DOMAIN got : First(k)]
  BY DEF Majority, Votes
<1> QED
  BY <1>3, <1>4, <1>5

\* What an action does to the scorer that takes it, a becoming b: it gives one item a score,
\* or keeps one more sample of it.
Keeps(a, b) ==
    /\ b \in AskRecords
    /\ b.judge = a.judge /\ b.cached = a.cached /\ b.met = a.met /\ b.after = a.after
Given(a, b, score) ==
    /\ Keeps(a, b) /\ b.mem = a.mem /\ b.got = << >> /\ b.scores = Append(a.scores, score)
    /\ b.at = (IF Len(a.scores) + 1 = job.items THEN "done" ELSE "item")
Sampled(a, b, v) ==
    /\ Keeps(a, b) /\ b.mem = a.mem /\ b.got = Append(a.got, v) /\ b.scores = a.scores
    /\ b.at = "item" /\ Len(a.got) + 1 # job.samples
Reads(a, b, reply) ==
    \/ reply = "junk" /\ Given(a, b, "error")
    \/ reply \in Verdicts2 /\ Sampled(a, b, reply)
    \/ /\ reply \in Verdicts2 /\ Len(a.got) + 1 = job.samples
       /\ \E x \in Verdicts2 : Given(a, b, x) /\ (x = reply \/ \E i \in DOMAIN a.got : x = a.got[i])

\* A score is appended, and the next item begun.
LEMMA GivesScore ==
    ASSUME NEW a \in AskRecords, NEW x \in Verdicts2 \cup {"skip", "error"}
    PROVE  Given(a, Scored(a, x), x)
<1>1. Append(a.scores, x) \in Seq(Verdicts2 \cup {"skip", "error"})
  BY OneMore DEF AskRecords
<1>2. << >> \in Seq(Verdicts2)
  OBVIOUS
<1>3. Scored(a, x) \in AskRecords
  BY <1>1, <1>2 DEF AskRecords, Scored
<1> QED
  BY <1>3 DEF Given, Keeps, Scored, AskRecords

\* A reply that is read gives a score, or is kept as a sample.
LEMMA ReadsReply ==
    ASSUME NEW a \in AskRecords, NEW reply \in Replies
    PROVE  Reads(a, Read(a, reply), reply)
<1>1. CASE reply = "junk"
  BY <1>1, GivesScore DEF Read, Reads
<1>2. CASE reply # "junk"
  <2> DEFINE got == Append(a.got, reply)
  <2>1. reply \in Verdicts2
    BY <1>2 DEF Replies
  <2>2. a.got \in Seq(Verdicts2)
    BY DEF AskRecords
  <2>3. /\ got \in Seq(Verdicts2) /\ Len(got) = Len(a.got) + 1 /\ Len(a.got) \in Nat
        /\ DOMAIN got = 1 .. Len(a.got) + 1 /\ DOMAIN a.got = 1 .. Len(a.got)
        /\ \A i \in 1 .. Len(a.got) : got[i] = a.got[i]
        /\ got[Len(a.got) + 1] = reply
    BY <2>1, <2>2, OneMore
  <2> HIDE DEF got
  <2>4. CASE Len(got) = job.samples
    <3>1. Read(a, reply) = Scored([a EXCEPT !.got = got], Majority(got))
      BY <1>2, <2>4 DEF Read, got
    <3>2. got # << >>
      BY <2>3
    <3>3. PICK i \in DOMAIN got : Majority(got) = got[i]
      BY <2>3, <3>2, MajorityIsOne
    <3>4. Majority(got) \in Verdicts2
          /\ (Majority(got) = reply \/ \E k \in DOMAIN a.got : Majority(got) = a.got[k])
      <4>1. i \in 1 .. Len(a.got) \/ i = Len(a.got) + 1
        BY <2>3
      <4>2. got[i] \in Verdicts2
        BY <2>3
      <4> QED
        BY <3>3, <4>1, <4>2, <2>3
    <3>5. [a EXCEPT !.got = got] \in AskRecords
      BY <2>3 DEF AskRecords
    <3>6. Given([a EXCEPT !.got = got], Read(a, reply), Majority(got))
      BY <3>1, <3>4, <3>5, GivesScore
    <3>7. Given(a, Read(a, reply), Majority(got))
      BY <3>6 DEF Given, Keeps, AskRecords
    <3> QED
      BY <3>4, <3>7, <2>1, <2>3, <2>4 DEF Reads
  <2>5. CASE Len(got) # job.samples
    <3>1. Read(a, reply) = [a EXCEPT !.got = got, !.reply = "none", !.at = "item"]
      BY <1>2, <2>5 DEF Read, got
    <3>2. Read(a, reply) \in AskRecords
      BY <3>1, <2>3 DEF AskRecords
    <3>3. Sampled(a, Read(a, reply), reply)
      BY <3>1, <3>2, <2>3, <2>5 DEF Sampled, Keeps, AskRecords, got
    <3> QED
      BY <2>1, <3>3 DEF Reads
  <2> QED
    BY <2>4, <2>5
<1> QED
  BY <1>1, <1>2

\* What each action does, field by field; the records' other fields it leaves alone.
Quietly == UNCHANGED <<cache, draft, calls>>
Skips(s) ==
    /\ ask[s].at = "item" /\ (ask[s].judge => ask[s].got = << >>)
    /\ Given(ask[s], ask'[s], "skip") /\ Quietly
Remembers(s) ==
    /\ ask[s].at = "item" /\ ask[s].judge /\ ask[s].mem[Item(s)] # "none"
    /\ Reads(ask[s], ask'[s], ask[s].mem[Item(s)]) /\ Quietly
Called(s) == calls' = [calls EXCEPT ![s][Item(s)] = @ + 1] /\ UNCHANGED <<cache, draft>>
PutsAway(s) ==
    /\ ask[s].at = "item" /\ ask[s].cached /\ ask[s].mem[Item(s)] = "none" /\ Called(s)
    /\ Keeps(ask[s], ask'[s]) /\ ask'[s].at = "flush" /\ ask'[s].reply \in Replies
    /\ ask'[s].mem = [ask[s].mem EXCEPT ![Item(s)] = ask'[s].reply]
    /\ ask'[s].got = ask[s].got /\ ask'[s].scores = ask[s].scores
Hears(s) ==
    /\ ask[s].at = "item" /\ ask[s].judge /\ ~ask[s].cached /\ Called(s)
    /\ \E reply \in Replies : Reads(ask[s], ask'[s], reply)
Fails(s) ==
    /\ ask[s].at = "item" /\ ask[s].judge /\ ask[s].mem[Item(s)] = "none"
    /\ Given(ask[s], ask'[s], "error") /\ Quietly
SameBut(a, b) ==
    Keeps(a, b) /\ b.mem = a.mem /\ b.got = a.got /\ b.scores = a.scores /\ b.reply = a.reply
Drafts(s) ==
    /\ ask[s].at = "flush" /\ ask'[s].at = "rename" /\ SameBut(ask[s], ask'[s])
    /\ draft' = <<ask[s].mem>> /\ UNCHANGED <<cache, calls>>
Lands(s) ==
    /\ ask[s].at = "rename" /\ draft # << >> /\ cache' = draft[1] /\ draft' = << >>
    /\ Reads(ask[s], ask'[s], ask[s].reply) /\ UNCHANGED calls
Loses(s) ==
    /\ ask[s].at = "rename" /\ draft = << >>
    /\ Given(ask[s], ask'[s], "error") /\ Quietly
Ends(s) == Busy(s) /\ ask'[s].at = "dead" /\ SameBut(ask[s], ask'[s]) /\ Quietly

\* A step of a scorer that is at work, and the one that starts it.
Works(s) ==
    /\ job' = job /\ ask' \in [Scorers -> AskRecords]
    /\ \A t \in Scorers : t # s => ask'[t] = ask[t] /\ calls'[t] = calls[t]
    /\ \/ Skips(s) \/ Remembers(s) \/ PutsAway(s) \/ Hears(s) \/ Fails(s)
       \/ Drafts(s) \/ Lands(s) \/ Loses(s) \/ Ends(s)
Starts(s) ==
    /\ ask[s].at = "new" /\ suite = "judged" /\ UNCHANGED <<job, cache, draft, calls>>
    /\ ask' \in [Scorers -> AskRecords]
    /\ ask'[s].at = "item" /\ ask'[s].mem = Loaded(s)
    /\ ask'[s].judge = ask[s].judge /\ ask'[s].cached = ask[s].cached
    /\ ask'[s].got = ask[s].got /\ ask'[s].scores = ask[s].scores
    /\ ask'[s].met = {u \in Scorers : Busy(u)}
    /\ ask'[s].after = {u \in Scorers : ask[u].at \in {"done", "dead"}}
    /\ \A t \in Scorers : t # s =>
          /\ ask'[t].at = ask[t].at /\ ask'[t].reply = ask[t].reply /\ ask'[t].mem = ask[t].mem
          /\ ask'[t].judge = ask[t].judge /\ ask'[t].cached = ask[t].cached
          /\ ask'[t].got = ask[t].got /\ ask'[t].scores = ask[t].scores
          /\ ask'[t].after = ask[t].after
          /\ ask'[t].met = (IF Busy(t) THEN ask[t].met \cup {s} ELSE ask[t].met)

\* A scorer at work is about to score a prompt.
LEMMA Working ==
    ASSUME JudgeInv, NEW s \in Scorers, Busy(s)
    PROVE  /\ Item(s) \in Prompts /\ AtWork(s) /\ ask[s] \in AskRecords
           /\ Item(s) = Len(ask[s].scores) + 1 /\ Len(ask[s].scores) \in Nat
           /\ job.items \in {1, 2}
           /\ ask[s].at \in {"item", "flush", "rename"}
<1>1. AtWork(s)
  BY DEF JudgeInv, ScorerInv
<1>2. ask[s] \in AskRecords /\ job.items \in {0, 1, 2}
  BY DEF JudgeInv, JudgeType
<1>3. Len(ask[s].scores) \in Nat
  BY <1>2 DEF AskRecords
<1>4. Len(ask[s].scores) < job.items
  BY <1>1 DEF AtWork
<1>5. ask[s].at \in {"item", "flush", "rename"}
  BY <1>2 DEF Busy, AskRecords
<1> QED
  BY <1>1, <1>2, <1>3, <1>4, <1>5 DEF Item, Prompts

\* The steps of the judge are those.
LEMMA JudgeMoves ==
    ASSUME JudgeInv, JudgeStep
    PROVE  \E s \in Scorers : Starts(s) \/ Works(s)
<1>1. PICK s \in Scorers :
          BuildJudge(s) \/ SkipItem(s) \/ Hits(s) \/ Asks(s) \/ WriteDraft(s) \/ Rename(s)
          \/ Dies(s)
  BY DEF JudgeStep
<1>a. ask \in [Scorers -> AskRecords] /\ ask[s] \in AskRecords
  BY DEF JudgeInv, JudgeType
<1>c. calls \in [Scorers -> [Prompts -> Nat]]
  BY DEF JudgeInv, JudgeType
<1>b. Busy(s) => Item(s) \in Prompts /\ AtWork(s)
  BY Working
<1>2. CASE BuildJudge(s)
  <2>1. Loaded(s) \in [Prompts -> Replies \cup {"none"}]
    BY DEF Loaded, JudgeInv, JudgeType, Empty
  <2>2. /\ ask[s].at = "new" /\ suite = "judged" /\ UNCHANGED <<job, cache, draft, calls>>
        /\ ask' = [t \in Scorers |->
                      IF t = s
                      THEN [ask[s] EXCEPT !.at = "item", !.mem = Loaded(s),
                                          !.met = {u \in Scorers : Busy(u)},
                                          !.after = {u \in Scorers :
                                                      ask[u].at \in {"done", "dead"}}]
                      ELSE IF Busy(t) THEN [ask[t] EXCEPT !.met = @ \cup {s}] ELSE ask[t]]
    BY <1>2 DEF BuildJudge
  <2>3. [ask[s] EXCEPT !.at = "item", !.mem = Loaded(s),
                       !.met = {u \in Scorers : Busy(u)},
                       !.after = {u \in Scorers : ask[u].at \in {"done", "dead"}}] \in AskRecords
    BY <2>1, <1>a DEF AskRecords
  <2>4. \A t \in Scorers : [ask[t] EXCEPT !.met = @ \cup {s}] \in AskRecords
    BY <1>a DEF AskRecords
  <2>5. ask' \in [Scorers -> AskRecords]
    BY <2>2, <2>3, <2>4, <1>a
  <2>6. /\ ask'[s].at = "item" /\ ask'[s].mem = Loaded(s)
        /\ ask'[s].judge = ask[s].judge /\ ask'[s].cached = ask[s].cached
        /\ ask'[s].got = ask[s].got /\ ask'[s].scores = ask[s].scores
        /\ ask'[s].met = {u \in Scorers : Busy(u)}
        /\ ask'[s].after = {u \in Scorers : ask[u].at \in {"done", "dead"}}
    BY <2>2, <1>a DEF AskRecords
  <2>7. ASSUME NEW t \in Scorers, t # s
        PROVE  /\ ask'[t].at = ask[t].at /\ ask'[t].reply = ask[t].reply /\ ask'[t].mem = ask[t].mem
               /\ ask'[t].judge = ask[t].judge /\ ask'[t].cached = ask[t].cached
               /\ ask'[t].got = ask[t].got /\ ask'[t].scores = ask[t].scores
               /\ ask'[t].after = ask[t].after
               /\ ask'[t].met = (IF Busy(t) THEN ask[t].met \cup {s} ELSE ask[t].met)
    <3>1. ask'[t] = IF Busy(t) THEN [ask[t] EXCEPT !.met = @ \cup {s}] ELSE ask[t]
      BY <2>2, <2>7
    <3>2. ask[t] \in AskRecords
      BY <1>a
    <3> QED
      BY <3>1, <3>2 DEF AskRecords
  <2>8. Starts(s)
    BY <2>2, <2>5, <2>6, <2>7 DEF Starts
  <2> QED
    BY <2>8
<1>3. ASSUME NEW b \in AskRecords, ask' = [ask EXCEPT ![s] = b]
      PROVE  /\ ask' \in [Scorers -> AskRecords] /\ ask'[s] = b
             /\ \A t \in Scorers : t # s => ask'[t] = ask[t]
  BY <1>3, <1>a
<1>4. CASE SkipItem(s)
  <2>1. Given(ask[s], Scored(ask[s], "skip"), "skip") /\ Scored(ask[s], "skip") \in AskRecords
    BY <1>a, GivesScore DEF Given, Keeps
  <2>2. /\ ask[s].at = "item" /\ (ask[s].judge => ask[s].got = << >>)
        /\ ask' = [ask EXCEPT ![s] = Scored(ask[s], "skip")]
        /\ UNCHANGED <<job, cache, draft, calls>>
    BY <1>4 DEF SkipItem
  <2>3. Works(s)
    BY <2>1, <2>2, <1>3 DEF Works, Skips, Quietly
  <2> QED
    BY <2>3
<1>5. CASE Hits(s)
  <2>1. /\ ask[s].at = "item" /\ ask[s].judge /\ ask[s].mem[Item(s)] # "none"
        /\ ask' = [ask EXCEPT ![s] = Read(ask[s], ask[s].mem[Item(s)])]
        /\ UNCHANGED <<job, cache, draft, calls>>
    BY <1>5 DEF Hits
  <2>2. Item(s) \in Prompts
    BY <2>1, <1>b DEF Busy
  <2>3. ask[s].mem[Item(s)] \in Replies
    BY <2>1, <2>2, <1>a DEF AskRecords
  <2>4. Reads(ask[s], Read(ask[s], ask[s].mem[Item(s)]), ask[s].mem[Item(s)])
    BY <2>3, <1>a, ReadsReply
  <2>5. Read(ask[s], ask[s].mem[Item(s)]) \in AskRecords
    BY <2>4 DEF Reads, Given, Sampled, Keeps
  <2>6. Works(s)
    BY <2>1, <2>4, <2>5, <1>3 DEF Works, Remembers, Quietly
  <2> QED
    BY <2>6
<1>6. CASE Asks(s)
  <2>1. /\ ask[s].at = "item" /\ ask[s].judge /\ ask[s].mem[Item(s)] = "none"
        /\ UNCHANGED <<job, cache, draft>>
    BY <1>6 DEF Asks
  <2>2. Item(s) \in Prompts
    BY <2>1, <1>b DEF Busy
  <2>3. CASE ask' = [ask EXCEPT ![s] = Scored(ask[s], "error")] /\ UNCHANGED calls
    <3>1. Given(ask[s], Scored(ask[s], "error"), "error") /\ Scored(ask[s], "error") \in AskRecords
      BY <1>a, GivesScore DEF Given, Keeps
    <3>2. Works(s)
      BY <2>1, <2>3, <3>1, <1>3 DEF Works, Fails, Quietly
    <3> QED
      BY <3>2
  <2>4. ASSUME NEW reply \in Replies,
               calls' = [calls EXCEPT ![s][Item(s)] = @ + 1],
               ask' = [ask EXCEPT ![s] =
                           IF ask[s].cached
                           THEN [ask[s] EXCEPT !.mem[Item(s)] = reply, !.reply = reply,
                                  !.at = "flush"]
                           ELSE Read(ask[s], reply)]
        PROVE  Works(s)
    <3>0. Called(s)
      BY <2>1, <2>4 DEF Called
    <3>c. \A t \in Scorers : t # s => calls'[t] = calls[t]
      BY <2>4, <1>c
    <3>1. CASE ask[s].cached
      <4> DEFINE b == [ask[s] EXCEPT !.mem[Item(s)] = reply, !.reply = reply, !.at = "flush"]
      <4>1. [ask[s].mem EXCEPT ![Item(s)] = reply] \in [Prompts -> Replies \cup {"none"}]
        BY <2>2, <1>a DEF AskRecords
      <4>2. b = [ask[s] EXCEPT !.mem = [ask[s].mem EXCEPT ![Item(s)] = reply], !.reply = reply,
                               !.at = "flush"]
        BY <1>a DEF AskRecords
      <4> HIDE DEF b
      <4>3. b \in AskRecords
        BY <4>1, <4>2, <1>a DEF AskRecords
      <4>4. /\ Keeps(ask[s], b) /\ b.at = "flush" /\ b.reply = reply
            /\ b.mem = [ask[s].mem EXCEPT ![Item(s)] = b.reply]
            /\ b.got = ask[s].got /\ b.scores = ask[s].scores
        BY <4>2, <4>3, <1>a DEF AskRecords, Keeps
      <4>5. ask' = [ask EXCEPT ![s] = b]
        BY <2>4, <3>1 DEF b
      <4>6. ask' \in [Scorers -> AskRecords] /\ ask'[s] = b
            /\ \A t \in Scorers : t # s => ask'[t] = ask[t]
        BY <4>3, <4>5, <1>3
      <4>7. PutsAway(s)
        BY <4>4, <4>6, <3>0, <2>1, <3>1 DEF PutsAway
      <4> QED
        BY <4>6, <4>7, <2>1, <3>c DEF Works
    <3>2. CASE ~ask[s].cached
      <4>1. Reads(ask[s], Read(ask[s], reply), reply)
        BY <1>a, ReadsReply
      <4>2. Read(ask[s], reply) \in AskRecords
        BY <4>1 DEF Reads, Given, Sampled, Keeps
      <4>3. ask' = [ask EXCEPT ![s] = Read(ask[s], reply)]
        BY <2>4, <3>2
      <4>4. ask' \in [Scorers -> AskRecords] /\ ask'[s] = Read(ask[s], reply)
            /\ \A t \in Scorers : t # s => ask'[t] = ask[t]
        BY <4>2, <4>3, <1>3
      <4>5. Hears(s)
        BY <2>1, <3>0, <3>2, <4>1, <4>4 DEF Hears
      <4> QED
        BY <4>4, <4>5, <2>1, <3>c DEF Works
    <3> QED
      BY <3>1, <3>2
  <2> QED
    BY <1>6, <2>3, <2>4 DEF Asks
<1>7. CASE WriteDraft(s)
  <2> DEFINE b == [ask[s] EXCEPT !.at = "rename"]
  <2>1. /\ ask[s].at = "flush" /\ draft' = <<ask[s].mem>> /\ UNCHANGED <<job, cache, calls>>
        /\ ask' = [ask EXCEPT ![s] = b]
    BY <1>7, <1>a DEF WriteDraft
  <2>2. b \in AskRecords
    BY <1>a DEF AskRecords
  <2>3. SameBut(ask[s], b) /\ b.at = "rename"
    BY <2>2, <1>a DEF SameBut, Keeps, AskRecords
  <2> HIDE DEF b
  <2>4. Works(s)
    BY <2>1, <2>2, <2>3, <1>3 DEF Works, Drafts
  <2> QED
    BY <2>4
<1>8. CASE Rename(s)
  <2>1. ask[s].at = "rename" /\ UNCHANGED <<job, calls>>
    BY <1>8 DEF Rename
  <2>2. CASE draft # << >> /\ cache' = draft[1] /\ draft' = << >>
             /\ ask' = [ask EXCEPT ![s] = Read(ask[s], ask[s].reply)]
    <3>1. ask[s].reply \in Replies
      BY <2>1, <1>a, <1>b DEF Busy, AtWork, AskRecords
    <3>2. Reads(ask[s], Read(ask[s], ask[s].reply), ask[s].reply)
      BY <3>1, <1>a, ReadsReply
    <3>3. Read(ask[s], ask[s].reply) \in AskRecords
      BY <3>2 DEF Reads, Given, Sampled, Keeps
    <3>4. Works(s)
      BY <2>1, <2>2, <3>2, <3>3, <1>3 DEF Works, Lands
    <3> QED
      BY <3>4
  <2>3. CASE draft = << >> /\ ask' = [ask EXCEPT ![s] = Scored(ask[s], "error")]
             /\ UNCHANGED <<cache, draft>>
    <3>1. Given(ask[s], Scored(ask[s], "error"), "error") /\ Scored(ask[s], "error") \in AskRecords
      BY <1>a, GivesScore DEF Given, Keeps
    <3>2. Works(s)
      BY <2>1, <2>3, <3>1, <1>3 DEF Works, Loses, Quietly
    <3> QED
      BY <3>2
  <2> QED
    BY <1>8, <2>2, <2>3 DEF Rename
<1>9. CASE Dies(s)
  <2> DEFINE b == [ask[s] EXCEPT !.at = "dead"]
  <2>1. Busy(s) /\ UNCHANGED <<job, cache, draft, calls>> /\ ask' = [ask EXCEPT ![s] = b]
    BY <1>9, <1>a DEF Dies
  <2>2. b \in AskRecords
    BY <1>a DEF AskRecords
  <2>3. SameBut(ask[s], b) /\ b.at = "dead"
    BY <2>2, <1>a DEF SameBut, Keeps, AskRecords
  <2> HIDE DEF b
  <2>4. Works(s)
    BY <2>1, <2>2, <2>3, <1>3 DEF Works, Ends, Quietly
  <2> QED
    BY <2>4
<1> QED
  BY <1>1, <1>2, <1>4, <1>5, <1>6, <1>7, <1>8, <1>9

\* What a scorer at work leaves alone, and what only grows.
LEMMA WorkFrame ==
    ASSUME JudgeInv, NEW s \in Scorers, Works(s)
    PROVE  /\ Busy(s) /\ ask'[s].at # "new" /\ Keeps(ask[s], ask'[s])
           /\ \A t \in Scorers :
                 /\ ask'[t].judge = ask[t].judge /\ ask'[t].cached = ask[t].cached
                 /\ ask'[t].met = ask[t].met /\ ask'[t].after = ask[t].after
                 /\ ask[t].at = "new" <=> ask'[t].at = "new"
                 /\ ask[t].at \in {"done", "dead"} => ask'[t].at = ask[t].at
                 /\ Busy(t)' => Busy(t)
           /\ calls' \in [Scorers -> [Prompts -> Nat]]
           /\ \A t \in Scorers : \A p \in Prompts :
                 /\ calls[t][p] \in Nat /\ calls'[t][p] \in Nat /\ calls[t][p] <= calls'[t][p]
                 /\ t # s \/ p # Item(s) => calls'[t][p] = calls[t][p]
                                          /\ ask'[t].mem[p] = ask[t].mem[p]
                 /\ ask[t].mem[p] # "none" => ask'[t].mem[p] = ask[t].mem[p]
<1>a. /\ ask \in [Scorers -> AskRecords] /\ ask[s] \in AskRecords
      /\ calls \in [Scorers -> [Prompts -> Nat]]
  BY DEF JudgeInv, JudgeType
<1>1. Busy(s)
  BY DEF Works, Skips, Remembers, PutsAway, Hears, Fails, Drafts, Lands, Loses, Ends, Busy
<1>2. Item(s) \in Prompts
  BY <1>1, Working
<1>3. Keeps(ask[s], ask'[s]) /\ ask'[s].at # "new"
  <2>1. \A x : Given(ask[s], ask'[s], x) => Keeps(ask[s], ask'[s]) /\ ask'[s].at # "new"
    BY DEF Given
  <2>2. \A r : Reads(ask[s], ask'[s], r) => Keeps(ask[s], ask'[s]) /\ ask'[s].at # "new"
    BY <2>1 DEF Reads, Sampled
  <2> QED
    BY <2>1, <2>2 DEF Works, Skips, Remembers, PutsAway, Hears, Fails, Drafts, Lands, Loses, Ends,
       SameBut
<1>4. \A t \in Scorers : t # s => ask'[t] = ask[t] /\ calls'[t] = calls[t]
  BY DEF Works
<1>5. calls' = calls \/ calls' = [calls EXCEPT ![s][Item(s)] = @ + 1]
  BY DEF Works, Skips, Remembers, PutsAway, Hears, Fails, Drafts, Lands, Loses, Ends, Quietly,
     Called
<1>6. ask'[s].mem = ask[s].mem \/ PutsAway(s)
  <2>1. \A x : Given(ask[s], ask'[s], x) => ask'[s].mem = ask[s].mem
    BY DEF Given
  <2>2. \A r : Reads(ask[s], ask'[s], r) => ask'[s].mem = ask[s].mem
    BY <2>1 DEF Reads, Sampled
  <2> QED
    BY <2>1, <2>2 DEF Works, Skips, Remembers, Hears, Fails, Drafts, Lands, Loses, Ends, SameBut
<1>7. ASSUME NEW t \in Scorers
      PROVE  /\ ask'[t].judge = ask[t].judge /\ ask'[t].cached = ask[t].cached
             /\ ask'[t].met = ask[t].met /\ ask'[t].after = ask[t].after
             /\ ask[t].at = "new" <=> ask'[t].at = "new"
             /\ ask[t].at \in {"done", "dead"} => ask'[t].at = ask[t].at
             /\ Busy(t)' => Busy(t)
  <2>1. CASE t = s
    BY <1>1, <1>3, <2>1 DEF Keeps, Busy
  <2>2. CASE t # s
    BY <1>4, <2>2 DEF Busy
  <2> QED
    BY <2>1, <2>2
<1>8. calls' \in [Scorers -> [Prompts -> Nat]]
  BY <1>5, <1>a, <1>2
<1>9. ASSUME NEW t \in Scorers, NEW p \in Prompts
      PROVE  /\ calls[t][p] \in Nat /\ calls'[t][p] \in Nat /\ calls[t][p] <= calls'[t][p]
             /\ t # s \/ p # Item(s) => calls'[t][p] = calls[t][p]
  BY <1>5, <1>a, <1>2, <1>8
<1>10. ASSUME NEW t \in Scorers, NEW p \in Prompts
       PROVE  /\ t # s \/ p # Item(s) => ask'[t].mem[p] = ask[t].mem[p]
              /\ ask[t].mem[p] # "none" => ask'[t].mem[p] = ask[t].mem[p]
  <2>1. CASE t # s
    BY <1>4, <2>1
  <2>2. CASE t = s /\ ask'[s].mem = ask[s].mem
    BY <2>2
  <2>3. CASE t = s /\ PutsAway(s)
    <3>1. ask'[s].mem = [ask[s].mem EXCEPT ![Item(s)] = ask'[s].reply]
          /\ ask[s].mem[Item(s)] = "none"
      BY <2>3 DEF PutsAway
    <3>2. ask[s].mem \in [Prompts -> Replies \cup {"none"}]
      BY <1>a DEF AskRecords
    <3> QED
      BY <2>3, <3>1, <3>2
  <2> QED
    BY <1>6, <2>1, <2>2, <2>3
<1> QED
  BY <1>1, <1>3, <1>7, <1>8, <1>9, <1>10

\* Types.
LEMMA JudgeTypeKept ==
    ASSUME JudgeInv, suite' = suite, NEW s \in Scorers, Starts(s) \/ Works(s)
    PROVE  JudgeType'
<1>a. JudgeType /\ ask[s] \in AskRecords
  BY DEF JudgeInv, JudgeType
<1>1. CASE Starts(s)
  BY <1>1, <1>a DEF JudgeType, Starts
<1>2. CASE Works(s)
  <2>1. calls' \in [Scorers -> [Prompts -> Nat]] /\ ask' \in [Scorers -> AskRecords] /\ job' = job
    BY <1>2, WorkFrame DEF Works
  <2>2. ask[s].mem \in [Prompts -> Replies \cup {"none"}]
    BY <1>a DEF AskRecords
  <2>3. \/ cache' = cache /\ draft' = draft
        \/ cache' = cache /\ draft' = <<ask[s].mem>>
        \/ draft # << >> /\ cache' = draft[1] /\ draft' = << >>
    BY <1>2 DEF Works, Skips, Remembers, PutsAway, Hears, Fails, Drafts, Lands, Loses, Ends,
       Quietly, Called
  <2>4. cache' \in [Prompts -> Replies \cup {"none"}]
    <3>1. CASE cache' = cache
      BY <3>1, <1>a DEF JudgeType
    <3>2. CASE draft # << >> /\ cache' = draft[1]
      BY <3>2, <1>a DEF JudgeType
    <3> QED
      BY <2>3, <3>1, <3>2
  <2>5. draft' = << >> \/ \E m \in [Prompts -> Replies \cup {"none"}] : draft' = <<m>>
    BY <2>2, <2>3, <1>a DEF JudgeType
  <2> QED
    BY <2>1, <2>4, <2>5, <1>a DEF JudgeType
<1> QED
  BY <1>1, <1>2

\* Who ran with whom.
LEMMA MetKept ==
    ASSUME JudgeInv, NEW s \in Scorers, Starts(s) \/ Works(s)
    PROVE  MetInv'
<1>m. MetInv
  BY DEF JudgeInv
<1>1. CASE Works(s)
  <2>1. \A t \in Scorers :
                 /\ ask'[t].met = ask[t].met /\ ask'[t].after = ask[t].after
                 /\ ask[t].at = "new" <=> ask'[t].at = "new"
                 /\ ask[t].at \in {"done", "dead"} => ask'[t].at = ask[t].at
                 /\ Busy(t)' => Busy(t)
    BY <1>1, WorkFrame
  <2> QED
    BY <2>1, <1>m DEF MetInv
<1>2. CASE Starts(s)
  <2>1. /\ ask[s].at = "new" /\ ask'[s].at = "item"
        /\ ask'[s].met = {u \in Scorers : Busy(u)}
        /\ ask'[s].after = {u \in Scorers : ask[u].at \in {"done", "dead"}}
        /\ \A t \in Scorers : t # s =>
              /\ ask'[t].at = ask[t].at /\ ask'[t].after = ask[t].after
              /\ ask'[t].met = (IF Busy(t) THEN ask[t].met \cup {s} ELSE ask[t].met)
    BY <1>2 DEF Starts
  <2>2. \A u \in Scorers : u # s => (Busy(u)' <=> Busy(u))
    BY <2>1 DEF Busy
  <2>3. ~Busy(s)
    BY <2>1 DEF Busy
  <2>m. \A t \in Scorers : t # s =>
            \A u \in Scorers : u \in ask'[t].met <=> u \in ask[t].met \/ (Busy(t) /\ u = s)
    <3> SUFFICES ASSUME NEW t \in Scorers, t # s
                 PROVE  \A u \in Scorers : u \in ask'[t].met <=> u \in ask[t].met
                        \/ (Busy(t) /\ u = s)
      OBVIOUS
    <3>1. CASE Busy(t)
      <4>1. ask'[t].met = ask[t].met \cup {s}
        BY <3>1, <2>1
      <4> QED
        BY <3>1, <4>1
    <3>2. CASE ~Busy(t)
      <4>1. ask'[t].met = ask[t].met
        BY <3>2, <2>1
      <4> QED
        BY <3>2, <4>1
    <3> QED
      BY <3>1, <3>2
  <2>n. /\ \A u \in Scorers : u \in ask'[s].met <=> Busy(u)
        /\ \A u \in Scorers : u \in ask'[s].after <=> ask[u].at \in {"done", "dead"}
    BY <2>1
  <2>4. \A t \in Scorers : t \notin ask'[t].met /\ t \notin ask'[t].after
    <3>1. s \notin ask'[s].met /\ s \notin ask'[s].after
      BY <2>1, <2>3, <2>n
    <3>2. ASSUME NEW t \in Scorers, t # s PROVE t \notin ask'[t].met /\ t \notin ask'[t].after
      <4>1. t \notin ask[t].met /\ t \notin ask[t].after
        BY <1>m DEF MetInv
      <4>2. ask'[t].after = ask[t].after
        BY <3>2, <2>1
      <4>3. t \in ask'[t].met => t \in ask[t].met
        BY <3>2, <2>m
      <4> QED
        BY <4>1, <4>2, <4>3
    <3> QED
      BY <3>1, <3>2
  <2>5. ASSUME NEW u \in Scorers, NEW t \in Scorers
        PROVE  /\ t \in ask'[u].met => u \in ask'[t].met
               /\ u # t /\ Busy(u)' /\ Busy(t)' => t \in ask'[u].met
               /\ ask'[t].at = "new" => t \notin ask'[u].met \cup ask'[u].after
               /\ t \in ask'[u].after => t \notin ask'[u].met /\ ask'[t].at \in {"done", "dead"}
    <3>1. CASE u = s /\ t = s
      BY <3>1, <2>4, <2>1
    <3>2. CASE u = s /\ t # s
      <4>1. /\ t \in ask'[u].met <=> Busy(t)
            /\ t \in ask'[u].after <=> ask[t].at \in {"done", "dead"}
            /\ u \in ask'[t].met <=> u \in ask[t].met \/ Busy(t)
            /\ ask'[t].at = ask[t].at /\ (Busy(t)' <=> Busy(t))
        BY <3>2, <2>1, <2>2, <2>m, <2>n
      <4>2. ask[t].at = "new" \/ ask[t].at \in {"done", "dead"} => ~Busy(t)
        BY DEF Busy
      <4> QED
        BY <3>2, <4>1, <4>2
    <3>3. CASE u # s /\ t = s
      <4>1. /\ s \notin ask[u].met /\ s \notin ask[u].after
        BY <2>1, <1>m DEF MetInv
      <4>2. /\ t \in ask'[u].met <=> Busy(u)
            /\ ask'[u].after = ask[u].after /\ ask'[t].at = "item" /\ (Busy(u)' <=> Busy(u))
            /\ u \in ask'[t].met <=> Busy(u)
        BY <3>3, <4>1, <2>1, <2>2, <2>m, <2>n
      <4> QED
        BY <3>3, <4>1, <4>2
    <3>4. CASE u # s /\ t # s
      <4>1. /\ ask'[t].at = ask[t].at /\ ask'[u].after = ask[u].after
            /\ t \in ask'[u].met <=> t \in ask[u].met
            /\ u \in ask'[t].met <=> u \in ask[t].met
        BY <3>4, <2>1, <2>m
      <4> QED
        BY <3>4, <4>1, <2>2, <1>m DEF MetInv
    <3> QED
      BY <3>1, <3>2, <3>3, <3>4
  <2> QED
    BY <2>4, <2>5 DEF MetInv
<1> QED
  BY <1>1, <1>2

\* A step of one scorer leaves the other one's record and calls as they are.
LEMMA JudgedSame ==
    ASSUME NEW t \in Scorers, ask'[t].scores = ask[t].scores
    PROVE  Judged(t)' = Judged(t)
  BY DEF Judged

\* What a score adds to a scorer's scores.
LEMMA NewScore ==
    ASSUME JudgeInv, NEW s \in Scorers, Busy(s), NEW x \in Verdicts2 \cup {"skip", "error"},
           Given(ask[s], ask'[s], x)
    PROVE  /\ Len(ask'[s].scores) = Len(ask[s].scores) + 1 /\ ask'[s].scores[Item(s)] = x
           /\ DOMAIN ask'[s].scores = 1 .. Item(s) /\ DOMAIN ask[s].scores = 1 .. Len(ask[s].scores)
           /\ \A k \in DOMAIN ask[s].scores : ask'[s].scores[k] = ask[s].scores[k]
           /\ \A k \in DOMAIN ask'[s].scores : k \in DOMAIN ask[s].scores \/ k = Item(s)
           /\ \A k \in Judged(s)' : k \in Judged(s) \/ (k = Item(s) /\ x \in Verdicts2)
<1>1. ask[s].scores \in Seq(Verdicts2 \cup {"skip", "error"})
  BY Working DEF AskRecords
<1>2. ask'[s].scores = Append(ask[s].scores, x)
  BY DEF Given
<1>3. /\ Len(ask'[s].scores) = Len(ask[s].scores) + 1
      /\ DOMAIN ask'[s].scores = 1 .. Len(ask[s].scores) + 1
      /\ DOMAIN ask[s].scores = 1 .. Len(ask[s].scores) /\ Len(ask[s].scores) \in Nat
      /\ \A i \in 1 .. Len(ask[s].scores) : ask'[s].scores[i] = ask[s].scores[i]
      /\ ask'[s].scores[Len(ask[s].scores) + 1] = x
  BY <1>1, <1>2, OneMore
<1>4. Item(s) = Len(ask[s].scores) + 1
  BY DEF Item
<1>5. \A k \in DOMAIN ask'[s].scores : k \in DOMAIN ask[s].scores \/ k = Item(s)
  BY <1>3, <1>4
<1>6. \A k \in Judged(s)' : k \in Judged(s) \/ (k = Item(s) /\ x \in Verdicts2)
  BY <1>3, <1>4, <1>5 DEF Judged
<1> QED
  BY <1>3, <1>4, <1>5, <1>6

\* A score is given where a reply, or none, is read; and what is then judged.
LEMMA NewVerdict ==
    ASSUME JudgeInv, NEW s \in Scorers, Busy(s), NEW reply, Reads(ask[s], ask'[s], reply)
    PROVE  /\ \A k \in Judged(s)' : k \in Judged(s) \/ (k = Item(s) /\ reply \in Verdicts2)
           /\ ask'[s].mem = ask[s].mem /\ ask'[s].at \in {"item", "done"}
<1>1. CASE reply = "junk" /\ Given(ask[s], ask'[s], "error")
  BY <1>1, NewScore DEF Given, Verdicts2
<1>2. CASE Sampled(ask[s], ask'[s], reply)
  BY <1>2, JudgedSame DEF Sampled
<1>3. ASSUME reply \in Verdicts2, NEW x \in Verdicts2, Given(ask[s], ask'[s], x)
      PROVE  /\ \A k \in Judged(s)' : k \in Judged(s) \/ (k = Item(s) /\ reply \in Verdicts2)
             /\ ask'[s].mem = ask[s].mem /\ ask'[s].at \in {"item", "done"}
  BY <1>3, NewScore DEF Given
<1> QED
  BY <1>1, <1>2, <1>3 DEF Reads

\* What is cached stays paid for.
LEMMA SourceKept ==
    ASSUME JudgeInv, NEW s \in Scorers, Starts(s) \/ Works(s)
    PROVE  SourceInv'
<1>m. SourceInv
  BY DEF JudgeInv
<1>1. CASE Works(s)
  <2>0. /\ \A t \in Scorers : ask'[t].cached = ask[t].cached
        /\ \A t \in Scorers : \A p \in Prompts :
                 /\ calls[t][p] \in Nat /\ calls'[t][p] \in Nat /\ calls[t][p] <= calls'[t][p]
                 /\ t # s \/ p # Item(s) => ask'[t].mem[p] = ask[t].mem[p]
        /\ Busy(s)
    BY <1>1, WorkFrame
  <2>1. \A p \in Prompts : Paid(p) => Paid(p)'
    BY <2>0 DEF Paid
  <2>2. ASSUME NEW t \in Scorers, NEW p \in Prompts, ask'[t].cached, ask'[t].mem[p] # "none"
        PROVE  Paid(p)'
    <3>1. CASE ask'[t].mem[p] = ask[t].mem[p]
      BY <2>0, <2>1, <2>2, <3>1, <1>m DEF SourceInv
    <3>2. CASE ask'[t].mem[p] # ask[t].mem[p]
      <4>1. t = s /\ p = Item(s)
        BY <2>0, <3>2
      <4>2. PutsAway(s)
        <5>1. \A x : Given(ask[s], ask'[s], x) => ask'[s].mem = ask[s].mem
          BY DEF Given
        <5>2. \A r : Reads(ask[s], ask'[s], r) => ask'[s].mem = ask[s].mem
          BY <5>1 DEF Reads, Sampled
        <5> QED
          BY <1>1, <5>1, <5>2, <3>2, <4>1 DEF Works, Skips, Remembers, Hears, Fails, Drafts,
              Lands, Loses, Ends, SameBut
      <4>3. calls' = [calls EXCEPT ![s][Item(s)] = @ + 1] /\ calls \in [Scorers -> [Prompts -> Nat]]
        BY <4>2 DEF PutsAway, Called, JudgeInv, JudgeType
      <4>4. calls'[s][p] = calls[s][p] + 1 /\ calls[s][p] \in Nat
        BY <4>1, <4>3, <2>2
      <4> QED
        BY <4>1, <4>4, <2>2 DEF Paid
    <3> QED
      BY <3>1, <3>2
  <2>3. ask[s].at = "flush" => ask[s].cached
    BY <2>0, Working DEF AtWork
  <2>4. ASSUME NEW p \in Prompts, cache'[p] # "none" PROVE Paid(p)'
    <3>1. cache' = cache \/ (draft # << >> /\ cache' = draft[1])
      BY <1>1 DEF Works, Skips, Remembers, PutsAway, Hears, Fails, Drafts, Lands, Loses, Ends,
         Quietly, Called
    <3> QED
      BY <3>1, <2>1, <2>4, <1>m DEF SourceInv
  <2>5. ASSUME NEW p \in Prompts, draft' # << >>, draft'[1][p] # "none" PROVE Paid(p)'
    <3>1. draft' = draft \/ draft' = << >> \/ (ask[s].at = "flush" /\ draft' = <<ask[s].mem>>)
      BY <1>1 DEF Works, Skips, Remembers, PutsAway, Hears, Fails, Drafts, Lands, Loses, Ends,
         Quietly, Called
    <3>2. CASE draft' = draft
      BY <3>2, <2>1, <2>5, <1>m DEF SourceInv
    <3>3. CASE ask[s].at = "flush" /\ draft' = <<ask[s].mem>>
      BY <3>3, <2>1, <2>3, <2>5, <1>m DEF SourceInv
    <3> QED
      BY <3>1, <3>2, <3>3, <2>5
  <2> QED
    BY <2>2, <2>4, <2>5 DEF SourceInv
<1>2. CASE Starts(s)
  <2>1. /\ calls' = calls /\ cache' = cache /\ draft' = draft
        /\ \A t \in Scorers : ask'[t].cached = ask[t].cached
        /\ \A t \in Scorers : t # s => ask'[t].mem = ask[t].mem
        /\ ask'[s].mem = Loaded(s)
    BY <1>2 DEF Starts
  <2>2. \A p \in Prompts : Paid(p)' <=> Paid(p)
    BY <2>1 DEF Paid
  <2>3. \A p \in Prompts : ask[s].cached /\ ask'[s].mem[p] # "none" => Paid(p)
    BY <2>1, <1>m DEF Loaded, SourceInv
  <2> QED
    BY <2>1, <2>2, <2>3, <1>m DEF SourceInv
<1> QED
  BY <1>1, <1>2

\* A reply that is held is not asked for again.
LEMMA HeldIsNotCalled ==
    ASSUME JudgeInv, NEW s \in Scorers, Works(s), NEW p \in Prompts, ask[s].cached,
           ask[s].mem[p] # "none"
    PROVE  calls'[s][p] = calls[s][p]
<1>1. CASE p # Item(s)
  BY <1>1, WorkFrame
<1>2. CASE p = Item(s)
  <2>1. ~PutsAway(s) /\ ~Hears(s)
    BY <1>2 DEF PutsAway, Hears
  <2>2. calls' = calls
    BY <2>1 DEF Works, Skips, Remembers, Fails, Drafts, Lands, Loses, Ends, Quietly
  <2> QED
    BY <2>2
<1> QED
  BY <1>1, <1>2

\* Of two scorers, one that did not meet the other met nobody.
LEMMA MetNobody ==
    ASSUME JudgeInv, NEW s \in Scorers, NEW t \in Scorers, s # t, s \notin ask[t].met
    PROVE  ask[t].met = {}
<1>1. t \notin ask[t].met
  BY DEF JudgeInv, MetInv
<1>2. ask[t].met \subseteq Scorers
  BY DEF JudgeInv, JudgeType, AskRecords
<1> QED
  BY <1>1, <1>2 DEF Scorers

\* What an earlier scorer left is found.
LEMMA AfterKept ==
    ASSUME JudgeInv, NEW s \in Scorers, Starts(s) \/ Works(s)
    PROVE  AfterInv'
<1>m. MetInv /\ AfterInv /\ AloneInv
  BY DEF JudgeInv
<1> SUFFICES ASSUME NEW u \in Scorers, NEW t \in Scorers, t \in ask'[u].after, ask'[u].cached,
                    ask'[t].cached, NEW p \in Prompts, p \in Judged(t)'
             PROVE  ask'[u].mem[p] # "none" /\ calls'[u][p] = 0
  BY DEF AfterInv
<1>1. CASE Works(s)
  <2>1. /\ Busy(s) /\ ask'[u].cached = ask[u].cached /\ ask'[t].cached = ask[t].cached
        /\ ask'[u].after = ask[u].after
        /\ ask[u].mem[p] # "none" => ask'[u].mem[p] = ask[u].mem[p]
        /\ u # s => calls'[u][p] = calls[u][p]
    BY <1>1, WorkFrame
  <2>2. ask[t].at \in {"done", "dead"}
    BY <2>1, <1>m DEF MetInv
  <2>3. t # s
    BY <2>1, <2>2 DEF Busy
  <2>4. Judged(t)' = Judged(t)
    BY <1>1, <2>3, JudgedSame DEF Works
  <2>5. ask[u].mem[p] # "none" /\ calls[u][p] = 0
    BY <2>1, <2>4, <1>m DEF AfterInv
  <2> QED
    BY <1>1, <2>1, <2>5, HeldIsNotCalled
<1>2. CASE Starts(s)
  <2>1. /\ calls' = calls /\ ask[s].at = "new" /\ ask'[s].mem = Loaded(s)
        /\ ask'[s].after = {v \in Scorers : ask[v].at \in {"done", "dead"}}
        /\ \A v \in Scorers : /\ ask'[v].cached = ask[v].cached /\ ask'[v].scores = ask[v].scores
                              /\ v # s => ask'[v].mem = ask[v].mem /\ ask'[v].after = ask[v].after
    BY <1>2 DEF Starts
  <2>2. Judged(t)' = Judged(t)
    BY <2>1, JudgedSame
  <2>3. CASE u # s
    BY <2>1, <2>2, <2>3, <1>m DEF AfterInv
  <2>4. CASE u = s
    <3>1. ask[t].at \in {"done", "dead"} /\ t # s
      BY <2>1, <2>4
    <3>2. ask[t].met = {}
      <4>1. s \notin ask[t].met
        BY <2>1, <1>m DEF MetInv
      <4> QED
        BY <4>1, <3>1, MetNobody
    <3>3. cache[p] # "none"
      BY <2>1, <2>2, <3>2, <1>m DEF AloneInv
    <3>4. ask'[u].mem[p] = cache[p]
      BY <2>1, <2>4 DEF Loaded
    <3>5. calls[u][p] = 0
      BY <2>1, <2>4 DEF JudgeInv, ScorerInv, Unbegun
    <3> QED
      BY <3>3, <3>4, <3>5, <2>1
  <2> QED
    BY <2>3, <2>4
<1> QED
  BY <1>1, <1>2

\* What a scorer holds of the cache.
AloneOne(s) ==
    ask[s].cached /\ ask[s].met = {} =>
        /\ Busy(s) => \A p \in Prompts :
              ask[s].at = "item" \/ p # Item(s) => ask[s].mem[p] = cache[p]
        /\ ask[s].at = "rename" => draft = <<ask[s].mem>>
        /\ \A p \in Prompts : p \in Judged(s) => cache[p] # "none"

\* A scorer nobody met keeps up with the file while it works.
LEMMA AloneOwn ==
    ASSUME JudgeInv, NEW s \in Scorers, Works(s)
    PROVE  AloneOne(s)'
<1>0. /\ Busy(s) /\ ask'[s].cached = ask[s].cached /\ ask'[s].met = ask[s].met
      /\ Item(s) \in Prompts /\ ask[s].mem \in [Prompts -> Replies \cup {"none"}]
  BY WorkFrame, Working DEF Keeps, AskRecords
<1> SUFFICES ASSUME ask[s].cached, ask[s].met = {}
             PROVE  /\ Busy(s)' => \A p \in Prompts :
                          ask'[s].at = "item" \/ p # Item(s)' => ask'[s].mem[p] = cache'[p]
                    /\ ask'[s].at = "rename" => draft' = <<ask'[s].mem>>
                    /\ \A p \in Prompts : p \in Judged(s)' => cache'[p] # "none"
  BY <1>0 DEF AloneOne
<1>a. /\ \A p \in Prompts : ask[s].at = "item" \/ p # Item(s) => ask[s].mem[p] = cache[p]
      /\ ask[s].at = "rename" => draft = <<ask[s].mem>>
      /\ \A p \in Prompts : p \in Judged(s) => cache[p] # "none"
  BY <1>0 DEF JudgeInv, AloneInv
<1>1. ASSUME NEW x \in {"skip", "error"}, ask[s].at = "item", Given(ask[s], ask'[s], x), Quietly
      PROVE  /\ \A p \in Prompts : ask'[s].mem[p] = cache'[p]
             /\ ask'[s].at # "rename"
             /\ \A p \in Prompts : p \in Judged(s)' => cache'[p] # "none"
  <2>1. \A k \in Judged(s)' : k \in Judged(s)
    BY <1>0, <1>1, NewScore DEF Verdicts2
  <2> QED
    BY <1>1, <1>a, <2>1 DEF Given, Quietly
<1>2. CASE Skips(s) \/ Fails(s)
  BY <1>1, <1>2 DEF Skips, Fails
<1>3. CASE Remembers(s)
  <2>1. Reads(ask[s], ask'[s], ask[s].mem[Item(s)]) /\ ask[s].at = "item"
        /\ ask[s].mem[Item(s)] # "none" /\ cache' = cache
    BY <1>3 DEF Remembers, Quietly
  <2>2. /\ \A k \in Judged(s)' : k \in Judged(s) \/ k = Item(s)
        /\ ask'[s].mem = ask[s].mem /\ ask'[s].at \in {"item", "done"}
    BY <2>1, <1>0, NewVerdict
  <2> QED
    BY <2>1, <2>2, <1>a, <1>0
<1>4. CASE PutsAway(s)
  <2>1. /\ ask[s].at = "item" /\ ask'[s].at = "flush" /\ ask'[s].scores = ask[s].scores
        /\ ask'[s].mem = [ask[s].mem EXCEPT ![Item(s)] = ask'[s].reply]
        /\ cache' = cache
    BY <1>4 DEF PutsAway, Called
  <2>2. Judged(s)' = Judged(s) /\ Item(s)' = Item(s)
    BY <2>1, JudgedSame DEF Item
  <2>3. \A p \in Prompts : p # Item(s) => ask'[s].mem[p] = ask[s].mem[p]
    BY <2>1, <1>0
  <2> QED
    BY <2>1, <2>2, <2>3, <1>a
<1>5. CASE Hears(s)
  BY <1>5 DEF Hears
<1>6. CASE Drafts(s)
  <2>1. /\ ask[s].at = "flush" /\ ask'[s].at = "rename" /\ draft' = <<ask[s].mem>> /\ cache' = cache
        /\ ask'[s].mem = ask[s].mem /\ ask'[s].scores = ask[s].scores
    BY <1>6 DEF Drafts, SameBut
  <2>2. Judged(s)' = Judged(s) /\ Item(s)' = Item(s)
    BY <2>1, JudgedSame DEF Item
  <2> QED
    BY <2>1, <2>2, <1>a
<1>7. CASE Lands(s)
  <2>1. /\ ask[s].at = "rename" /\ cache' = draft[1] /\ Reads(ask[s], ask'[s], ask[s].reply)
    BY <1>7 DEF Lands
  <2>2. cache' = ask[s].mem
    BY <2>1, <1>a
  <2>3. /\ \A k \in Judged(s)' : k \in Judged(s) \/ k = Item(s)
        /\ ask'[s].mem = ask[s].mem /\ ask'[s].at \in {"item", "done"}
    BY <2>1, <1>0, NewVerdict
  <2>4. ask[s].mem[Item(s)] # "none"
    BY <2>1, <1>0, Working DEF AtWork
  <2>5. ASSUME NEW p \in Prompts, p \in Judged(s)' PROVE cache'[p] # "none"
    BY <2>2, <2>3, <2>4, <2>5, <1>a
  <2> QED
    BY <2>2, <2>3, <2>5
<1>8. CASE Loses(s)
  BY <1>8, <1>a DEF Loses
<1>9. CASE Ends(s)
  <2>1. /\ ask'[s].at = "dead" /\ cache' = cache /\ ask'[s].scores = ask[s].scores
    BY <1>9 DEF Ends, SameBut, Quietly
  <2>2. Judged(s)' = Judged(s) /\ ~Busy(s)'
    BY <2>1, JudgedSame DEF Busy
  <2> QED
    BY <2>1, <2>2, <1>a
<1> QED
  BY <1>2, <1>3, <1>4, <1>5, <1>6, <1>7, <1>8, <1>9 DEF Works

\* And the other one, which does not run by then, loses nothing of it.
LEMMA AloneKept ==
    ASSUME JudgeInv, NEW s \in Scorers, Starts(s) \/ Works(s)
    PROVE  AloneInv'
<1>m. MetInv /\ AloneInv
  BY DEF JudgeInv
<1> SUFFICES ASSUME NEW u \in Scorers PROVE AloneOne(u)'
  BY DEF AloneInv, AloneOne
<1>1. CASE Works(s) /\ u = s
  BY <1>1, AloneOwn
<1>2. CASE Works(s) /\ u # s
  <2> SUFFICES ASSUME ask'[u].cached, ask'[u].met = {}
               PROVE  /\ ~Busy(u)' /\ ask'[u].at # "rename"
                      /\ \A p \in Prompts : p \in Judged(u)' => cache'[p] # "none"
    BY DEF AloneOne
  <2>0. ask'[u] = ask[u] /\ Busy(s)
    BY <1>2, WorkFrame DEF Works
  <2>1. s \notin ask[u].met
    BY <2>0
  <2>2. ~Busy(u) /\ u \notin ask[s].met
    BY <2>0, <2>1, <1>2, <1>m DEF MetInv
  <2>3. ~Busy(u)' /\ ask'[u].at # "rename"
    BY <2>0, <2>2 DEF Busy
  <2>4. ask[s].met = {}
    BY <2>2, <1>2, MetNobody
  <2>5. ASSUME NEW p \in Prompts, p \in Judged(u)' PROVE cache'[p] # "none"
    <3>1. p \in Judged(u)
      BY <2>0, <2>5, JudgedSame
    <3>2. cache[p] # "none"
      BY <2>0, <3>1, <1>m DEF AloneInv
    <3>3. cache' = cache \/ (ask[s].at = "rename" /\ cache' = draft[1])
      BY <1>2 DEF Works, Skips, Remembers, PutsAway, Hears, Fails, Drafts, Lands, Loses, Ends,
         Quietly, Called
    <3>4. CASE ask[s].at = "rename" /\ cache' = draft[1]
      <4>1. ask[s].cached /\ ask[s].mem[Item(s)] # "none"
        BY <2>0, <3>4, Working DEF AtWork
      <4>2. /\ draft = <<ask[s].mem>>
            /\ p # Item(s) => ask[s].mem[p] = cache[p]
        BY <2>0, <2>4, <3>4, <4>1, <1>m DEF AloneInv
      <4>3. cache'[p] = ask[s].mem[p]
        BY <3>4, <4>2
      <4> QED
        BY <4>1, <4>2, <4>3, <3>2
    <3> QED
      BY <3>2, <3>3, <3>4
  <2> QED
    BY <2>3, <2>5
<1>3. CASE Starts(s)
  <2>0. /\ ask[s].at = "new" /\ cache' = cache /\ draft' = draft
        /\ ask'[s].at = "item" /\ ask'[s].mem = Loaded(s)
        /\ ask'[s].met = {v \in Scorers : Busy(v)}
        /\ \A v \in Scorers : ask'[v].cached = ask[v].cached /\ ask'[v].scores = ask[v].scores
        /\ \A t \in Scorers : t # s =>
              ask'[t].at = ask[t].at
              /\ ask'[t].met = (IF Busy(t) THEN ask[t].met \cup {s} ELSE ask[t].met)
    BY <1>3 DEF Starts
  <2>1. Judged(u)' = Judged(u)
    BY <2>0, JudgedSame
  <2> SUFFICES ASSUME ask'[u].cached, ask'[u].met = {}
               PROVE  /\ Busy(u)' => \A p \in Prompts : ask'[u].mem[p] = cache'[p]
                      /\ ask'[u].at # "rename"
                      /\ \A p \in Prompts : p \in Judged(u)' => cache'[p] # "none"
    BY DEF AloneOne
  <2>2. CASE u = s
    <3>1. ask[s].scores = << >>
      BY <2>0 DEF JudgeInv, ScorerInv, Unbegun
    <3>2. Judged(u) = {}
      BY <2>2, <3>1 DEF Judged
    <3> QED
      BY <2>0, <2>1, <2>2, <3>2 DEF Loaded
  <2>3. CASE u # s
    <3>1. ~Busy(u) /\ ask'[u].met = ask[u].met
      BY <2>0, <2>3
    <3>2. ~Busy(u)' /\ ask'[u].at # "rename"
      BY <2>0, <2>3, <3>1 DEF Busy
    <3>3. \A p \in Prompts : p \in Judged(u) => cache[p] # "none"
      BY <2>0, <3>1, <1>m DEF AloneInv
    <3> QED
      BY <2>0, <2>1, <3>2, <3>3
  <2> QED
    BY <2>2, <2>3
<1> QED
  BY <1>1, <1>2, <1>3

\* A scorer that does not move, or only meets another one.
LEMMA ScorerStill ==
    ASSUME JudgeInv, NEW s \in Scorers, Starts(s) \/ Works(s), NEW u \in Scorers, u # s
    PROVE  ScorerInv(u)'
<1>i. ScorerInv(u)
  BY DEF JudgeInv
<1>1. /\ ask'[u].at = ask[u].at /\ ask'[u].reply = ask[u].reply /\ ask'[u].mem = ask[u].mem
      /\ ask'[u].judge = ask[u].judge /\ ask'[u].cached = ask[u].cached
      /\ ask'[u].got = ask[u].got /\ ask'[u].scores = ask[u].scores
      /\ ask'[u].after = ask[u].after
      /\ calls'[u] = calls[u] /\ job' = job
  BY DEF Starts, Works
<1>2. /\ ask[u].met # {} => ask'[u].met # {}
      /\ ask[u].at = "new" => ask'[u].met = ask[u].met
  <2>1. ask'[u].met = ask[u].met \/ (Busy(u) /\ ask'[u].met = ask[u].met \cup {s})
    BY DEF Starts, Works
  <2> QED
    BY <2>1 DEF Busy
<1>3. ask'[u].at = "new" => Unbegun(u)'
  BY <1>i, <1>1, <1>2 DEF ScorerInv, Unbegun
<1>4. Busy(u)' => AtWork(u)'
  <2>1. Item(u)' = Item(u) /\ (Busy(u)' <=> Busy(u))
    BY <1>1 DEF Item, Busy
  <2>2. AtWork(u) => AtWork(u)'
    BY <1>1, <2>1 DEF AtWork
  <2> QED
    BY <2>1, <2>2, <1>i DEF ScorerInv
<1>5. CallsInv(u)'
  <2>1. CallsInv(u)
    BY <1>i DEF ScorerInv
  <2> QED
    BY <2>1, <1>1 DEF CallsInv
<1>6. ScoresInv(u)'
  <2>1. ScoresInv(u)
    BY <1>i DEF ScorerInv
  <2> QED
    BY <2>1, <1>1, <1>2 DEF ScoresInv
<1> QED
  BY <1>3, <1>4, <1>5, <1>6 DEF ScorerInv

\* The calls of a scorer at work.
LEMMA CallsKept ==
    ASSUME JudgeInv, NEW s \in Scorers, Works(s)
    PROVE  CallsInv(s)'
<1>i. CallsInv(s)
  BY DEF JudgeInv, ScorerInv
<1>0. /\ Busy(s) /\ Keeps(ask[s], ask'[s])
      /\ \A p \in Prompts :
                 /\ calls[s][p] \in Nat /\ calls'[s][p] \in Nat
                 /\ p # Item(s) => calls'[s][p] = calls[s][p] /\ ask'[s].mem[p] = ask[s].mem[p]
                 /\ ask[s].mem[p] # "none" => ask'[s].mem[p] = ask[s].mem[p]
  BY WorkFrame
<1>k. ask'[s].judge = ask[s].judge /\ ask'[s].cached = ask[s].cached
  BY <1>0 DEF Keeps
<1>p. Item(s) \in Prompts /\ ask[s].mem \in [Prompts -> Replies \cup {"none"}]
  BY <1>0, Working DEF AskRecords
<1>c. Called(s) => calls'[s][Item(s)] = calls[s][Item(s)] + 1
  BY <1>p DEF Called, JudgeInv, JudgeType
<1>1. ASSUME ask[s].cached, NEW p \in Prompts
      PROVE  calls'[s][p] <= 1 /\ (calls'[s][p] > 0 => ask'[s].mem[p] # "none")
  <2>1. calls[s][p] <= 1 /\ (calls[s][p] > 0 => ask[s].mem[p] # "none")
    BY <1>1, <1>i DEF CallsInv
  <2>2. CASE calls'[s][p] = calls[s][p]
    BY <2>1, <2>2, <1>0
  <2>3. CASE calls'[s][p] # calls[s][p]
    <3>1. p = Item(s) /\ ask[s].mem[p] = "none"
      BY <1>0, <1>1, <2>3, HeldIsNotCalled
    <3>2. PutsAway(s)
      BY <2>3, <1>1 DEF Works, Skips, Remembers, Hears, Fails, Drafts, Lands, Loses, Ends, Quietly
    <3>3. calls[s][p] = 0
      BY <2>1, <3>1, <1>0
    <3>4. calls'[s][p] = 1
      BY <3>1, <3>2, <3>3, <1>c DEF PutsAway
    <3>5. ask'[s].mem[p] = ask'[s].reply /\ ask'[s].reply \in Replies
      BY <3>1, <3>2, <1>p DEF PutsAway
    <3> QED
      BY <3>4, <3>5 DEF Replies, Verdicts2
  <2> QED
    BY <2>2, <2>3
<1>2. ~ask[s].cached => ask'[s].mem = Empty
  <2>1. \A x : Given(ask[s], ask'[s], x) => ask'[s].mem = ask[s].mem
    BY DEF Given
  <2>2. \A r : Reads(ask[s], ask'[s], r) => ask'[s].mem = ask[s].mem
    BY <2>1 DEF Reads, Sampled
  <2>3. ~ask[s].cached => ask'[s].mem = ask[s].mem
    BY <2>1, <2>2 DEF Works, Skips, Remembers, PutsAway, Hears, Fails, Drafts, Lands, Loses, Ends,
       SameBut
  <2> QED
    BY <2>3, <1>i DEF CallsInv
<1>3. ASSUME ~ask[s].judge PROVE ask'[s].got = << >> /\ \A p \in Prompts : calls'[s][p] = 0
  <2>1. ~ask[s].cached /\ ask[s].got = << >> /\ \A p \in Prompts : calls[s][p] = 0
    BY <1>3, <1>i DEF CallsInv
  <2>2. ask[s].at = "item"
    BY <1>0, <2>1, Working DEF AtWork
  <2>3. Skips(s) \/ Ends(s)
    BY <1>3, <2>1, <2>2 DEF Works, Remembers, PutsAway, Hears, Fails, Drafts, Lands, Loses
  <2> QED
    BY <2>1, <2>3 DEF Skips, Ends, Given, SameBut, Quietly
<1> QED
  BY <1>i, <1>k, <1>1, <1>2, <1>3 DEF CallsInv

\* What a new score must say.
Rightly(s, x) ==
    /\ x \in Verdicts2 =>
          IF ask[s].cached THEN ask[s].mem[Item(s)] = x ELSE calls'[s][Item(s)] = job.samples
    /\ x = "error" => ask[s].mem[Item(s)] \in {"none", "junk"} \/ ask[s].met # {}
    /\ ~ask[s].judge => x = "skip"

\* A score that says it keeps the invariant.
LEMMA GivenKeeps ==
    ASSUME JudgeInv, NEW s \in Scorers, Works(s), NEW x \in Verdicts2 \cup {"skip", "error"},
           Given(ask[s], ask'[s], x), Rightly(s, x)
    PROVE  ScoresInv(s)' /\ (Busy(s)' => AtWork(s)')
<1>i. AtWork(s) /\ ScoresInv(s)
  BY WorkFrame, Working DEF JudgeInv, ScorerInv
<1>0. /\ Busy(s) /\ job' = job /\ job.items \in {1, 2} /\ job.samples \in {1, 3}
      /\ \A p \in Prompts : p # Item(s) => calls'[s][p] = calls[s][p]
  <2>1. Busy(s) /\ job' = job /\ \A p \in Prompts : p # Item(s) => calls'[s][p] = calls[s][p]
    BY WorkFrame DEF Works
  <2>2. job.samples \in {1, 3}
    BY DEF JudgeInv, JudgeType
  <2> QED
    BY <2>1, <2>2, Working
<1>p. Item(s) \in Prompts /\ Item(s) = Len(ask[s].scores) + 1 /\ Len(ask[s].scores) \in Nat
      /\ Len(ask[s].scores) < job.items
  BY <1>0, <1>i, Working DEF AtWork
<1>k. /\ ask'[s].judge = ask[s].judge /\ ask'[s].cached = ask[s].cached /\ ask'[s].mem = ask[s].mem
      /\ ask'[s].met = ask[s].met /\ ask'[s].got = << >>
      /\ ask'[s].at = (IF Len(ask[s].scores) + 1 = job.items THEN "done" ELSE "item")
  BY DEF Given, Keeps
<1>n. /\ Len(ask'[s].scores) = Len(ask[s].scores) + 1 /\ ask'[s].scores[Item(s)] = x
      /\ DOMAIN ask[s].scores = 1 .. Len(ask[s].scores)
      /\ \A k \in DOMAIN ask[s].scores : ask'[s].scores[k] = ask[s].scores[k]
      /\ \A k \in DOMAIN ask'[s].scores : k \in DOMAIN ask[s].scores \/ k = Item(s)
  BY <1>0, NewScore
<1>1. ScoresInv(s)'
  <2>1. Len(ask'[s].scores) <= job.items
    BY <1>n, <1>p, <1>0
  <2>2. ASSUME NEW k \in DOMAIN ask[s].scores
        PROVE  /\ ask'[s].scores[k] \in Verdicts2 =>
                     IF ask'[s].cached THEN ask'[s].mem[k] = ask'[s].scores[k]
                     ELSE calls'[s][k] = job.samples
               /\ ask'[s].scores[k] = "error" => ask'[s].mem[k] \in {"none", "junk"}
                  \/ ask'[s].met # {}
               /\ ~ask'[s].judge => ask'[s].scores[k] = "skip"
    <3>1. k \in Prompts /\ k # Item(s)
      BY <1>n, <1>p, <1>0 DEF Prompts
    <3>2. calls'[s][k] = calls[s][k] /\ ask'[s].scores[k] = ask[s].scores[k]
      BY <3>1, <1>0, <1>n
    <3> QED
      BY <3>2, <1>k, <1>i DEF ScoresInv
  <2>3. /\ ask'[s].scores[Item(s)] \in Verdicts2 =>
              IF ask'[s].cached THEN ask'[s].mem[Item(s)] = ask'[s].scores[Item(s)]
              ELSE calls'[s][Item(s)] = job.samples
        /\ ask'[s].scores[Item(s)] = "error" =>
              ask'[s].mem[Item(s)] \in {"none", "junk"} \/ ask'[s].met # {}
        /\ ~ask'[s].judge => ask'[s].scores[Item(s)] = "skip"
    BY <1>k, <1>n DEF Rightly
  <2> HIDE DEF Item
  <2>4. \A k \in DOMAIN ask'[s].scores :
              /\ ask'[s].scores[k] \in Verdicts2 =>
                     IF ask'[s].cached THEN ask'[s].mem[k] = ask'[s].scores[k]
                     ELSE calls'[s][k] = job.samples
              /\ ask'[s].scores[k] = "error" => ask'[s].mem[k] \in {"none", "junk"}
                 \/ ask'[s].met # {}
              /\ ~ask'[s].judge => ask'[s].scores[k] = "skip"
    BY <2>2, <2>3, <1>n
  <2> QED
    BY <2>1, <2>4, <1>0 DEF ScoresInv
<1>2. ASSUME Busy(s)' PROVE AtWork(s)'
  <2>1. ask'[s].at = "item" /\ Len(ask[s].scores) + 1 # job.items
    BY <1>2, <1>k DEF Busy
  <2>2. Len(ask'[s].scores) < job.items
    BY <2>1, <1>n, <1>p, <1>0
  <2>3. Len(ask'[s].got) = 0 /\ 0 < job.samples /\ DOMAIN ask'[s].got = {}
    BY <1>k, <1>0
  <2>4. Item(s)' = Item(s) + 1
    BY <1>n, <1>p DEF Item
  <2>5. Item(s)' \in Prompts /\ Item(s)' # Item(s) /\ Item(s)' > Item(s)
    BY <2>2, <2>4, <1>n, <1>p, <1>0 DEF Prompts
  <2>6. ASSUME ~ask[s].cached
        PROVE  calls'[s][Item(s)'] = 0 /\ \A p \in Prompts : p > Item(s)' => calls'[s][p] = 0
    <3>1. \A p \in Prompts : p > Item(s) => calls[s][p] = 0
      BY <2>6, <1>i DEF AtWork
    <3>2. \A p \in Prompts : p > Item(s) => calls'[s][p] = 0
      BY <3>1, <1>0, <1>p DEF Prompts
    <3>3. \A p \in Prompts : p > Item(s)' => p > Item(s)
      BY <2>4, <1>p DEF Prompts
    <3> QED
      BY <3>2, <3>3, <2>5
  <2> QED
    BY <2>1, <2>2, <2>3, <2>6, <1>k, <1>0 DEF AtWork
<1> QED
  BY <1>1, <1>2

\* So does one more sample.
LEMMA SampledKeeps ==
    ASSUME JudgeInv, NEW s \in Scorers, Works(s), NEW v \in Verdicts2,
           Sampled(ask[s], ask'[s], v),
           ask[s].cached => v = ask[s].mem[Item(s)],
           ~ask[s].cached => ask[s].judge /\ calls'[s][Item(s)] = calls[s][Item(s)] + 1
    PROVE  ScoresInv(s)' /\ AtWork(s)'
<1>i. AtWork(s) /\ ScoresInv(s) /\ ask[s] \in AskRecords
  BY WorkFrame, Working DEF JudgeInv, ScorerInv
<1>0. /\ Busy(s) /\ job' = job /\ job.samples \in {1, 3} /\ job.items \in {1, 2}
      /\ \A p \in Prompts : p # Item(s) => calls'[s][p] = calls[s][p]
  <2>1. Busy(s) /\ job' = job /\ \A p \in Prompts : p # Item(s) => calls'[s][p] = calls[s][p]
    BY WorkFrame DEF Works
  <2>2. job.samples \in {1, 3}
    BY DEF JudgeInv, JudgeType
  <2> QED
    BY <2>1, <2>2, Working
<1>p. Item(s) \in Prompts /\ Item(s) = Len(ask[s].scores) + 1 /\ Len(ask[s].scores) \in Nat
      /\ Len(ask[s].scores) < job.items
  BY <1>0, <1>i, Working DEF AtWork
<1>k. /\ ask'[s].judge = ask[s].judge /\ ask'[s].cached = ask[s].cached /\ ask'[s].mem = ask[s].mem
      /\ ask'[s].met = ask[s].met /\ ask'[s].got = Append(ask[s].got, v)
      /\ ask'[s].scores = ask[s].scores /\ ask'[s].at = "item"
      /\ Len(ask[s].got) + 1 # job.samples
  BY DEF Sampled, Keeps
<1>g. ask[s].got \in Seq(Verdicts2)
  BY <1>i DEF AskRecords
<1>n. /\ Len(ask'[s].got) = Len(ask[s].got) + 1 /\ Len(ask[s].got) \in Nat
      /\ DOMAIN ask'[s].got = 1 .. Len(ask[s].got) + 1 /\ DOMAIN ask[s].got = 1 .. Len(ask[s].got)
      /\ \A i \in 1 .. Len(ask[s].got) : ask'[s].got[i] = ask[s].got[i]
      /\ ask'[s].got[Len(ask[s].got) + 1] = v
  BY <1>g, <1>k, OneMore
<1>t. Item(s)' = Item(s)
  BY <1>k DEF Item
<1>1. ScoresInv(s)'
  <2>1. ASSUME NEW k \in DOMAIN ask[s].scores PROVE calls'[s][k] = calls[s][k]
    <3>1. DOMAIN ask[s].scores = 1 .. Len(ask[s].scores)
      BY <1>i DEF AskRecords
    <3>2. k \in Prompts /\ k # Item(s)
      BY <3>1, <1>p, <1>0 DEF Prompts
    <3> QED
      BY <3>2, <1>0
  <2> QED
    BY <2>1, <1>0, <1>k, <1>i DEF ScoresInv
<1>2. AtWork(s)'
  <2>1. Len(ask'[s].got) < job.samples
    <3>1. Len(ask[s].got) < job.samples
      BY <1>i DEF AtWork
    <3> QED
      BY <3>1, <1>n, <1>k, <1>0
  <2>2. ASSUME ask[s].cached, NEW i \in DOMAIN ask'[s].got
               PROVE ask'[s].got[i] = ask[s].mem[Item(s)]
    <3>1. i \in 1 .. Len(ask[s].got) \/ i = Len(ask[s].got) + 1
      BY <1>n
    <3>2. \A j \in DOMAIN ask[s].got : ask[s].got[j] = ask[s].mem[Item(s)]
      BY <2>2, <1>i DEF AtWork
    <3> QED
      BY <3>1, <3>2, <2>2, <1>n
  <2>3. ASSUME ~ask[s].cached
        PROVE  /\ calls'[s][Item(s)] = Len(ask'[s].got)
               /\ \A p \in Prompts : p > Item(s) => calls'[s][p] = 0
    <3>1. calls[s][Item(s)] = Len(ask[s].got) /\ \A p \in Prompts : p > Item(s) => calls[s][p] = 0
      BY <2>3, <1>i DEF AtWork
    <3>2. \A p \in Prompts : p > Item(s) => p # Item(s)
      BY <1>p DEF Prompts
    <3> QED
      BY <3>1, <3>2, <2>3, <1>n, <1>0
  <2>4. Len(ask[s].scores) < job.items
    BY <1>p
  <2> QED
    BY <2>1, <2>2, <2>3, <2>4, <1>k, <1>t, <1>0 DEF AtWork
<1> QED
  BY <1>1, <1>2

\* A reply that is read, when the scorer holds it, or has just paid for it.
LEMMA ReadKeeps ==
    ASSUME JudgeInv, NEW s \in Scorers, Works(s), NEW reply \in Replies,
           Reads(ask[s], ask'[s], reply),
           ask[s].judge,
           ask[s].cached => reply = ask[s].mem[Item(s)],
           ~ask[s].cached => calls'[s][Item(s)] = calls[s][Item(s)] + 1
    PROVE  ScoresInv(s)' /\ (Busy(s)' => AtWork(s)')
<1>0. Busy(s)
  BY WorkFrame
<1>i. Item(s) \in Prompts /\ AtWork(s) /\ CallsInv(s) /\ ask[s] \in AskRecords
  BY <1>0, Working DEF JudgeInv, ScorerInv
<1>1. CASE reply = "junk" /\ Given(ask[s], ask'[s], "error")
  <2>1. Rightly(s, "error")
    <3>1. ask[s].mem[Item(s)] \in {"none", "junk"}
      <4>1. ~ask[s].cached => ask[s].mem[Item(s)] = "none"
        BY <1>i DEF CallsInv, Empty
      <4> QED
        BY <4>1, <1>1
    <3> QED
      BY <3>1 DEF Rightly, Verdicts2
  <2> QED
    BY <1>1, <2>1, GivenKeeps
<1>2. CASE reply \in Verdicts2 /\ Sampled(ask[s], ask'[s], reply)
  BY <1>2, SampledKeeps
<1>3. ASSUME reply \in Verdicts2, Len(ask[s].got) + 1 = job.samples, NEW x \in Verdicts2,
             Given(ask[s], ask'[s], x), x = reply \/ \E i \in DOMAIN ask[s].got : x = ask[s].got[i]
      PROVE  ScoresInv(s)' /\ (Busy(s)' => AtWork(s)')
  <2>1. ask[s].cached => ask[s].mem[Item(s)] = x
    BY <1>3, <1>i DEF AtWork
  <2>2. ~ask[s].cached => calls'[s][Item(s)] = job.samples
    <3>1. ~ask[s].cached => calls[s][Item(s)] = Len(ask[s].got)
      BY <1>i DEF AtWork
    <3> QED
      BY <3>1, <1>3
  <2>3. Rightly(s, x)
    BY <2>1, <2>2, <1>3 DEF Rightly, Verdicts2
  <2> QED
    BY <1>3, <2>3, GivenKeeps
<1> QED
  BY <1>1, <1>2, <1>3 DEF Reads

\* The scores of a scorer at work.
LEMMA ScorerMoves ==
    ASSUME JudgeInv, NEW s \in Scorers, Works(s)
    PROVE  ScoresInv(s)' /\ (Busy(s)' => AtWork(s)')
<1>0. Busy(s) /\ job' = job
  BY WorkFrame DEF Works
<1>i. /\ Item(s) \in Prompts /\ AtWork(s) /\ CallsInv(s) /\ ScoresInv(s) /\ ask[s] \in AskRecords
      /\ ask[s].mem \in [Prompts -> Replies \cup {"none"}]
  BY <1>0, Working DEF JudgeInv, ScorerInv, AskRecords
<1>e. ~ask[s].cached => ask[s].mem[Item(s)] = "none"
  BY <1>i DEF CallsInv, Empty
<1>1. CASE Skips(s)
  <2>1. Rightly(s, "skip")
    BY DEF Rightly, Verdicts2
  <2> QED
    BY <1>1, <2>1, GivenKeeps DEF Skips
<1>2. CASE Remembers(s)
  <2>1. ask[s].judge /\ ask[s].cached /\ ask[s].mem[Item(s)] \in Replies
        /\ Reads(ask[s], ask'[s], ask[s].mem[Item(s)])
    BY <1>2, <1>e, <1>i DEF Remembers
  <2> QED
    BY <2>1, ReadKeeps
<1>3. CASE Hears(s)
  <2>1. PICK reply \in Replies : Reads(ask[s], ask'[s], reply)
    BY <1>3 DEF Hears
  <2>2. ask[s].judge /\ ~ask[s].cached /\ Called(s)
    BY <1>3 DEF Hears
  <2>3. calls'[s][Item(s)] = calls[s][Item(s)] + 1
    BY <2>2, <1>i DEF Called, JudgeInv, JudgeType
  <2> QED
    BY <2>1, <2>2, <2>3, ReadKeeps
<1>4. CASE Fails(s)
  <2>1. Rightly(s, "error")
    BY <1>4 DEF Fails, Rightly, Verdicts2
  <2> QED
    BY <1>4, <2>1, GivenKeeps DEF Fails
<1>5. CASE Lands(s)
  <2>1. /\ ask[s].at = "rename" /\ Reads(ask[s], ask'[s], ask[s].reply)
    BY <1>5 DEF Lands
  <2>2. ask[s].cached /\ ask[s].reply = ask[s].mem[Item(s)] /\ ask[s].reply \in Replies
    BY <2>1, <1>i DEF AtWork, AskRecords
  <2>3. ask[s].judge
    BY <2>2, <1>i DEF CallsInv
  <2> QED
    BY <2>1, <2>2, <2>3, ReadKeeps
<1>6. CASE Loses(s)
  <2>1. ask[s].at = "rename" /\ draft = << >> /\ Given(ask[s], ask'[s], "error")
    BY <1>6 DEF Loses
  <2>2. ask[s].cached
    BY <2>1, <1>i DEF AtWork
  <2>3. ask[s].judge
    BY <2>2, <1>i DEF CallsInv
  <2>4. ask[s].met # {}
    <3>1. ask[s].met = {} => draft = <<ask[s].mem>>
      BY <2>1, <2>2 DEF JudgeInv, AloneInv
    <3> QED
      BY <3>1, <2>1
  <2>5. Rightly(s, "error")
    BY <2>3, <2>4 DEF Rightly, Verdicts2
  <2> QED
    BY <2>1, <2>5, GivenKeeps
<1>7. CASE PutsAway(s)
  <2>1. /\ ask[s].cached /\ ask[s].mem[Item(s)] = "none"
        /\ ask'[s].judge = ask[s].judge /\ ask'[s].cached = ask[s].cached
           /\ ask'[s].met = ask[s].met
        /\ ask'[s].at = "flush" /\ ask'[s].reply \in Replies
        /\ ask'[s].mem = [ask[s].mem EXCEPT ![Item(s)] = ask'[s].reply]
        /\ ask'[s].got = ask[s].got /\ ask'[s].scores = ask[s].scores
    BY <1>7 DEF PutsAway, Keeps
  <2>2. Item(s)' = Item(s)
    BY <2>1 DEF Item
  <2>3. DOMAIN ask[s].got = {}
    <3>1. \A i \in DOMAIN ask[s].got : ask[s].got[i] = "none"
      BY <2>1, <1>i DEF AtWork
    <3>2. \A i \in DOMAIN ask[s].got : ask[s].got[i] \in Verdicts2
      BY <1>i DEF AskRecords
    <3> QED
      BY <3>1, <3>2 DEF Verdicts2
  <2>4. ask'[s].mem[Item(s)] = ask'[s].reply /\ ask'[s].reply # "none"
    BY <2>1, <1>i DEF Replies, Verdicts2
  <2>5. AtWork(s)'
    BY <2>1, <2>2, <2>3, <2>4, <1>0, <1>i DEF AtWork
  <2>6. ASSUME NEW k \in DOMAIN ask[s].scores PROVE ask'[s].mem[k] = ask[s].mem[k]
    <3>1. k \in Prompts /\ k # Item(s)
      <4>1. DOMAIN ask[s].scores = 1 .. Len(ask[s].scores)
        BY <1>i DEF AskRecords
      <4>2. Item(s) = Len(ask[s].scores) + 1 /\ Len(ask[s].scores) \in Nat
        BY <1>0, Working
      <4> QED
        BY <4>1, <4>2, <1>i DEF Prompts
    <3> QED
      BY <3>1, <2>1, <1>i
  <2>7. ScoresInv(s)'
    BY <2>1, <2>6, <1>0, <1>i DEF ScoresInv
  <2> QED
    BY <2>5, <2>7
<1>8. CASE Drafts(s) \/ Ends(s)
  <2>1. /\ SameBut(ask[s], ask'[s]) /\ calls' = calls
        /\ ask'[s].at = "dead" \/ (ask[s].at = "flush" /\ ask'[s].at = "rename")
    BY <1>8 DEF Drafts, Ends, Quietly
  <2>2. /\ ask'[s].judge = ask[s].judge /\ ask'[s].cached = ask[s].cached
           /\ ask'[s].met = ask[s].met
        /\ ask'[s].mem = ask[s].mem /\ ask'[s].got = ask[s].got /\ ask'[s].scores = ask[s].scores
        /\ ask'[s].reply = ask[s].reply
    BY <2>1 DEF SameBut, Keeps
  <2>3. Item(s)' = Item(s)
    BY <2>2 DEF Item
  <2>4. ScoresInv(s)'
    BY <2>1, <2>2, <1>0, <1>i DEF ScoresInv
  <2>5. Busy(s)' => AtWork(s)'
    <3>1. Busy(s)' => ask[s].at = "flush" /\ ask'[s].at = "rename"
      BY <2>1 DEF Busy
    <3>2. ask[s].at = "flush" /\ ask'[s].at = "rename" => AtWork(s)'
      BY <2>1, <2>2, <2>3, <1>0, <1>i DEF AtWork
    <3> QED
      BY <3>1, <3>2
  <2> QED
    BY <2>4, <2>5
<1> QED
  BY <1>1, <1>2, <1>3, <1>4, <1>5, <1>6, <1>7, <1>8 DEF Works

\* A scorer that has just begun.
LEMMA ScorerStarts ==
    ASSUME JudgeInv, suite' = suite, NEW s \in Scorers, Starts(s)
    PROVE  ScorerInv(s)'
<1>1. /\ ask[s].at = "new" /\ suite = "judged" /\ calls' = calls /\ job' = job /\ cache' = cache
      /\ ask'[s].at = "item" /\ ask'[s].mem = Loaded(s)
      /\ ask'[s].judge = ask[s].judge /\ ask'[s].cached = ask[s].cached
      /\ ask'[s].got = ask[s].got /\ ask'[s].scores = ask[s].scores
  BY DEF Starts
<1>2. /\ ask[s].got = << >> /\ ask[s].scores = << >> /\ \A p \in Prompts : calls[s][p] = 0
      /\ CallsInv(s)
  BY <1>1 DEF JudgeInv, ScorerInv, Unbegun
<1>3. job.items \in {1, 2} /\ job.samples \in {1, 3}
  BY <1>1 DEF JudgeInv, JudgeType
<1>4. Len(<< >>) = 0 /\ DOMAIN << >> = {}
  OBVIOUS
<1>5. CallsInv(s)'
  BY <1>1, <1>2 DEF CallsInv, Loaded
<1>6. ScoresInv(s)'
  BY <1>1, <1>2, <1>3, <1>4 DEF ScoresInv
<1>7. AtWork(s)'
  <2>1. Item(s)' = 1
    BY <1>1, <1>2, <1>4 DEF Item
  <2>2. 1 \in Prompts
    BY DEF Prompts
  <2> QED
    BY <1>1, <1>2, <1>3, <1>4, <2>1, <2>2 DEF AtWork
<1> QED
  BY <1>1, <1>5, <1>6, <1>7 DEF ScorerInv

\* A step of the judge keeps the invariant; a step of anything else does not touch it.
LEMMA JudgeKeeps ==
    ASSUME JudgeInv, suite' = suite, JudgeStep \/ UNCHANGED judgeVars
    PROVE  JudgeInv'
<1>1. CASE JudgeStep
  <2>1. PICK s \in Scorers : Starts(s) \/ Works(s)
    BY <1>1, JudgeMoves
  <2>2. JudgeType' /\ MetInv' /\ SourceInv' /\ AloneInv' /\ AfterInv'
    BY <2>1, JudgeTypeKept, MetKept, SourceKept, AloneKept, AfterKept
  <2>3. ASSUME NEW u \in Scorers PROVE ScorerInv(u)'
    <3>1. CASE u # s
      BY <2>1, <3>1, ScorerStill
    <3>2. CASE u = s /\ Starts(s)
      BY <3>2, ScorerStarts
    <3>3. CASE u = s /\ Works(s)
      <4>1. ScoresInv(s)' /\ (Busy(s)' => AtWork(s)') /\ CallsInv(s)' /\ ask'[s].at # "new"
        BY <3>3, ScorerMoves, CallsKept, WorkFrame
      <4> QED
        BY <3>3, <4>1 DEF ScorerInv
    <3> QED
      BY <2>1, <3>1, <3>2, <3>3
  <2> QED
    BY <2>2, <2>3 DEF JudgeInv
<1>2. CASE UNCHANGED judgeVars
  BY <1>2 DEF judgeVars, JudgeInv, JudgeType, MetInv, SourceInv, AloneInv, AfterInv, ScorerInv,
     Unbegun, AtWork, CallsInv, ScoresInv, Item, Busy, Paid, Judged
<1> QED
  BY <1>1, <1>2

\* The invariant holds before anyone has begun.
LEMMA JudgeStarts ==
    ASSUME JudgeInit
    PROVE  JudgeInv
<1>1. \A s \in Scorers : \E judge, cached \in BOOLEAN :
          ask[s] = Fresh(judge, cached) /\ (cached => judge)
  BY DEF JudgeInit
<1>2. ASSUME NEW s \in Scorers
      PROVE  /\ ask[s] \in AskRecords /\ ask[s].at = "new" /\ Unbegun(s) /\ CallsInv(s)
                /\ ScoresInv(s)
  <2>1. PICK judge, cached \in BOOLEAN : ask[s] = Fresh(judge, cached) /\ (cached => judge)
    BY <1>1
  <2>2. /\ ask[s].judge = judge /\ ask[s].cached = cached /\ ask[s].at = "new"
        /\ ask[s].mem = Empty /\ ask[s].got = << >> /\ ask[s].scores = << >>
        /\ ask[s].met = {} /\ ask[s].after = {}
    BY <2>1 DEF Fresh
  <2>3. \A p \in Prompts : calls[s][p] = 0
    BY DEF JudgeInit
  <2>4. ask[s] \in AskRecords
    BY <2>1 DEF Fresh, AskRecords, Empty
  <2>5. job.items \in {0, 1, 2} /\ Len(<< >>) = 0 /\ DOMAIN << >> = {}
    BY DEF JudgeInit, Jobs
  <2>6. ScoresInv(s)
    BY <2>2, <2>5 DEF ScoresInv
  <2> QED
    BY <2>1, <2>2, <2>3, <2>4, <2>6 DEF Unbegun, CallsInv
<1>3. \A s \in Scorers : ask[s].met = {} /\ ask[s].after = {} /\ Judged(s) = {} /\ ~Busy(s)
  BY <1>2 DEF Unbegun, Judged, Busy
<1>4. JudgeType
  <2>1. job \in [items : {0, 1, 2}, samples : {1, 3}] /\ (suite = "judged" => job.items # 0)
    BY DEF JudgeInit, Jobs
  <2>2. ask \in [Scorers -> AskRecords]
    BY <1>2 DEF JudgeInit
  <2>3. /\ cache \in [Prompts -> Replies \cup {"none"}] /\ draft = << >>
        /\ calls \in [Scorers -> [Prompts -> Nat]]
    BY DEF JudgeInit, Empty
  <2> QED
    BY <2>1, <2>2, <2>3 DEF JudgeType
<1>5. MetInv /\ AloneInv /\ AfterInv
  BY <1>2, <1>3 DEF MetInv, AloneInv, AfterInv
<1>6. SourceInv
  BY <1>2 DEF SourceInv, JudgeInit, Empty, Unbegun
<1> QED
  BY <1>2, <1>3, <1>4, <1>5, <1>6 DEF JudgeInv, ScorerInv

\* No verdict is paid for twice, none is lost or made up.
LEMMA JudgeHonest ==
    ASSUME JudgeInv
    PROVE  JudgeIsHonest
<1>c. /\ \A s \in Scorers : \A p \in Prompts : calls[s][p] \in Nat
      /\ job.items \in {0, 1, 2}
  BY DEF JudgeInv, JudgeType
<1>1. PaidOnce
  <2>1. ASSUME NEW s \in Scorers, NEW t \in Scorers, t \in ask[s].after, ask[s].cached,
               ask[t].cached,
               NEW p \in Prompts, calls[s][p] > 0
        PROVE  p \notin Judged(t) /\ calls[s][p] <= 1
    BY <2>1, <1>c DEF JudgeInv, AfterInv, ScorerInv, CallsInv
  <2>2. ASSUME NEW p \in Prompts, cache[p] # "none" PROVE \E s \in Scorers : ask[s].cached
               /\ calls[s][p] > 0
    BY <2>2 DEF JudgeInv, SourceInv, Paid
  <2>3. ASSUME NEW p \in Prompts, NEW s \in Scorers
        PROVE  /\ ask[s].cached /\ p \in Judged(s) /\ ask[s].met = {} => cache[p] # "none"
               /\ ask[s].cached => calls[s][p] <= 1
    BY DEF JudgeInv, AloneInv, ScorerInv, CallsInv
  <2> QED
    BY <2>1, <2>2, <2>3 DEF PaidOnce
<1>2. VerdictsAreReal
  <2> SUFFICES ASSUME NEW s \in Scorers, NEW k \in DOMAIN ask[s].scores
               PROVE  /\ k \in Judged(s) =>
                            IF ask[s].cached
                            THEN ask[s].mem[k] = ask[s].scores[k]
                            /\ \E t \in Scorers : calls[t][k] > 0
                            ELSE calls[s][k] = job.samples
                      /\ ask[s].scores[k] = "error" =>
                            ask[s].mem[k] \in {"none", "junk"} \/ ask[s].met # {}
                      /\ ~ask[s].judge => ask[s].scores[k] = "skip" /\ calls[s][k] = 0
    BY DEF VerdictsAreReal
  <2>i. ScoresInv(s) /\ CallsInv(s) /\ ask[s] \in AskRecords
    BY DEF JudgeInv, ScorerInv, JudgeType
  <2>1. k \in Prompts
    <3>1. DOMAIN ask[s].scores = 1 .. Len(ask[s].scores) /\ Len(ask[s].scores) \in Nat
      BY <2>i DEF AskRecords
    <3>2. Len(ask[s].scores) <= job.items
      BY <2>i DEF ScoresInv
    <3> QED
      BY <3>1, <3>2, <1>c DEF Prompts
  <2>2. k \in Judged(s) =>
            IF ask[s].cached THEN ask[s].mem[k] = ask[s].scores[k] ELSE calls[s][k] = job.samples
    BY <2>i DEF Judged, ScoresInv
  <2>3. ASSUME k \in Judged(s), ask[s].cached PROVE \E t \in Scorers : calls[t][k] > 0
    <3>1. ask[s].mem[k] # "none"
      BY <2>2, <2>3 DEF Judged, Verdicts2
    <3> QED
      BY <3>1, <2>1, <2>3 DEF JudgeInv, SourceInv, Paid
  <2>4. ask[s].scores[k] = "error" => ask[s].mem[k] \in {"none", "junk"} \/ ask[s].met # {}
    BY <2>i DEF ScoresInv
  <2>5. ~ask[s].judge => ask[s].scores[k] = "skip" /\ calls[s][k] = 0
    BY <2>i, <2>1 DEF ScoresInv, CallsInv
  <2> QED
    BY <2>2, <2>3, <2>4, <2>5
<1> QED
  BY <1>1, <1>2 DEF JudgeIsHonest

\* What the suites publish, and what a judge says of their items, is what was done.
THEOREM SuitesNumbersAreHonest == Spec => []NumbersAreHonest
<1>1. Init => JudgeInv
  BY JudgeStarts DEF Init
<1>2. JudgeInv /\ [Next]_vars => JudgeInv'
  <2> SUFFICES ASSUME JudgeInv, [Next]_vars PROVE JudgeInv'
    OBVIOUS
  <2>1. JudgeStep \/ UNCHANGED judgeVars
    BY DEF Next, vars, Solo, Tpc, Dis, Proxy, After
  <2>2. suite' = suite
    BY ScoreFrame
  <2> QED
    BY <2>1, <2>2, JudgeKeeps
<1>3. JudgeInv => JudgeIsHonest
  BY JudgeHonest
<1> QED
  BY SuitesScoresAreHonest, <1>1, <1>2, <1>3, PTL DEF Spec, NumbersAreHonest
=============================================================================
