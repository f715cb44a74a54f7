----------------------------- MODULE FaultProbes -----------------------------
(***************************************************************************)
(* The probes that inject faults: fault recovery, retry storm and          *)
(* head-of-line blocking (probe/dataplane.py and the transports' own       *)
(* versions), the mock tool server they configure (mock_tools.py) and the  *)
(* deployed agent that retries (agent_bundle/agent.py).                    *)
(*                                                                         *)
(* The mock keeps ONE fault and ONE latency configuration and a call       *)
(* counter per correlation id.  Several probes, run by several control     *)
(* planes, may use the same mock.  Between a probe and its agent stands    *)
(* the platform, which may cut an invoke (the agent goes on), answer with  *)
(* an error, or deliver the invoke again.                                  *)
(*                                                                         *)
(* Time appears in the blocking probe only, in the unit of one latency     *)
(* configuration: a platform takes `pace` for a request and either queues  *)
(* the requests of a session or serves them side by side.  Its pace is the *)
(* same before and after the slow request, and no quick request fails.     *)
(* Bounds: WarmAttempts (6 in the code), FastCount (20), MaxPace and       *)
(* MaxUpsets, the number of faults of the environment.                     *)
(***************************************************************************)
EXTENDS Naturals, FiniteSets

CONSTANTS
    Probes,         \* the probes; each one's correlation id is its own name
    None,           \* no correlation id
    WarmAttempts,   \* invokes of one warm-up
    MaxUpsets,      \* lost posts and reads, failed calls, cuts, redeliveries
    FastCount,      \* quick requests the blocking probe sends at once
    SlowLatency,    \* what the latency configuration adds to its slow one
    MaxPace         \* the longest an undisturbed request takes

ASSUME ProbesAssumption == None \notin Probes /\ WarmAttempts \in Nat \ {0} /\ MaxUpsets \in Nat
ASSUME PaceAssumption == FastCount \in Nat \ {0} /\ SlowLatency \in Nat /\ MaxPace \in Nat \ {0}

VARIABLES
    kind,       \* which probe p runs
    serial,     \* does the platform queue the calls of one session?
    pace,       \* what it takes for an undisturbed call
    ahead,      \* the quick requests the slow one finds queued before it
    point,         \* where p is
    counts,     \* ToolState.call_counts, by correlation id
    fault,      \* ToolState.fault
    latency,    \* ToolState.latency: the correlation id it is for, or None
    agent,      \* the delivery of p's invoke the agent works on
    heard,      \* what p's invoke came back with
    observed,   \* the calls p read off the mock
    held,       \* was p's slow request held back by the latency configuration?
    upsets,     \* faults of the environment so far
    \* history, read by the properties only
    alone,      \* no upset and no other probe's configuration touched p
    cut,        \* the platform cut p's invoke
    again,      \* the platform delivered p's invoke again
    tried,      \* calls made for p that reached the mock
    hits        \* <<correlation id of the call, owner of the configuration>>

platform == <<serial, pace, ahead>>
mock == <<counts, fault, latency>>
faultHistory == <<alone, cut, again, tried, hits>>
faultVars == <<kind, platform, point, mock, agent, heard, observed, held, upsets, faultHistory>>

ProbeKinds == {"recovery", "storm", "aliyunStorm", "awsStorm", "hol", "awsRecovery", "simRecovery",
          "aliyunHol", "awsHol", "simHol"}
SdkStorms == {"aliyunStorm", "awsStorm"}
Simulated == {"awsRecovery", "simRecovery"}
PlainHols == {"aliyunHol", "awsHol", "simHol"}
NoFault == [corr |-> None, calls |-> "never"]

Max_retries == 2    \* AGENT_RETRY_POLICY["max_retries"]
MaxAttempts == Max_retries + 1

(***************************************************************************)
(* The mock tool server                                                    *)
(***************************************************************************)

\* The bucket a call is counted in: its own correlation id's.
BucketKey(corr) == corr

NextCallIndex(corr) == counts' = [counts EXCEPT ![BucketKey(corr)] = @ + 1]

\* The status forced on the idx-th call of corr, 200 when it is served normally.
FaultStatusForAll(corr, idx) ==
    IF fault.calls = "all" \/ (fault.calls = "first" /\ idx = 1) THEN 500 ELSE 200
FaultStatusFor(corr, idx) ==
    IF fault.corr = corr /\ (fault.calls = "all" \/ (fault.calls = "first" /\ idx = 1))
    THEN 500 ELSE 200

LatencyFor(corr) == latency = corr

PostFaultConfig(cfg) == fault' = cfg /\ UNCHANGED latency
PostLatencyConfig(corr) == latency' = corr /\ UNCHANGED fault

(***************************************************************************)
(* The agent: handle_invoke makes the call, and makes it again after a 5xx *)
(* until the attempts are used up; 599 (no answer) and 4xx end it.         *)
(***************************************************************************)
Idle == [state |-> "idle", tries |-> 0, status |-> 0]
Fresh == [state |-> "calling", tries |-> 0, status |-> 0]

MayRetryAnything(status, tries) == status # 200 /\ tries < MaxAttempts
MayRetry(status, tries) == status = 500 /\ tries < MaxAttempts

Settle(p, status, tries) ==
    agent' = [agent EXCEPT ![p] =
        [state |-> IF MayRetry(status, tries) THEN "calling" ELSE "answered",
         tries |-> tries, status |-> status]]

Upset(p) == upsets < MaxUpsets /\ upsets' = upsets + 1 /\ alone' = [alone EXCEPT ![p] = FALSE]
Calm == UNCHANGED <<upsets, alone>>

\* The call reaches the mock, which counts it first and decides on the
\* fault later, under a second lock: the configuration may change between.
AgentReaches(p) ==
    /\ agent[p].state = "calling"
    /\ agent' = [agent EXCEPT ![p].state = "counted"]
    /\ NextCallIndex(p)
    /\ tried' = [tried EXCEPT ![p] = @ + 1]
    /\ UNCHANGED <<kind, platform, point, fault, latency, heard, observed, held, upsets, alone, cut,
                   again, hits>>

AgentServed(p) ==
    LET status == FaultStatusFor(p, counts[BucketKey(p)])
        tries == agent[p].tries + 1
    IN  /\ agent[p].state = "counted"
        /\ \/ Calm /\ Settle(p, status, tries)
           \/ Upset(p) /\ Settle(p, 599, tries)        \* the answer came too late
        /\ hits' = hits \cup (IF status = 500 THEN {<<p, fault.corr>>} ELSE {})
                        \cup (IF kind[p] = "hol" /\ LatencyFor(p) THEN {<<p, latency>>} ELSE {})
        /\ held' = [held EXCEPT ![p] = kind[p] = "hol" /\ LatencyFor(p)]
        /\ UNCHANGED <<kind, platform, point, mock, heard, observed, cut, again, tried>>

\* The mock cannot be reached, or rejects the token: the call is not counted.
AgentUnreached(p) ==
    /\ agent[p].state = "calling"
    /\ Upset(p)
    /\ \E status \in {401, 599} : Settle(p, status, agent[p].tries + 1)
    /\ UNCHANGED <<kind, platform, point, mock, heard, observed, held, cut, again, tried, hits>>

(***************************************************************************)
(* The platform                                                            *)
(***************************************************************************)
PlatformAnswers(p) ==
    /\ point[p] = "wait" /\ heard[p] = "pending" /\ agent[p].state = "answered"
    /\ heard' = [heard EXCEPT ![p] = IF agent[p].status = 200 THEN "ok" ELSE "failed"]
    /\ UNCHANGED <<kind, platform, point, mock, agent, observed, held, upsets, faultHistory>>

\* A timeout or a dropped connection; the agent is not told.
PlatformCuts(p) ==
    /\ point[p] = "wait" /\ heard[p] = "pending"
    /\ Upset(p)
    /\ \E how \in {"timeout", "reset"} : heard' = [heard EXCEPT ![p] = how]
    /\ cut' = [cut EXCEPT ![p] = TRUE]
    /\ UNCHANGED <<kind, platform, point, mock, agent, observed, held, again, tried, hits>>

PlatformRefuses(p) ==
    /\ point[p] = "wait" /\ heard[p] = "pending" /\ agent[p].state = "calling" /\ agent[p].tries = 0
    /\ Upset(p)
    /\ heard' = [heard EXCEPT ![p] = "error"]
    /\ agent' = [agent EXCEPT ![p] = Idle]
    /\ UNCHANGED <<kind, platform, point, mock, observed, held, cut, again, tried, hits>>

PlatformRedelivers(p) ==
    /\ point[p] = "wait" /\ heard[p] = "pending" /\ agent[p].state = "answered"
    /\ Upset(p)
    /\ agent' = [agent EXCEPT ![p] = Fresh]
    /\ again' = [again EXCEPT ![p] = TRUE]
    /\ UNCHANGED <<kind, platform, point, mock, heard, observed, held, cut, tried, hits>>

(***************************************************************************)
(* The probes                                                              *)
(***************************************************************************)
UsesFault(p) == kind[p] # "hol"     \* which of the two slots p's configuration goes to

\* The probes whose slot a post by p overwrites between their own post and their verdict.
Trampled(p) == {q \in Probes \ {p} : UsesFault(q) = UsesFault(p) /\ point[q] \in {"invoke", "wait"}}

\* Invokes without a correlation id until one is quick enough; at most WarmAttempts.
EnsureWarm ==
    \E n \in 1..WarmAttempts :
        /\ counts' = [counts EXCEPT ![BucketKey(None)] = @ + n]
        /\ tried' = [tried EXCEPT ![None] = @ + n]
        /\ hits' = hits \cup (IF FaultStatusFor(None, 1) = 500 THEN {<<None, fault.corr>>} ELSE {})

Turn(p, l) == point' = [point EXCEPT ![p] = l]

\* run_fault_recovery and run_retry_storm warm one session; run_hol_blocking
\* warms its first session and measures the undisturbed requests on it.
WarmUp(p) ==
    /\ point[p] = "warm" /\ kind[p] \notin PlainHols
    /\ EnsureWarm
    /\ Turn(p, "configure")
    /\ UNCHANGED <<kind, platform, fault, latency, agent, heard, observed, held, upsets, alone, cut,
                   again>>

\* The post of the configuration; a failing one is suppressed.
Configure(p, Post) ==
    /\ point[p] = "configure"
    /\ \/ /\ Post
          /\ alone' = [q \in Probes |-> alone[q] /\ q \notin Trampled(p)]
          /\ UNCHANGED upsets
       \/ Upset(p) /\ UNCHANGED <<fault, latency>>

RecoveryFault(p) ==
    /\ kind[p] = "recovery"
    /\ Configure(p, PostFaultConfig([corr |-> p, calls |-> "first"]))
    /\ Turn(p, "invoke")
    /\ UNCHANGED <<kind, platform, counts, agent, heard, observed, held, cut, again, tried, hits>>

StormFault(p) ==
    /\ kind[p] = "storm"
    /\ Configure(p, PostFaultConfig([corr |-> p, calls |-> "all"]))
    /\ Turn(p, "invoke")
    /\ UNCHANGED <<kind, platform, counts, agent, heard, observed, held, cut, again, tried, hits>>

\* The transports' own storms warm nothing: their first invoke is the storm.
SdkStormFault(p) ==
    /\ kind[p] \in SdkStorms
    /\ Configure(p, PostFaultConfig([corr |-> p, calls |-> "all"]))
    /\ Turn(p, "invoke")
    /\ UNCHANGED <<kind, platform, counts, agent, heard, observed, held, cut, again, tried, hits>>

\* The second session of the blocking probe is warmed after the latency is set.
HolLatency(p) ==
    /\ kind[p] = "hol"
    /\ Configure(p, PostLatencyConfig(p))
    /\ EnsureWarm
    /\ Turn(p, "invoke")
    /\ UNCHANGED <<kind, platform, agent, heard, observed, held, cut, again>>

\* A recovery that injects nothing: the first attempt is declared failed and
\* up to two real calls, without a correlation id, follow.
SimulatedRecovery(p, k) ==
    /\ kind[p] = k /\ point[p] = "configure"
    /\ \E failed \in 0..2, calls \in 1..2 :
        /\ calls = IF failed = 0 THEN 1 ELSE 2
        /\ upsets + failed <= MaxUpsets /\ upsets' = upsets + failed
        /\ alone' = [alone EXCEPT ![p] = @ /\ failed = 0]
        /\ heard' = [heard EXCEPT ![p] = IF failed < calls THEN "ok" ELSE "failed"]
        /\ observed' = [observed EXCEPT ![p] = 1 + calls]
        /\ counts' = [counts EXCEPT ![BucketKey(None)] = @ + calls - failed]
        /\ tried' = [tried EXCEPT ![None] = @ + calls - failed]
    /\ Turn(p, "done")
    /\ UNCHANGED <<kind, platform, fault, latency, agent, held, cut, again, hits>>

\* A blocking probe that sets no latency: its slow request is slow only by name.
PlainHol(p, k) ==
    /\ kind[p] = k /\ point[p] = "warm"
    /\ EnsureWarm
    /\ Turn(p, "done")
    /\ UNCHANGED <<kind, platform, fault, latency, agent, heard, observed, held, upsets, alone, cut,
                   again>>

AliyunHol(p) == PlainHol(p, "aliyunHol")
AwsHol(p) == PlainHol(p, "awsHol")
SimHol(p) == PlainHol(p, "simHol")

AwsRecovery(p) == SimulatedRecovery(p, "awsRecovery")
SimRecovery(p) == SimulatedRecovery(p, "simRecovery")

Invoke(p) ==
    /\ point[p] = "invoke"
    /\ agent' = [agent EXCEPT ![p] = Fresh]
    /\ Turn(p, "wait")
    /\ UNCHANGED <<kind, platform, mock, heard, observed, held, upsets, faultHistory>>

\* What counts as the platform's doing, by probe: a timeout for the storm of
\* dataplane.py, a timeout or a broken connection for the others.
PlatformSays(p) ==
    heard[p] \in (IF kind[p] = "storm" THEN {"timeout"} ELSE {"timeout", "reset"})

\* run_retry_storm re-raises every error but a timeout; the others go on to read the counter.
Raises(p) == kind[p] = "storm" /\ heard[p] \in {"reset", "error"}

Return(p) ==
    /\ point[p] = "wait" /\ heard[p] # "pending"
    /\ Turn(p, IF Raises(p) THEN "raised" ELSE IF kind[p] = "hol" THEN "clear" ELSE "observe")
    /\ UNCHANGED <<kind, platform, mock, agent, heard, observed, held, upsets, faultHistory>>

\* The counter of the probe's own bucket; 0 when the read fails.
Observe(p) ==
    /\ point[p] = "observe"
    /\ \/ Calm /\ observed' = [observed EXCEPT ![p] = counts[p]]
       \/ Upset(p) /\ UNCHANGED observed
    /\ Turn(p, "done")
    /\ UNCHANGED <<kind, platform, mock, agent, heard, held, cut, again, tried, hits>>

\* The blocking probe empties the latency configuration, whoever set it.
HolClear(p) ==
    /\ point[p] = "clear"
    /\ \/ /\ PostLatencyConfig(None)
          /\ alone' = [q \in Probes |-> alone[q] /\ q \notin Trampled(p)]
          /\ UNCHANGED upsets
       \/ Upset(p) /\ UNCHANGED <<fault, latency>>
    /\ Turn(p, "done")
    /\ UNCHANGED <<kind, platform, counts, agent, heard, observed, held, cut, again, tried, hits>>

(***************************************************************************)
(* The verdicts                                                            *)
(***************************************************************************)
Recovered(p) == heard[p] = "ok"
PlatformTerminated(p) == PlatformSays(p)

StormBoundedByTwo(p) ==
    IF PlatformSays(p) THEN "platform" ELSE IF observed[p] >= 3 THEN "none" ELSE "agent"
StormBoundedBy(p) ==
    IF PlatformSays(p) THEN "platform" ELSE IF observed[p] > 3 THEN "none" ELSE "agent"
AliyunStormBoundedBy(p) ==
    IF PlatformSays(p) THEN "platform" ELSE IF observed[p] > 3 THEN "none" ELSE "agent"
AwsStormBoundedBy(p) ==
    IF PlatformSays(p) THEN "platform" ELSE IF observed[p] > 3 THEN "none" ELSE "agent"

BoundedBy(p) ==
    CASE kind[p] = "storm" -> StormBoundedBy(p)
      [] kind[p] = "aliyunStorm" -> AliyunStormBoundedBy(p)
      [] kind[p] = "awsStorm" -> AwsStormBoundedBy(p)

\* The i-th quick request to come back: behind those before it, and behind
\* the slow one (which takes `slow`), only where a session's calls are queued.
Took(i, slow) == IF serial THEN i * pace + slow ELSE pace

\* Twice the p50 of the quick requests, the sum of the two in the middle.  The
\* baseline too is FastCount requests at once on one session, queue included.
Lower == (FastCount + 1) \div 2
Upper == FastCount \div 2 + 1
Baseline == Took(Lower, 0) + Took(Upper, 0)
SlowTook(p) == pace + (IF held[p] THEN SlowLatency ELSE 0)
Behind(p, i) == Took(i, IF i > ahead THEN SlowTook(p) ELSE 0)
UnderSlow(p) == Behind(p, Lower) + Behind(p, Upper)

Serialized(p) == UnderSlow(p) > 2 * Baseline

-----------------------------------------------------------------------------
FaultInit ==
    /\ kind \in [Probes -> ProbeKinds]
    /\ serial \in BOOLEAN /\ pace \in 1..MaxPace /\ ahead \in 0..FastCount
    /\ (\A p \in Probes : kind[p] \notin {"hol"} \cup PlainHols) => pace = 1 /\ ahead = 0
    /\ point = [p \in Probes |->
                   IF kind[p] \in SdkStorms \cup Simulated THEN "configure" ELSE "warm"]
    /\ counts = [c \in Probes \cup {None} |-> 0]
    /\ fault = NoFault
    /\ latency = None
    /\ agent = [p \in Probes |-> Idle]
    /\ heard = [p \in Probes |-> "pending"]
    /\ observed = [p \in Probes |-> 0]
    /\ held = [p \in Probes |-> FALSE]
    /\ upsets = 0
    /\ alone = [p \in Probes |-> TRUE]
    /\ cut = [p \in Probes |-> FALSE]
    /\ again = [p \in Probes |-> FALSE]
    /\ tried = [c \in Probes \cup {None} |-> 0]
    /\ hits = {}

FaultStep(p) ==
    \/ WarmUp(p) \/ RecoveryFault(p) \/ StormFault(p) \/ SdkStormFault(p) \/ HolLatency(p)
    \/ AwsRecovery(p) \/ SimRecovery(p) \/ AliyunHol(p) \/ AwsHol(p) \/ SimHol(p)
    \/ Invoke(p) \/ Return(p) \/ Observe(p) \/ HolClear(p)
    \/ AgentReaches(p) \/ AgentServed(p) \/ AgentUnreached(p)
    \/ PlatformAnswers(p) \/ PlatformCuts(p) \/ PlatformRefuses(p) \/ PlatformRedelivers(p)

FaultNext == \E p \in Probes : FaultStep(p)

-----------------------------------------------------------------------------
\* Traffic is kept apart: a fault or a delay only ever hits a call of the
\* probe that configured it, and every counter holds exactly the calls made
\* under its id, warm-ups and other probes' calls excluded
\* (mock_tools.py: per-correlation buckets, one configuration slot for all).
TrafficKeptApart ==
    /\ \A h \in hits : h[1] = h[2]
    /\ \A c \in Probes \cup {None} : counts[c] = tried[c]

\* Where a queue can be told apart: the slow request is sent first and takes
\* longer than the probe's own quick requests queue for without it.
Telling == serial /\ ahead = 0 /\ 2 * (pace + SlowLatency) > Baseline

\* A probe nobody disturbed reports exactly what a healthy platform does: one
\* fault and one retry, three failed attempts bounded by the agent, blocking
\* only if sessions are queued (and never, queued or not, by the probes that
\* set no latency).  A queue is not always reported: the baseline holds the
\* queue of its own requests, which on a platform slow enough hides the slow
\* one (dataplane.py, run_hol_blocking); what is `Telling` is reported.
ExactWhenAlone ==
    \A p \in Probes :
        point[p] = "done" /\ alone[p] =>
            CASE kind[p] \in {"recovery"} \cup Simulated ->
                     Recovered(p) /\ observed[p] = 2 /\ ~PlatformTerminated(p)
              [] kind[p] = "hol" -> (Serialized(p) => serial) /\ (Telling => Serialized(p))
              [] kind[p] \in PlainHols -> ~Serialized(p)
              [] OTHER -> BoundedBy(p) = "agent" /\ observed[p] = MaxAttempts

\* Whatever happens around it, a verdict that accuses is earned: "none" only
\* when the platform delivered the invoke again, "platform" only when it cut
\* it, and a recovery with two or more attempts in one delivery only when the
\* probe's own fault was served.
VerdictsAreEarned ==
    \A p \in Probes :
        point[p] = "done" =>
            /\ kind[p] \in {"storm"} \cup SdkStorms =>
                   /\ BoundedBy(p) = "none" => again[p]
                   /\ BoundedBy(p) = "platform" => cut[p]
            /\ kind[p] = "recovery" =>
                   /\ PlatformTerminated(p) => cut[p]
                   /\ Recovered(p) /\ observed[p] > 1 /\ ~again[p] => <<p, p>> \in hits

\* A probe that injects faults blames who is to blame, also when it is not alone on the
\* mock server and the platform cuts, loses or repeats its invocation.
FaultVerdictsHold == TrafficKeptApart /\ ExactWhenAlone /\ VerdictsAreEarned
=============================================================================
