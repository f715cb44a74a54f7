--------------------------- MODULE AgentRuntimes ---------------------------
(***************************************************************************)
(* The cloud runtimes one run creates, and who accounts for them: the      *)
(* Aliyun and the AWS transport of the agent-runtime domain, the managed   *)
(* adapter that books what it provisions in the resource ledger, the       *)
(* orchestrator's reconcile and teardown, and the operator's sweep.        *)
(*                                                                         *)
(* A run either provisions explicitly (the SWE suite: provision, invoke,   *)
(* close) or lets the first data-plane call provision lazily.  The calls   *)
(* of a burst run on a thread pool over ONE transport without a lock: the  *)
(* check "is there a runtime" and the write of its id are separate steps.  *)
(* Every provider call may fail; such failures are counted in "failures". *)
(***************************************************************************)
EXTENDS Naturals, FiniteSets, Sequences

CONSTANTS Threads,        \* workers of the pool; a run starts on any one of them
          Clouds,         \* the transports considered: "aliyun", "aws"
          MaxRuntimes,    \* bound: runtimes created
          MaxFailures     \* bound: provider calls that fail

ASSUME BoundsAssumption ==
    /\ MaxRuntimes \in Nat /\ MaxFailures \in Nat
    /\ Clouds \subseteq {"aliyun", "aws"}
ASSUME ThreadsAssumption == IsFiniteSet(Threads)

VARIABLES
    cloud, mode,          \* which transport; "explicit" or "lazy" provisioning
    named,                \* the runtime name keeps its "clousight-bench" prefix
    phase,                \* "prepare", "open", "closed", "reconciled", "stopped"
    alive, made,          \* runtimes that exist; how many were ever created
    held, url, lazy,      \* the transport: its runtime id, endpoint's runtime, flag
    objects, ref, puts,   \* uploaded artifacts, the one remembered, uploads so far
    booked,               \* the ledger: created and not marked deleted
    at, own,              \* per thread: its step of provision, and the new runtime
    failures, overlaps,   \* failed provider calls; provisions begun during another
    reported              \* the runtimes the reconcile reported as residual

transport == <<held, url, lazy>>
artifacts == <<objects, ref, puts>>
counts == <<failures, overlaps>>
runtimeVars == <<cloud, mode, named, phase, alive, made, transport, artifacts, booked,
                 at, own, counts, reported>>

None == 0
Runtimes == 1 .. MaxRuntimes

TypeOK ==
    /\ cloud \in Clouds /\ mode \in {"explicit", "lazy"} /\ named \in BOOLEAN
    /\ phase \in {"prepare", "open", "closed", "reconciled", "stopped"}
    /\ alive \subseteq Runtimes /\ made \in 0 .. MaxRuntimes
    /\ held \in 0 .. MaxRuntimes /\ url \in 0 .. MaxRuntimes /\ lazy \in BOOLEAN
    /\ objects \subseteq 1 .. puts /\ ref \in 0 .. puts
    /\ booked \subseteq Runtimes /\ reported \subseteq Runtimes
    /\ at \in [Threads -> {"idle", "upload", "create", "poll", "publish", "endpoint", "return"}]
    /\ own \in [Threads -> 0 .. MaxRuntimes]
    /\ failures \in 0 .. MaxFailures /\ overlaps \in Nat

RuntimesInit ==
    /\ cloud \in Clouds /\ mode \in {"explicit", "lazy"} /\ named \in BOOLEAN
    /\ phase = (IF mode = "explicit" THEN "prepare" ELSE "open")
    /\ alive = {} /\ made = 0
    /\ held = None /\ url = None /\ lazy = FALSE
    /\ objects = {} /\ ref = None /\ puts = 0
    /\ booked = {} /\ reported = {}
    /\ at = [t \in Threads |-> "idle"] /\ own = [t \in Threads |-> None]
    /\ failures = 0 /\ overlaps = 0

Quiet == \A t \in Threads : at[t] = "idle"

\* A provider call fails (or is lost, or its wait runs out).
Failure == failures < MaxFailures /\ failures' = failures + 1 /\ UNCHANGED overlaps

----------------------------------------------------------------------------
(* provision(), step by step.                                              *)

\* The steps of the two provision() methods, in their order.
AliyunSteps == <<"upload", "create", "poll", "publish", "endpoint", "return">>
AwsSteps == <<"create", "poll", "endpoint", "return">>
Steps == IF cloud = "aliyun" THEN AliyunSteps ELSE AwsSteps

After(step) == Steps[1 + CHOOSE i \in 1 .. Len(Steps) : Steps[i] = step]
Proceed(t, step) == at' = [at EXCEPT ![t] = step] /\ UNCHANGED <<phase, counts>>

\* A failing provider call leaves provision() and its caller; when it was the
\* suite's own prepare(), the run goes straight to its end.
Raise(t) ==
    /\ Failure
    /\ at' = [at EXCEPT ![t] = "idle"]
    /\ phase' = IF phase = "prepare" THEN "closed" ELSE phase

\* Entering provision(): nothing stops a second thread that passed the same check.
Begin(t) ==
    /\ made < MaxRuntimes
    /\ at' = [at EXCEPT ![t] = Steps[1]]
    /\ overlaps' = overlaps + (IF Quiet THEN 0 ELSE 1)
    /\ UNCHANGED <<cloud, mode, named, phase, alive, made, transport, artifacts,
                   booked, own, failures, reported>>

\* The bundled agent's zip goes up under a fresh key; only the last is remembered.
UploadArtifact(t) ==
    /\ at[t] = "upload"
    /\ \/ /\ puts' = puts + 1 /\ objects' = objects \union {puts + 1} /\ ref' = puts + 1
          /\ Proceed(t, After("upload")) 
       \/ Raise(t) /\ UNCHANGED artifacts
    /\ UNCHANGED <<cloud, mode, named, alive, made, transport, booked, own, reported>>

\* CreateAgentRuntime: the id is stored at once; it may also raise, having
\* created nothing or (the answer lost) a runtime nobody knows the id of.
CreateRuntime(t) ==
    /\ at[t] = "create" /\ made < MaxRuntimes
    /\ \/ /\ made' = made + 1 /\ alive' = alive \union {made + 1}
          /\ \/ /\ held' = made + 1 /\ own' = [own EXCEPT ![t] = made + 1]
                /\ Proceed(t, After("create")) 
             \/ Raise(t) /\ UNCHANGED <<held, own>>
       \/ Raise(t) /\ UNCHANGED <<made, alive, held, own>>
    /\ UNCHANGED <<cloud, mode, named, url, lazy, artifacts, booked, reported>>

\* A wait that runs out reports "not ready" and provision carries on; only a
\* status call that raises stops it.
PollReady(t) ==
    /\ at[t] = "poll"
    /\ \/ Proceed(t, After("poll")) 
       \/ Raise(t)
    /\ UNCHANGED <<cloud, mode, named, alive, made, transport, artifacts,
                   booked, own, reported>>

PublishVersion(t) ==
    /\ at[t] = "publish"
    /\ \/ Proceed(t, After("publish")) 
       \/ Raise(t)
    /\ UNCHANGED <<cloud, mode, named, alive, made, transport, artifacts,
                   booked, own, reported>>

\* The Default endpoint: its URL, "" when it was not routable in time, or a raise.
CreateEndpoint(t) ==
    /\ at[t] = "endpoint"
    /\ \/ url' = own[t] /\ Proceed(t, "return") 
       \/ url' = None /\ at' = [at EXCEPT ![t] = "return"] /\ Failure /\ UNCHANGED phase
       \/ Raise(t) /\ UNCHANGED url
    /\ UNCHANGED <<cloud, mode, named, alive, made, held, lazy, artifacts,
                   booked, own, reported>>

\* Mutant of Booking: the ledger is written by callers that asked for it.
BookingLost(t) == UNCHANGED booked

\* Only the adapter's own provision books the runtime; a lazy one is flagged.
Booking(t) == booked' = booked \union {own[t]}

ProvisionReturns(t) ==
    /\ at[t] = "return"
    /\ IF phase = "prepare"
       THEN Booking(t) /\ phase' = "open" /\ UNCHANGED lazy
       ELSE lazy' = TRUE /\ UNCHANGED <<booked, phase>>
    /\ at' = [at EXCEPT ![t] = "idle"] /\ own' = [own EXCEPT ![t] = None]
    /\ UNCHANGED <<cloud, mode, named, alive, made, held, url, artifacts, counts, reported>>

----------------------------------------------------------------------------
(* Who calls provision().                                                  *)

\* The suite's prepare(), before anything else.
Prepare(t) == phase = "prepare" /\ Quiet /\ Begin(t)

\* The check each entry point makes before it provisions lazily.
\* Aliyun's invoke looks at the id: with one but no URL it raises for ever.
AliyunInvokeLacks == cloud = "aliyun" /\ held = None
\* Aliyun's probe entry and both of AWS's look at the URL, whatever the id.
AliyunProbeLacks == cloud = "aliyun" /\ url = None
AwsResolveLacks == cloud = "aws" /\ url = None

\* Mutant of AwsProbeLacks: the flag of a lazy runtime is looked at, not the URL.
AwsProbeLooksAtFlag == cloud = "aws" /\ ~lazy

AwsProbeLacks == cloud = "aws" /\ url = None

Call(t) ==
    /\ phase = "open" /\ at[t] = "idle"
    /\ AliyunInvokeLacks \/ AliyunProbeLacks \/ AwsResolveLacks \/ AwsProbeLacks
    /\ Begin(t)

----------------------------------------------------------------------------
(* deprovision(): what becomes of runtime r, and what the caller is told.  *)

\* The delete call ends it, or is accepted and never takes effect.  The answer
\* "residual" that deprovision polls for is read by no caller.
Deleting(r) == alive' \in {alive \ {r}, alive}

\* Mutant of CleanupArtifact: the upload count is reset with the reference.
CleanupResets == ref' = None /\ objects' \in {objects \ {ref}, objects} /\ puts' = 0

\* The remembered artifact goes with any runtime; a failed delete forgets it too.
CleanupArtifact ==
    ref' = None /\ objects' \in {objects \ {ref}, objects} /\ UNCHANGED puts

\* What went wrong on the way is counted.
Counted(r) ==
    /\ failures' = failures + (IF r \in alive' THEN 1 ELSE 0)
                         + (IF ref # None /\ ref' = None /\ ref \in objects' THEN 1 ELSE 0)
    /\ failures' <= MaxFailures /\ UNCHANGED overlaps

\* The transport forgets the runtime it deprovisioned, and only that one; the
\* Aliyun one keeps the URL of its endpoint.
AliyunForget(r) ==
    /\ IF held = r THEN held' = None /\ lazy' = FALSE ELSE UNCHANGED <<held, lazy>>
    /\ UNCHANGED url
AwsForget(r) ==
    IF held = r THEN held' = None /\ url' = None /\ lazy' = FALSE ELSE UNCHANGED transport

AliyunDeprovision(r) == Deleting(r) /\ AliyunForget(r) /\ CleanupArtifact /\ Counted(r)
AwsDeprovision(r) == Deleting(r) /\ AwsForget(r) /\ UNCHANGED artifacts /\ Counted(r)

Deprovision(r) == IF cloud = "aliyun" THEN AliyunDeprovision(r) ELSE AwsDeprovision(r)

\* Only the Aliyun delete lets an exception out, before anything is forgotten.
DeprovisionRaises ==
    cloud = "aliyun" /\ Failure /\ UNCHANGED <<alive, transport, artifacts>>

\* The adapter's deprovision: what returned is marked deleted, residual or not.
AdapterDeprovision(r) ==
    \/ Deprovision(r) /\ booked' = booked \ {r}
    \/ DeprovisionRaises /\ UNCHANGED booked

NothingToDo == UNCHANGED <<alive, transport, artifacts, booked, counts>>

----------------------------------------------------------------------------
(* The end of the run, in the order of the orchestrator's finally block.   *)

\* The suite closes its client (best effort); a lazy run has nothing to close.
Close ==
    /\ phase = "open" /\ Quiet
    /\ IF booked = {} THEN NothingToDo ELSE \E r \in booked : AdapterDeprovision(r)
    /\ phase' = "closed"
    /\ UNCHANGED <<cloud, mode, named, made, at, own, reported>>

\* The reaper's verify keeps the swept resources whose run_id is the run's; the
\* listers put the resource's NAME there, so it never keeps one.
VerifiedResidual == {}

\* reconcile_run_resources: what the ledger lists is destroyed, what it still
\* lists afterwards, and what verify saw, is reported.
Reconcile ==
    /\ phase = "closed"
    /\ IF booked = {} THEN NothingToDo ELSE \E r \in booked : AdapterDeprovision(r)
    /\ reported' = booked' \union VerifiedResidual
    /\ phase' = "reconciled"
    /\ UNCHANGED <<cloud, mode, named, made, at, own>>

\* stop() takes down a lazily provisioned runtime, and only that.
MustStop == held # None /\ lazy

AliyunStop ==
    \/ Deprovision(held)
    \/ /\ Failure /\ held' = None /\ lazy' = FALSE
       /\ UNCHANGED <<alive, url, artifacts>>
AwsStop == Deprovision(held)

Teardown ==
    /\ phase = "reconciled"
    /\ IF MustStop
       THEN (IF cloud = "aliyun" THEN AliyunStop ELSE AwsStop)
       ELSE UNCHANGED <<alive, transport, artifacts, counts>>
    /\ phase' = "stopped"
    /\ UNCHANGED <<cloud, mode, named, made, booked, at, own, reported>>

\* Mutant of Managed: a sweep that trusts the age of what it lists.
ManagedByAge == {}

\* What an untimed sweep takes for its own: by the name's prefix.
Managed == IF named THEN alive ELSE {}

\* csbench sweep --confirm, some time after the run: a delete that
\* raises ends it early, and it is run again.
Sweep ==
    /\ phase = "stopped" /\ Managed # {}
    /\ \E r \in Managed : alive' = alive \ {r}
    /\ UNCHANGED <<cloud, mode, named, phase, made, transport, artifacts, booked, at,
                   own, counts, reported>>

Provisioning == \E t \in Threads :
    \/ UploadArtifact(t) \/ CreateRuntime(t) \/ PollReady(t) \/ PublishVersion(t)
    \/ CreateEndpoint(t) \/ ProvisionReturns(t)

RuntimesNext ==
    \/ \E t \in Threads : Prepare(t) \/ Call(t)
    \/ Provisioning
    \/ Close \/ Reconcile \/ Teardown \/ Sweep

\* A provision in progress goes on, a run comes to its end, an operator sweeps.
RuntimesSpec == RuntimesInit /\ [][RuntimesNext]_runtimeVars
             /\ WF_runtimeVars(Provisioning) /\ WF_runtimeVars(\E t \in Threads : Prepare(t))
             /\ WF_runtimeVars(Close \/ Reconcile \/ Teardown) /\ WF_runtimeVars(Sweep)

----------------------------------------------------------------------------
(* Properties.                                                             *)

\* Every runtime that outlives the run and is not in its ledger, and every
\* artifact left in the bucket, has a cause of its own: one failed provider
\* call, or one provision begun while another was running.  So a serial run
\* over a healthy provider leaves nothing, whatever entry points it used.
LeaksAreCaused ==
    phase = "stopped" =>
        /\ Cardinality(alive \ booked) <= failures + overlaps
        /\ Cardinality(objects) <= failures + overlaps

\* A run creates one runtime, and one more for each failure or overlap at most:
\* the retries of the lazy entry points are paid for by something that failed.
CreatesAreCaused == made <= 1 + failures + overlaps

\* An untimed sweep ends with none of the run's runtimes left, unless the target
\* renamed them out of the prefix the sweep looks for.
SweptInTheEnd == phase = "stopped" ~> (alive = {} \/ ~named)

\* Nothing is created or left behind without something that failed or overlapped.
WasteIsCaused == TypeOK /\ LeaksAreCaused /\ CreatesAreCaused
=============================================================================
