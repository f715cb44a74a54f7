---------------------------- MODULE RunLifecycle ----------------------------
(***************************************************************************)
(* One benchmark run: core/orchestrator.py::execute, from the resolution   *)
(* of the request to the persisted record, with the cloud runtimes its     *)
(* task provisions through the managed adapter and the reconciliation and  *)
(* teardown that must give them back.                                      *)
(*                                                                         *)
(* The run is one Python thread; a task of it may put its calls on a pool  *)
(* of threads (always `with ThreadPoolExecutor`: whatever leaves the block *)
(* waits for the pool first).  What disturbs the run is modelled as steps  *)
(* of the environment: a signal (Ctrl-C or SIGTERM) between any two steps, *)
(* the SIGALRM deadline of the measured stages, the cancel marker of the   *)
(* viewer, and cloud calls that fail, hang or delete only in part.         *)
(***************************************************************************)
EXTENDS Naturals, FiniteSets

CONSTANTS
    Runtimes,    \* the cloud runtimes the task may ask for
    NoRuntime,   \* "no runtime": the None of transport._runtime_id
    MaxSignals   \* bound: signals delivered to the process during one run

ASSUME NoRuntimeAssumption == NoRuntime \notin Runtimes
ASSUME MaxSignalsAssumption == MaxSignals \in Nat

VARIABLES
    \* the request (fixed when the run starts) and the control of execute()
    req, pc, stages, errors, findings, bundle, result, interrupted,
    \* what disturbs the thread: deadline, hung call, cancel marker, signals
    alarm, hung, polled, cancel, signals,
    \* the cloud, the resource ledger and the transport's view of them
    fate, booked, inflight, handle, lazy, todo, reclaimed, residual,
    \* history: the runtimes whose place in the transport another one took
    displaced,
    \* what the run leaves behind
    status, record, row, costBooked, escaped

control == <<req, pc, stages, errors, findings, bundle, result, interrupted>>
watch   == <<alarm, hung, polled, cancel, signals>>
cloud   == <<fate, booked, inflight, handle, lazy, todo, reclaimed, residual, displaced>>
out     == <<status, record, row, costBooked, escaped>>
vars    == <<control, watch, cloud, out>>

Stages   == {"VALIDATE", "PREFLIGHT", "DESCRIBE", "SETUP", "EXECUTE", "SEAL",
             "TEARDOWN", "SCORE"}
Outcomes == {"absent", "ok", "failed", "skipped"}
Statuses == {"completed", "unsupported", "failed", "invalid", "interrupted"}
\* A runtime is what a provision found lacking, was not given, is being created, usable,
\* left by a create that was cut short, or has been asked to go: deleted, still lingering,
\* or forgotten by the transport.
Fates    == {"absent", "wanted", "refused", "creating", "live", "aborted", "lingering",
             "deleted", "stranded"}

\* Mutant of FatalStages: a scorer that raises spoils nothing.
FatalUntilScored == {"SETUP", "EXECUTE", "SEAL"}

\* Stages whose error makes the run invalid, and those that make it failed.
InvalidStages == {"VALIDATE", "DESCRIBE", "PREFLIGHT"}
FatalStages   == {"SETUP", "EXECUTE", "SEAL", "SCORE"}

\* The points at which the body of the try statement may be executing.
TryPoints == {"preSetup", "setup", "preExecute", "execute", "preSeal", "seal",
              "leaving"}
Gates     == {"resolve", "prepare", "preflight", "describe", "liveGate",
              "budgetGate"}
Points    == Gates \union TryPoints \union
             {"reconcile", "teardown", "closed", "score", "persist", "finish",
              "book", "done"}

Request == [provisioning : BOOLEAN,   \* adapter.provisions_resources()
            acknowledged : BOOLEAN,   \* --allow-live / CSBENCH_ALLOW_LIVE
            overBudget   : BOOLEAN,   \* spent + estimate >= budget
            preflight    : BOOLEAN,   \* the preflight argument
            deadline     : BOOLEAN,   \* timeout_s given and positive
            mainThread   : BOOLEAN]   \* signals and SIGALRM reach this thread

Init ==
    /\ req \in Request
    /\ pc = "resolve"
    /\ stages = [s \in Stages |-> "absent"]
    /\ errors = {} /\ findings = {}
    /\ bundle = "empty" /\ result = "none"
    /\ interrupted = FALSE
    /\ alarm = FALSE /\ hung = FALSE /\ polled = FALSE
    /\ cancel = FALSE /\ signals = 0
    /\ fate = [r \in Runtimes |-> "absent"]
    /\ booked = {} /\ inflight = "none" /\ handle = NoRuntime /\ lazy = FALSE
    /\ todo = {} /\ reclaimed = {} /\ residual = {} /\ displaced = {}
    /\ status = "none" /\ record = "none" /\ row = "running"
    /\ costBooked = FALSE /\ escaped = "no"

----------------------------------------------------------------------------
(* How a run is classified.                                                *)

\* Mutant of FailedStage: EXECUTE is forgotten.
FailedStageButExecute(st) == IF st["SETUP"] = "absent" THEN "SETUP" ELSE "SEAL"

\* The first measured stage with no outcome yet; SEAL when all have one.
FailedStage(st) ==
    IF st["SETUP"] = "absent" THEN "SETUP"
    ELSE IF st["EXECUTE"] = "absent" THEN "EXECUTE"
    ELSE "SEAL"

\* Mutant of StatusFor: the verdict is the status.
VerdictAsStatus(errs, res) ==
    IF errs \intersect InvalidStages # {} THEN "invalid"
    ELSE IF errs \intersect FatalStages # {} THEN "failed" ELSE res

StatusFor(errs, res) ==
    IF errs \intersect InvalidStages # {} THEN "invalid"
    ELSE IF errs \intersect FatalStages # {} THEN "failed"
    ELSE IF res = "unsupported" THEN "unsupported"
    ELSE "completed"

\* The stage outcome s of stage st, as an assignment to `stages`.
Mark(st, s) == stages' = [stages EXCEPT ![st] = s]

\* Leave for the one exit path: build the record with status st and persist it.
RecordAs(st) == status' = st /\ pc' = "persist"

\* A gate refuses the run: the stage outcome, the error or finding, `invalid`.
RefuseWithError(stage) ==
    /\ Mark(stage, "failed")
    /\ errors' = errors \union {stage}
    /\ RecordAs("invalid")
    /\ UNCHANGED <<req, bundle, result, interrupted, watch, cloud,
                   record, row, costBooked, escaped>>

RefuseSetup(code) ==
    /\ Mark("SETUP", "skipped")
    /\ findings' = findings \union {code}
    /\ RecordAs("invalid")
    /\ UNCHANGED <<req, errors, bundle, result, interrupted, watch, cloud,
                   record, row, costBooked, escaped>>

Proceed(next) ==
    /\ pc' = next
    /\ UNCHANGED <<req, findings, bundle, result, interrupted, watch, cloud, out>>

----------------------------------------------------------------------------
(* The gates, before anything is provisioned.                              *)

\* RESOLVE and VALIDATE: a UserInputError discards the progress row and leaves.
ResolveRefused ==
    /\ pc = "resolve"
    /\ pc' = "done" /\ row' = "discarded"
    /\ UNCHANGED <<req, stages, errors, findings, bundle, result, interrupted,
                   watch, cloud, status, record, costBooked, escaped>>

Resolved ==
    /\ pc = "resolve"
    /\ Mark("VALIDATE", "ok")
    /\ Proceed("prepare") /\ UNCHANGED errors

\* _prepare: a crash of plugin code is a DESCRIBE failure.
PrepareFails ==
    /\ pc = "prepare"
    /\ RefuseWithError("DESCRIBE") /\ UNCHANGED findings

Prepared ==
    /\ pc = "prepare"
    /\ Proceed("preflight") /\ UNCHANGED <<stages, errors>>

PreflightFails ==
    /\ pc = "preflight" /\ req.preflight
    /\ RefuseWithError("PREFLIGHT")
    /\ findings' = findings \union {"core.preflight_failed"}

PreflightPasses ==
    /\ pc = "preflight"
    /\ Mark("PREFLIGHT", IF req.preflight THEN "ok" ELSE "skipped")
    /\ Proceed("describe") /\ UNCHANGED errors

DescribeFails ==
    /\ pc = "describe"
    /\ RefuseWithError("DESCRIBE") /\ UNCHANGED findings

Described ==
    /\ pc = "describe"
    /\ Mark("DESCRIBE", "ok")
    /\ Proceed("liveGate") /\ UNCHANGED errors

\* live_decision(...).blocked: a provisioning run nobody acknowledged.
LiveBlocked == req.provisioning /\ ~req.acknowledged

LiveGateRefuses == pc = "liveGate" /\ LiveBlocked /\ RefuseSetup("live.unconfirmed")

LiveGateOpens ==
    /\ pc = "liveGate" /\ ~LiveBlocked
    /\ Proceed("budgetGate") /\ UNCHANGED <<stages, errors>>

\* Mutant of BudgetBlocked: an acknowledged run may exceed the budget.
BudgetAdvises == req.provisioning /\ req.overBudget /\ ~req.acknowledged

\* budget_would_exceed(spent, estimate, budget), asked of provisioning runs only.
BudgetBlocked == req.provisioning /\ req.overBudget

BudgetGateRefuses ==
    pc = "budgetGate" /\ BudgetBlocked /\ RefuseSetup("cost.budget_exceeded")

\* Entering _terminate_as_interrupt and _stage_deadline arms the alarm.
OpenWindow ==
    /\ pc = "budgetGate" /\ ~BudgetBlocked
    /\ pc' = "preSetup"
    /\ alarm' = (req.deadline /\ req.mainThread)
    /\ UNCHANGED <<req, stages, errors, findings, bundle, result, interrupted,
                   hung, polled, cancel, signals, cloud, out>>

----------------------------------------------------------------------------
(* The window SETUP -> EXECUTE -> SEAL and its three exception handlers.   *)

\* The provisions under way, each on a thread of its own.
Calls == {r \in Runtimes : fate[r] \in {"wanted", "creating"}}

\* A provision cut short: a runtime that was created stays, its id is not returned.
Cut(f) == IF f = "creating" THEN "aborted" ELSE IF f = "wanted" THEN "refused" ELSE f
Orphaned == [r \in Runtimes |-> Cut(fate[r])]

\* An exception cuts the call of the run's own thread, and waits for those of a pool.
NoPool == \A r, q \in Calls : r = q

\* Mutant of AfterWindow: only what provisions is torn down.
AfterWindowTrusting == IF req.provisioning THEN "reconcile" ELSE "closed"

\* The finally block: a run that provisions nothing has nothing to reconcile.
AfterWindow == IF req.provisioning THEN "reconcile" ELSE "teardown"

\* What the handler for an exception of kind k leaves of the bundle.
BundleAfter(k, stage, evidence) ==
    CASE k = "task"  -> evidence
      [] k = "interrupt" \/ stage = "SEAL" -> "empty"
      [] OTHER -> bundle

\* A stage raises: attribute it, disarm the alarm, go to the finally block.
Fail(k, evidence) ==
    LET stage == FailedStage(stages) IN
    /\ NoPool
    /\ Mark(stage, "failed")
    /\ errors' = errors \union {stage}
    /\ bundle' = BundleAfter(k, stage, evidence)
    /\ interrupted' = (k = "interrupt")
    /\ alarm' = FALSE /\ hung' = FALSE
    /\ fate' = Orphaned /\ inflight' = "none"
    /\ pc' = AfterWindow
    /\ todo' = booked
    /\ UNCHANGED <<req, findings, result, booked, handle, lazy, reclaimed, residual,
                   displaced, out>>

\* should_cancel at a stage boundary.  It looks for the marker only when the
\* last look is at least a quarter of a second old; the first look always counts.
CheckPoint == [preSetup |-> "setup", preExecute |-> "execute", preSeal |-> "seal"]

Cancelled ==
    /\ pc \in DOMAIN CheckPoint /\ cancel
    /\ Fail("interrupt", "empty")
    /\ polled' = TRUE /\ UNCHANGED <<cancel, signals>>

NotCancelled ==
    /\ pc \in DOMAIN CheckPoint
    /\ ~cancel \/ polled
    /\ pc' = CheckPoint[pc]
    /\ polled' = TRUE
    /\ UNCHANGED <<req, stages, errors, findings, bundle, result, interrupted,
                   alarm, hung, cancel, signals, cloud, out>>

\* A suite polls for the cancel marker from inside its workload.
CancelledInside ==
    /\ pc = "execute" /\ cancel /\ ~hung
    /\ Fail("interrupt", "empty")
    /\ polled' = TRUE /\ UNCHANGED <<cancel, signals>>

StageOk(stage, next) ==
    /\ Mark(stage, "ok")
    /\ pc' = next
    /\ UNCHANGED <<req, errors, findings, result, interrupted, watch, cloud, out>>

Setup ==
    /\ pc = "setup" /\ ~hung
    /\ StageOk("SETUP", "preExecute") /\ UNCHANGED bundle

\* task.execute returns its observations; every call it made has returned.
Execute ==
    /\ pc = "execute" /\ ~hung /\ inflight = "none"
    /\ StageOk("EXECUTE", "preSeal") /\ bundle' = "raw"

Seal ==
    /\ pc = "seal"
    /\ StageOk("SEAL", "leaving") /\ bundle' = "sealed"

\* Leaving the deadline's context cancels the alarm before teardown.
LeaveWindow ==
    /\ pc = "leaving"
    /\ pc' = AfterWindow
    /\ alarm' = FALSE
    /\ todo' = booked
    /\ UNCHANGED <<req, stages, errors, findings, bundle, result, interrupted,
                   hung, polled, cancel, signals, fate, booked, inflight, handle,
                   lazy, reclaimed, residual, displaced, out>>

\* TaskExecutionError carries the evidence the task kept.  Evidence that fails
\* in SEAL is revalidated and dropped when it is not well formed.
TaskFails ==
    /\ pc \in {"setup", "execute", "seal"} /\ ~hung
    /\ \E evidence \in {"partial", "empty"} : Fail("task", evidence)
    /\ UNCHANGED <<polled, cancel, signals>>

StageCrashes ==
    /\ pc \in {"setup", "execute", "seal"} /\ ~hung
    /\ Fail("error", "empty")
    /\ UNCHANGED <<polled, cancel, signals>>

\* A call of setup() or of the task that does not return.
Hang ==
    /\ pc \in {"setup", "execute"} /\ ~hung
    /\ hung' = TRUE
    /\ UNCHANGED <<control, alarm, polled, cancel, signals, cloud, out>>

\* Mutant of Deadline: the deadline is looked at between two calls.
DeadlinePolled ==
    /\ alarm /\ pc \in TryPoints /\ ~hung
    /\ Fail("error", "empty")
    /\ UNCHANGED <<polled, cancel, signals>>

\* SIGALRM: TimeoutError in whatever the thread is doing inside the window.
DeadlineCuts ==
    /\ alarm /\ pc \in TryPoints
    /\ Fail("error", "empty")
    /\ UNCHANGED <<polled, cancel, signals>>

\* The call that hangs is a pool's: the TimeoutError waits for it as the thread did.
\* The timer is one-shot: the deadline is spent.
DeadlineWaits ==
    /\ alarm /\ pc = "execute" /\ hung
    /\ alarm' = FALSE
    /\ UNCHANGED <<control, hung, polled, cancel, signals, cloud, out>>

Deadline == DeadlineCuts \/ DeadlineWaits

\* The TimeoutError lands in an `except Exception` of the task (a probe that
\* counts a failed invocation).
DeadlineSwallowed ==
    /\ alarm /\ pc = "execute" /\ NoPool
    /\ alarm' = FALSE /\ hung' = FALSE
    /\ fate' = Orphaned /\ inflight' = "none"
    /\ UNCHANGED <<control, polled, cancel, signals, booked, handle, lazy, todo,
                   reclaimed, residual, displaced, out>>

----------------------------------------------------------------------------
(* The runtimes of a provisioning task.                                    *)

\* provision() is entered.  `explicit`: ManagedRuntimeAdapter.provision, on the run's own
\* thread, which books the runtime once the call has returned.  `lazy`: an invocation finds
\* that the live transport has no runtime yet, and so may any number of a pool's at one
\* time; the adapter's ledger is not told.
BeginProvision ==
    /\ pc = "execute" /\ ~hung /\ req.provisioning /\ handle = NoRuntime
    /\ inflight' \in (IF inflight = "none" THEN {"explicit", "lazy"} ELSE {"lazy"} \cap {inflight})
    /\ \E r \in Runtimes : fate[r] = "absent" /\ fate' = [fate EXCEPT ![r] = "wanted"]
    /\ UNCHANGED <<control, watch, booked, handle, lazy, todo, reclaimed, residual, displaced>>
    /\ UNCHANGED out

Provisioning(r, f) == pc = "execute" /\ ~hung /\ fate[r] = f

\* A provision is over, and the last one with it the burst.
Returned(r, f) ==
    /\ fate' = [fate EXCEPT ![r] = f]
    /\ inflight' = IF Calls = {r} THEN "none" ELSE inflight

\* The control plane has accepted the create: the transport holds this runtime, and
\* forgets the one that another thread has put there meanwhile.
CreateRuntime ==
    /\ \E r \in Runtimes :
         /\ Provisioning(r, "wanted")
         /\ fate' = [fate EXCEPT ![r] = "creating"]
         /\ handle' = r
    /\ displaced' = displaced \cup ({handle} \ {NoRuntime})
    /\ UNCHANGED <<control, watch, booked, inflight, lazy, todo, reclaimed, residual, out>>

\* The create raises: nothing was created, or the answer was lost.
CreateRefused ==
    /\ \E r \in Runtimes, f \in {"refused", "aborted"} :
         Provisioning(r, "wanted") /\ Returned(r, f)
    /\ UNCHANGED <<control, watch, booked, handle, lazy, todo, reclaimed, residual, displaced>>
    /\ UNCHANGED out

\* The rest of the provision call: ready, version published, endpoint routable.
CreateReturns ==
    /\ \E r \in Runtimes :
         /\ Provisioning(r, "creating") /\ Returned(r, "live")
         /\ booked' = IF inflight = "explicit" THEN booked \union {r} ELSE booked
    /\ lazy' = (lazy \/ inflight = "lazy")
    /\ UNCHANGED <<control, watch, handle, todo, reclaimed, residual, displaced, out>>

\* ... or it raises after the create, in a task that counts a failed invocation.
\* (StageCrashes and TaskFails are the tasks that let it propagate.)
CreateFails ==
    /\ \E r \in Runtimes : Provisioning(r, "creating") /\ Returned(r, "aborted")
    /\ UNCHANGED <<control, watch, booked, handle, lazy, todo, reclaimed, residual, displaced>>
    /\ UNCHANGED out

\* transport.deprovision(r): the delete is accepted; after a minute of polling the
\* runtime is gone or reported as residual in a result no caller here reads.
Destroyed(r) ==
    /\ \E left \in {"deleted", "lingering"} : fate' = [fate EXCEPT ![r] = left]
    /\ handle' = IF handle = r THEN NoRuntime ELSE handle
    /\ lazy' = (lazy /\ handle # r)

\* adapter.deprovision(r): the transport's, then mark_deleted in the ledger.
Deprovisioned(r) == Destroyed(r) /\ booked' = booked \ {r}

TaskDeprovisions ==
    /\ pc = "execute" /\ ~hung /\ inflight = "none"
    /\ \E r \in booked : Deprovisioned(r)
    /\ UNCHANGED <<control, watch, inflight, todo, reclaimed, residual, displaced, out>>

----------------------------------------------------------------------------
(* The finally block: reconcile, then teardown.                            *)

\* One entry of the ledger's residual: destroyed, or the destroy raises.
ReconcileOne ==
    /\ pc = "reconcile"
    /\ \E r \in todo :
         /\ todo' = todo \ {r}
         /\ \/ Deprovisioned(r) /\ reclaimed' = reclaimed \union {r}
            \/ UNCHANGED <<fate, handle, lazy, booked, reclaimed>>
    /\ UNCHANGED <<control, watch, inflight, residual, displaced, out>>

Created == {r \in Runtimes : fate[r] \notin {"absent", "wanted", "refused"}}
InCloud == {r \in Created : fate[r] # "deleted"}

\* Mutant of StillThere: the provider is asked, the ledger is not.
SeenThere(seen) == seen

\* What is left: what the ledger still lists and what the provider was seen to have.
StillThere(seen) == booked \union seen

\* The confirmation: what the ledger still lists, and what the reaper's own tag
\* query returns (nothing when there is no reaper, it fails or the tags differ).
Reconciled ==
    /\ pc = "reconcile" /\ todo = {}
    /\ \E seen \in {{}, InCloud} : residual' = StillThere(seen)
    /\ findings' = findings
         \union (IF reclaimed # {} THEN {"teardown.reclaimed"} ELSE {})
         \union (IF residual' # {} THEN {"teardown.residual"} ELSE {})
    /\ pc' = "teardown"
    /\ UNCHANGED <<req, stages, errors, bundle, result, interrupted, watch, fate,
                   booked, inflight, handle, lazy, todo, reclaimed, displaced, out>>

\* The reconcile itself raises (an unreadable ledger): an error, never a stop.
ReconcileFails ==
    /\ pc = "reconcile"
    /\ errors' = errors \union {"TEARDOWN"}
    /\ todo' = {} /\ pc' = "teardown"
    /\ UNCHANGED <<req, stages, findings, bundle, result, interrupted, watch, fate,
                   booked, inflight, handle, lazy, reclaimed, residual, displaced, out>>

\* Stopping a live transport destroys the runtime it created lazily; a destroy
\* that raises is swallowed and the transport forgets the runtime.
StopTransport ==
    \/ /\ lazy /\ handle # NoRuntime
       /\ \/ Destroyed(handle)
          \/ /\ fate' = [fate EXCEPT ![handle] = "stranded"]
             /\ handle' = NoRuntime /\ lazy' = FALSE
    \/ ~lazy /\ UNCHANGED <<fate, handle, lazy>>

Teardown ==
    /\ pc = "teardown"
    /\ StopTransport
    /\ Mark("TEARDOWN", "ok") /\ pc' = "closed"
    /\ UNCHANGED <<req, errors, findings, bundle, result, interrupted, watch, booked,
                   inflight, todo, reclaimed, residual, displaced, out>>

\* An adapter whose teardown raises: recorded, never masking the primary error.
TeardownFails ==
    /\ pc = "teardown" /\ ~lazy
    /\ Mark("TEARDOWN", "failed") /\ pc' = "closed"
    /\ errors' = errors \union {"TEARDOWN"}
    /\ UNCHANGED <<req, findings, bundle, result, interrupted, watch, cloud, out>>

----------------------------------------------------------------------------
(* After the window: score, then the one exit path.                        *)

CloseInterrupted ==
    /\ pc = "closed" /\ interrupted
    /\ Mark("SCORE", "skipped") /\ RecordAs("interrupted")
    /\ UNCHANGED <<req, errors, findings, bundle, result, interrupted, watch, cloud,
                   record, row, costBooked, escaped>>

\* Nothing was collected to score.
SkipScore ==
    /\ pc = "closed" /\ ~interrupted /\ stages["SEAL"] # "ok"
    /\ Mark("SCORE", "skipped") /\ RecordAs(StatusFor(errors, result))
    /\ UNCHANGED <<req, errors, findings, bundle, result, interrupted, watch, cloud,
                   record, row, costBooked, escaped>>

StartScore ==
    /\ pc = "closed" /\ ~interrupted /\ stages["SEAL"] = "ok"
    /\ pc' = "score"
    /\ UNCHANGED <<req, stages, errors, findings, bundle, result, interrupted, watch,
                   cloud, out>>

Score ==
    /\ pc = "score"
    /\ result' \in {"supported", "unsupported"}
    /\ Mark("SCORE", "ok") /\ RecordAs(StatusFor(errors, result'))
    /\ UNCHANGED <<req, errors, findings, bundle, interrupted, watch, cloud, record,
                   row, costBooked, escaped>>

\* The scorer raises, or its result does not fit the public contract.
ScoreFails ==
    /\ pc = "score"
    /\ Mark("SCORE", "failed")
    /\ errors' = errors \union {"SCORE"}
    /\ RecordAs(StatusFor(errors', result))
    /\ UNCHANGED <<req, findings, bundle, result, interrupted, watch, cloud, record,
                   row, costBooked, escaped>>

\* ResultStore.persist: the record is written, or a degraded one that says `failed`
\* and is what the rest of the run goes by (module ResultStore).
Persist ==
    /\ pc = "persist"
    /\ record' \in {status, "failed"} /\ pc' = "finish"
    /\ UNCHANGED <<req, stages, errors, findings, bundle, result, interrupted, watch,
                   cloud, status, row, costBooked, escaped>>

\* A malformed record, or a full disk with no emergency directory: execute() raises
\* out of its exit path, with the progress row still running and the cost not booked.
PersistRaises ==
    /\ pc = "persist"
    /\ escaped' = "persist" /\ pc' = "done"
    /\ UNCHANGED <<req, stages, errors, findings, bundle, result, interrupted, watch,
                   cloud, status, record, row, costBooked>>

\* Mutant of FinishRow: the row repeats the verdict, not what came of writing it.
FinishRowAsIntended ==
    /\ pc = "finish"
    /\ row' = status
    /\ escaped' = IF interrupted THEN "reraised" ELSE escaped
    /\ pc' = IF req.provisioning /\ stages["TEARDOWN"] # "absent" /\ ~interrupted
             THEN "book" ELSE "done"
    /\ UNCHANGED <<req, stages, errors, findings, bundle, result, interrupted, watch,
                   cloud, status, record, costBooked>>

\* progress.finish, after publication and telemetry, which change nothing here.
\* execute() then re-raises an interruption, returns from an early exit, or books
\* the cost of a provisioning run.
FinishRow ==
    /\ pc = "finish"
    /\ row' = record
    /\ escaped' = IF interrupted THEN "reraised" ELSE escaped
    /\ pc' = IF req.provisioning /\ stages["TEARDOWN"] # "absent" /\ ~interrupted
             THEN "book" ELSE "done"
    /\ UNCHANGED <<req, stages, errors, findings, bundle, result, interrupted, watch,
                   cloud, status, record, costBooked>>

BookCost ==
    /\ pc = "book"
    /\ costBooked' = TRUE /\ pc' = "done"
    /\ UNCHANGED <<req, stages, errors, findings, bundle, result, interrupted, watch,
                   cloud, status, record, row, escaped>>

----------------------------------------------------------------------------
(* The environment.                                                        *)

\* The viewer creates the cancel marker of a run that is still running.
RequestCancel ==
    /\ row = "running" /\ ~cancel
    /\ cancel' = TRUE
    /\ UNCHANGED <<control, alarm, hung, polled, signals, cloud, out>>

Signalled ==
    /\ req.mainThread /\ pc # "done" /\ signals < MaxSignals
    /\ signals' = signals + 1

\* Inside the try statement a signal is the handler's KeyboardInterrupt.
SignalInWindow ==
    /\ Signalled /\ pc \in TryPoints
    /\ Fail("interrupt", "empty")
    /\ UNCHANGED <<polled, cancel>>

\* Anywhere else nothing catches it (`except Exception` does not), and the default
\* action of SIGTERM ends the process: execute() is left where it stands.
SignalElsewhere ==
    /\ Signalled /\ pc \notin TryPoints
    /\ escaped' = pc /\ pc' = "done"
    /\ UNCHANGED <<req, stages, errors, findings, bundle, result, interrupted, alarm,
                   hung, polled, cancel, cloud, status, record, row, costBooked>>

----------------------------------------------------------------------------
Gate == \/ ResolveRefused \/ Resolved \/ PrepareFails \/ Prepared
        \/ PreflightFails \/ PreflightPasses \/ DescribeFails \/ Described
        \/ LiveGateRefuses \/ LiveGateOpens \/ BudgetGateRefuses \/ OpenWindow

Provision == BeginProvision \/ CreateRuntime \/ CreateRefused \/ CreateReturns \/ CreateFails

Window == \/ Cancelled \/ NotCancelled \/ CancelledInside
          \/ Setup \/ Execute \/ Seal \/ LeaveWindow \/ TaskFails \/ StageCrashes
          \/ Provision \/ TaskDeprovisions

Closing == \/ ReconcileOne \/ Reconciled \/ ReconcileFails
           \/ Teardown \/ TeardownFails
           \/ CloseInterrupted \/ SkipScore \/ StartScore \/ Score \/ ScoreFails
           \/ Persist \/ PersistRaises \/ FinishRow \/ BookCost

\* What the thread does by itself, and what happens to it.
Thread == Gate \/ Window \/ Closing
Environment == Hang \/ DeadlineSwallowed \/ RequestCancel \/ SignalInWindow
               \/ SignalElsewhere

\* The run is over, or hangs in a call with no deadline left to cut it.
Over == (pc = "done" \/ (hung /\ ~alarm)) /\ UNCHANGED vars

Next == Thread \/ Deadline \/ Environment \/ Over

\* The thread keeps running when it can, and an armed timer fires unless the
\* stages end first; nothing obliges a signal, a cancel or a hang to happen.
Fairness == WF_vars(Thread) /\ WF_vars(Deadline)

Spec == Init /\ [][Next]_vars /\ Fairness

----------------------------------------------------------------------------
(* Properties.                                                             *)

ControlOK ==
    /\ req \in Request
    /\ pc \in Points
    /\ stages \in [Stages -> Outcomes]
    /\ errors \subseteq Stages
    /\ findings \subseteq {"core.preflight_failed", "live.unconfirmed",
                           "cost.budget_exceeded", "teardown.reclaimed",
                           "teardown.residual"}
    /\ bundle \in {"empty", "raw", "partial", "sealed"}
    /\ result \in {"none", "supported", "unsupported"}
    /\ interrupted \in BOOLEAN

WatchOK ==
    /\ alarm \in BOOLEAN /\ hung \in BOOLEAN /\ polled \in BOOLEAN
    /\ cancel \in BOOLEAN /\ signals \in 0 .. MaxSignals

CloudOK ==
    /\ fate \in [Runtimes -> Fates]
    /\ booked \subseteq Runtimes /\ todo \subseteq Runtimes
    /\ reclaimed \subseteq Runtimes /\ residual \subseteq Runtimes
    /\ displaced \subseteq Runtimes
    /\ inflight \in {"none", "explicit", "lazy"}
    /\ handle \in Runtimes \union {NoRuntime} /\ lazy \in BOOLEAN

OutOK ==
    /\ status \in Statuses \union {"none"}
    /\ record \in Statuses \union {"none"}
    /\ row \in Statuses \union {"running", "discarded"}
    /\ costBooked \in BOOLEAN
    /\ escaped \in Points \union {"no", "reraised"}

\* Every variable of a run keeps the shape execute() gives it: a status, a stage
\* outcome or a row that no reader of the record knows is never written.
TypeOK == ControlOK /\ WatchOK /\ CloudOK /\ OutOK

Spent == Created # {}

\* Money is spent only by a run whose gates all let it through, and such a run is
\* never reported as `invalid`, the status that promises nothing was provisioned.
GatesGuardSpending ==
    Spent => /\ req.provisioning /\ req.acknowledged /\ ~req.overBudget
             /\ stages["PREFLIGHT"] # "failed"
             /\ record # "invalid"

\* A record that claims a verdict comes from a run whose measured stages all ended
\* well and whose sealed observations were scored, however late an interruption or
\* the deadline struck.
VerdictHasEvidence ==
    record \in {"completed", "unsupported"} =>
        /\ \A s \in {"SETUP", "EXECUTE", "SEAL", "SCORE"} : stages[s] = "ok"
        /\ bundle = "sealed" /\ ~interrupted
        /\ errors \subseteq {"TEARDOWN"}

\* The failure of a run is pinned on one measured stage: those before it ended well
\* and none after it has an outcome.
OneCulprit ==
    LET before == [SETUP |-> {}, EXECUTE |-> {"SETUP"}, SEAL |-> {"SETUP", "EXECUTE"}]
        after  == [SETUP |-> {"EXECUTE", "SEAL"}, EXECUTE |-> {"SEAL"}, SEAL |-> {}]
    IN  \A s \in DOMAIN before :
            stages[s] = "failed" => /\ \A t \in before[s] : stages[t] = "ok"
                                    /\ \A t \in after[s]  : stages[t] = "absent"
                                    /\ s \in errors

\* Once SETUP was attempted the run does not end without a teardown, unless what
\* ended it struck inside the finally block itself.
TeardownUnlessCut ==
    pc = "done" /\ stages["SETUP"] \in {"ok", "failed"} =>
        stages["TEARDOWN"] # "absent" \/ escaped \in {"reconcile", "teardown"}

\* A record names each runtime that outlives its run, in its residual or by saying that
\* reconciliation failed, with exactly these exceptions: one whose place in the transport
\* another thread's took; one whose create did not return; one that stop() could not
\* delete; one whose delete the cloud accepted and has not carried out.  What the ledger
\* holds is never among them.
SurvivorsAreReported ==
    record # "none" =>
        \A r \in InCloud : \/ r \in residual \/ "TEARDOWN" \in errors
                           \/ /\ r \notin booked
                              /\ fate[r] = "live" => r \in displaced

\* The viewer's row turns terminal only when the record it names is on disk, and
\* says what the record says.
RowFollowsRecord == row \notin {"running", "discarded"} => record = row

\* The deadline can strike only in the measured stages: never in teardown, scoring
\* or persistence.
DeadlineSparesTeardown == alarm => pc \in TryPoints

\* A run comes to its end, unless a call hangs with no deadline left to cut it.
RunEnds == <>(pc = "done" \/ (hung /\ ~alarm))

----------------------------------------------------------------------------
(* The run implements its contract.                                        *)

Phase == CASE pc \in Gates -> "gates"
           [] pc \in TryPoints -> "window"
           [] pc \in {"reconcile", "teardown"} -> "closing"
           [] pc = "done" /\ record = "none" -> "gone"
           [] record # "none" -> "recorded"
           [] OTHER -> "closed"

Contract == INSTANCE RunContract
                WITH phase <- Phase, used <- Created

\* Nothing is spent outside the window, no record precedes the teardown of a window
\* that was opened, and only a killed process leaves no record.
ImplementsContract == Contract!Spec

----------------------------------------------------------------------------
(* The inductive invariant behind the safety properties.                   *)

Measured == {"SETUP", "EXECUTE", "SEAL"}
Complete == (\A s \in Measured : stages[s] = "ok") /\ bundle = "sealed"

\* A provision is under way only inside EXECUTE; what the transport created by itself it
\* still holds; no runtime has a name before it is created.
CallInv == /\ inflight = "none" <=> Calls = {}
           /\ inflight # "none" => pc = "execute"
           /\ inflight = "explicit" => NoPool
           /\ lazy \/ (\E r \in Runtimes : fate[r] = "creating") => handle # NoRuntime
           /\ \A r \in Runtimes : r \in booked \union todo \union {handle} => r \in Created
           /\ \A r \in Runtimes : r \in booked => fate[r] \notin {"creating", "aborted"}

\* How far the measured stages are, at each point of the run.
StageInv ==
    /\ pc \in Gates \union {"preSetup", "setup"} => \A s \in Measured : stages[s] = "absent"
    /\ pc \in {"preExecute", "execute"} =>
         stages["SETUP"] = "ok" /\ stages["EXECUTE"] = "absent" /\ stages["SEAL"] = "absent"
    /\ pc \in {"preSeal", "seal"} =>
         stages["SETUP"] = "ok" /\ stages["EXECUTE"] = "ok" /\ stages["SEAL"] = "absent"
    /\ pc \in {"leaving", "score"} => Complete
    /\ pc \in Gates \union TryPoints => errors = {} /\ ~interrupted

\* A run that is closing either has all its observations, or the error that cost it them.
ClosingInv ==
    pc \in {"reconcile", "teardown", "closed", "score"} =>
        \/ Complete /\ ~interrupted /\ errors \subseteq {"TEARDOWN"}
        \/ /\ pc # "score" /\ stages["SEAL"] # "ok"
           /\ errors \intersect Measured # {}
           /\ errors \subseteq Measured \union {"TEARDOWN"}

\* The status is decided on the way to the record, the record is what the row repeats.
RecordInv ==
    /\ pc = "persist" => status # "none"
    /\ status # "none" => pc \in {"persist", "finish", "book", "done"}
    /\ record # "none" => pc \in {"finish", "book", "done"} /\ record \in {status, "failed"}
    /\ pc \in {"finish", "book"} => record # "none"
    /\ row \notin {"running", "discarded"} => pc \in {"book", "done"} /\ row = record

VerdictInv ==
    status \in {"completed", "unsupported"} =>
        /\ Complete /\ stages["SCORE"] = "ok"
        /\ ~interrupted /\ errors \subseteq {"TEARDOWN"}

\* What a gate stops is never past it, and what is past the gates is not `invalid`.
GateInv ==
    /\ pc \in Gates => ~Spent
    /\ pc \in {"budgetGate"} \union TryPoints => ~LiveBlocked
    /\ pc \in TryPoints => ~BudgetBlocked
    /\ pc \in Gates \union TryPoints => stages["PREFLIGHT"] # "failed"
    /\ Spent => /\ req.provisioning /\ req.acknowledged /\ ~req.overBudget
                /\ stages["PREFLIGHT"] # "failed" /\ status # "invalid"

TeardownInv ==
    /\ pc \in {"closed", "score"} => stages["TEARDOWN"] # "absent"
    /\ pc \in {"persist", "finish", "book"} /\ stages["SETUP"] \in {"ok", "failed"} =>
         stages["TEARDOWN"] # "absent"

\* A live runtime is in the ledger, held by its transport until the transport is stopped,
\* or displaced; what is neither deleted nor displaced is in the report from then on.
SurvivorInv ==
    /\ pc \in TryPoints \union {"reconcile", "teardown"} =>
         \A r \in Runtimes : fate[r] = "live" =>
             r \in booked \/ (lazy /\ handle = r) \/ r \in displaced
    /\ \A r \in Runtimes : fate[r] = "creating" => handle = r \/ r \in displaced
    /\ pc = "teardown" => \A r \in booked : r \in residual \/ "TEARDOWN" \in errors
    /\ ~req.provisioning => ~Spent /\ Calls = {} /\ booked = {} /\ ~lazy
    /\ pc \in {"closed", "score", "persist", "finish", "book"} =>
         \A r \in InCloud : \/ r \in residual \/ "TEARDOWN" \in errors
                            \/ r \notin booked /\ (fate[r] = "live" => r \in displaced)

Inv == /\ TypeOK /\ CallInv /\ StageInv /\ ClosingInv /\ RecordInv /\ VerdictInv /\ GateInv
       /\ DeadlineSparesTeardown /\ OneCulprit /\ TeardownInv /\ TeardownUnlessCut
       /\ SurvivorInv /\ SurvivorsAreReported

=============================================================================
