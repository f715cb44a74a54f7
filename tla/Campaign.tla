------------------------------ MODULE Campaign ------------------------------
(***************************************************************************)
(* A campaign in the cloud: core/campaign/.  One process on an ephemeral   *)
(* controller instance runs a thread that drives the tasks one by one and  *)
(* a watchdog that destroys everything at the end, itself last.  The       *)
(* laptop that submitted the campaign may look at it, stop it and tear it  *)
(* down at any time.  They share nothing but objects on a blob store.      *)
(*                                                                         *)
(* Execution n of the plan is the run of its n-th entry; runtime <<n, k>>  *)
(* is the k-th cloud runtime that execution has created.  It is the run's  *)
(* own, booked in the ledger, or an invocation's that found none: those of *)
(* a pool may find none at one time, and nothing books what they create.   *)
(* A runtime whose delete the cloud has accepted counts as gone.           *)
(***************************************************************************)
EXTENDS Naturals, FiniteSets

CONSTANTS TaskIds,      \* task ids a plan is made of
          PlanLength,   \* entries of the plan
          MaxRuntimes,  \* bound: runtimes one execution creates
          MaxFaults     \* bound: cloud and blob-store calls that fail

ASSUME PlanLengthAssumption == PlanLength \in Nat \ {0}
ASSUME MaxRuntimesAssumption == MaxRuntimes \in Nat
ASSUME MaxFaultsAssumption == MaxFaults \in Nat

Executions == 1 .. PlanLength

VARIABLES
    \* the controller process: its state, its controller thread, its watchdog
    process, ctl, i, manifest, failed, dog, todo, reason, armed,
    \* the blob store
    plan, status, results, synced, marker, stop,
    \* the cloud: runtimes, NAT gateway, controller instance, who deleted it
    runtimes, nat, box,
    \* the resource ledger on the instance, the laptop, the clock, faults so far
    ledger, laptop, expired, faults,
    \* how many runtimes the task has created, the one its transport knows, and those
    \* that neither the transport nor the ledger knows any more
    made, handle, displaced,
    \* history: runtimes whose create or whose delete raised
    excused

thread == <<ctl, i, manifest, failed>>
watch  == <<dog, todo, reason, armed>>
blobs  == <<status, results, synced, marker, stop>>
cloud  == <<runtimes, nat, box>>
pool   == <<made, handle, displaced>>
vars   == <<process, thread, watch, plan, blobs, cloud, ledger, laptop, expired, faults,
            excused, pool>>

None == <<0, 0>>

Init ==
    /\ plan \in [Executions -> TaskIds]
    /\ process = "boot" /\ ctl = "off" /\ i = 1
    /\ manifest = [n \in Executions |-> "pending"] /\ failed = FALSE
    /\ dog = "off" /\ todo = {} /\ reason = "none" /\ armed = FALSE
    /\ status = [n \in Executions |-> "absent"]
    /\ results = [n \in Executions |-> "none"]
    /\ synced = {} /\ marker = "none" /\ stop = FALSE
    /\ runtimes = {} /\ nat = TRUE /\ box = "up"
    /\ ledger = {} /\ laptop = "away" /\ expired = FALSE /\ faults = 0
    /\ excused = {}
    /\ made = 0 /\ handle = None /\ displaced = {}

Running == process = "running"
Fault == faults < MaxFaults /\ faults' = faults + 1

\* The process ends: its threads with it (the controller's is a daemon thread).
Ends == /\ process' = "ended" /\ dog' = "off"
        /\ ctl' = IF ctl = "ended" THEN ctl ELSE "died"

----------------------------------------------------------------------------
(* main: claim, arm the reaper, start the thread and the watchdog.         *)

Claim ==
    /\ process = "boot" /\ box = "up"
    /\ process' = "claimed"
    /\ UNCHANGED <<thread, watch, plan, blobs, cloud, ledger, laptop, expired, faults,
                   excused, pool>>

\* Building the reaper fails: the campaign runs all the same, with nothing to reap it.
Start ==
    /\ process = "claimed" /\ box = "up"
    /\ \/ armed' = TRUE /\ UNCHANGED faults
       \/ armed' = FALSE /\ Fault
    /\ process' = "running" /\ ctl' = "launch" /\ dog' = "poll"
    /\ UNCHANGED <<i, manifest, failed, todo, reason, plan, blobs, cloud, ledger, laptop,
                   expired, excused, pool>>

\* A blob-store call of main raises, or the process is killed: CONTROLLER FATAL.
ProcessDies ==
    /\ process \in {"boot", "claimed", "running"} /\ box = "up" /\ Fault
    /\ Ends
    /\ UNCHANGED <<i, manifest, failed, todo, reason, armed, plan, blobs, cloud, ledger,
                   laptop, expired, excused, pool>>

----------------------------------------------------------------------------
(* CampaignController.run.                                                 *)

At(where) == Running /\ ctl = where
Goto(where) == ctl' = where

\* CampaignManifest.mark: the first entry with the task's id.
EntryOf(n) == CHOOSE m \in Executions :
                 plan[m] = plan[n] /\ \A l \in 1 .. m - 1 : plan[l] # plan[n]
Mark(st) == manifest' = [manifest EXCEPT ![EntryOf(i)] = st]

Launch ==
    /\ At("launch")
    /\ status' = manifest
    /\ Goto("next")
    /\ UNCHANGED <<process, i, manifest, failed, watch, plan, results, synced, marker, stop,
                   cloud, ledger, laptop, expired, faults, excused, pool>>

\* Mutant of NextTask: the stop sentinel is not looked for.
NextTaskUnstopped ==
    /\ At("next")
    /\ IF i > PlanLength THEN Goto("done") /\ UNCHANGED manifest
                         ELSE Goto("running") /\ Mark("running")
    /\ UNCHANGED <<process, i, failed, watch, plan, blobs, cloud, ledger, laptop, expired,
                   faults, excused, pool>>

\* The stop sentinel is looked for between tasks.
NextTask ==
    /\ At("next")
    /\ IF stop \/ i > PlanLength THEN Goto("done") /\ UNCHANGED manifest
                                 ELSE Goto("running") /\ Mark("running")
    /\ UNCHANGED <<process, i, failed, watch, plan, blobs, cloud, ledger, laptop, expired,
                   faults, excused, pool>>

\* write_manifest and the heartbeat.
PublishRunning ==
    /\ At("running")
    /\ status' = manifest
    /\ Goto("task")
    /\ UNCHANGED <<process, i, manifest, failed, watch, plan, results, synced, marker, stop,
                   cloud, ledger, laptop, expired, faults, excused, pool>>

\* The next runtime of this execution, and what the transport forgets when it hears of it.
Created(k) == <<i, made + k>>
Forgotten == {handle} \ (ledger \cup {None})

\* run_task: execute() may create a runtime, books it when the call has returned, and
\* gives it back, or leaves it to the ledger.
CreateRuntime ==
    /\ At("task") /\ made < MaxRuntimes
    /\ runtimes' = runtimes \union {Created(1)} /\ made' = made + 1
    /\ handle' = Created(1) /\ displaced' = displaced \union Forgotten
    /\ Goto("creating")
    /\ UNCHANGED <<process, i, manifest, failed, watch, plan, blobs, nat, box, ledger,
                   laptop, expired, faults, excused>>

BookRuntime ==
    /\ At("creating")
    /\ ledger' = ledger \union {handle}
    /\ Goto("task")
    /\ UNCHANGED <<process, i, manifest, failed, watch, plan, blobs, cloud, laptop, expired,
                   faults, excused, pool>>

\* _live_invoke: the invocations of a pool that find no runtime each create one, and the
\* transport keeps the last.
LazyCreate ==
    /\ At("task") /\ handle = None
    /\ \E k \in 1 .. MaxRuntimes - made :
         /\ runtimes' = runtimes \union {Created(j) : j \in 1 .. k}
         /\ made' = made + k
         /\ handle' = Created(k) /\ displaced' = displaced \union {Created(j) : j \in 1 .. k - 1}
    /\ UNCHANGED <<process, thread, watch, plan, blobs, nat, box, ledger, laptop, expired,
                   faults, excused>>

\* An invocation's create raises; the task may live with that.
LazyCreateFails ==
    /\ At("task") /\ handle = None /\ made < MaxRuntimes /\ Fault
    /\ runtimes' = runtimes \union {Created(1)} /\ made' = made + 1
    /\ handle' \in {None, Created(1)} /\ excused' = excused \union {Created(1)}
    /\ UNCHANGED <<process, thread, watch, plan, blobs, nat, box, ledger, laptop, expired,
                   displaced>>

\* What the ledger lists is given back, and the transport, as it stops, deletes the runtime
\* it knows if an invocation created it; what is left had a delete that raised.  (A delete
\* of stop() that raised is swallowed, and the transport forgets the runtime.)
TaskEnds ==
    LET booked == {r \in ledger : r[1] = i}
        lazy   == Forgotten \ excused
    IN
    /\ At("task")
    /\ \E left \in SUBSET (booked \cup lazy) :
         /\ IF left = {} THEN UNCHANGED faults ELSE Fault
         /\ runtimes' = runtimes \ ((booked \cup lazy) \ left)
         /\ ledger' = ledger \ (booked \ left)
         /\ excused' = excused \union (left \cap lazy)
    /\ \/ Goto("result") /\ UNCHANGED <<manifest, failed>>
       \/ Goto("ledger") /\ Mark("failed") /\ failed' = TRUE
    /\ handle' = None /\ made' = 0
    /\ UNCHANGED <<process, i, watch, plan, blobs, nat, box, laptop, expired, displaced>>

\* The create raises before the runtime is booked.
CreateFails ==
    /\ At("creating") /\ Fault
    /\ Goto("ledger") /\ Mark("failed") /\ failed' = TRUE
    /\ excused' = excused \union {handle} /\ handle' = None /\ made' = 0
    /\ UNCHANGED <<process, i, watch, plan, blobs, cloud, ledger, laptop, expired, displaced>>

\* write_result: the JSON object, then the sidecar; then the manifest in memory.
WriteResult ==
    /\ At("result")
    /\ results' = [results EXCEPT ![i] = "json"]
    /\ Goto("sidecar")
    /\ UNCHANGED <<process, i, manifest, failed, watch, plan, status, synced, marker, stop,
                   cloud, ledger, laptop, expired, faults, excused, pool>>

WriteSidecar ==
    /\ At("sidecar")
    /\ results' = [results EXCEPT ![i] = "both"]
    /\ Goto("ledger") /\ Mark("completed")
    /\ UNCHANGED <<process, i, failed, watch, plan, status, synced, marker, stop, cloud,
                   ledger, laptop, expired, faults, excused, pool>>

\* Mutant of ResultFails: a result that could not be written is let pass.
ResultMissing ==
    /\ ctl \in {"result", "sidecar"} /\ Running /\ Fault
    /\ Goto("ledger") /\ Mark("completed")
    /\ UNCHANGED <<process, i, failed, watch, plan, blobs, cloud, ledger, laptop,
                   expired, excused, pool>>

\* Mutant of ResultFails: ... or fails its task and not the campaign.
ResultUncounted ==
    /\ ctl \in {"result", "sidecar"} /\ Running /\ Fault
    /\ Goto("ledger") /\ Mark("failed")
    /\ UNCHANGED <<process, i, failed, watch, plan, blobs, cloud, ledger, laptop,
                   expired, excused, pool>>

\* Inside the try: a failed write fails the task.
ResultFails ==
    /\ ctl \in {"result", "sidecar"} /\ Running /\ Fault
    /\ Goto("ledger") /\ Mark("failed") /\ failed' = TRUE
    /\ UNCHANGED <<process, i, watch, plan, blobs, cloud, ledger, laptop, expired,
                   excused, pool>>

SyncLedger ==
    /\ At("ledger")
    /\ synced' = ledger
    /\ Goto("publish")
    /\ UNCHANGED <<process, i, manifest, failed, watch, plan, status, results, marker, stop,
                   cloud, ledger, laptop, expired, faults, excused, pool>>

\* Mutant of PublishEnded: the last task announces the end.
PublishLast ==
    /\ At("publish")
    /\ status' = manifest /\ i' = i + 1
    /\ marker' = IF i = PlanLength THEN "DONE" ELSE marker
    /\ Goto("next")
    /\ UNCHANGED <<process, manifest, failed, watch, plan, results, synced, stop, cloud,
                   ledger, laptop, expired, faults, excused, pool>>

PublishEnded ==
    /\ At("publish")
    /\ status' = manifest /\ i' = i + 1
    /\ Goto("next")
    /\ UNCHANGED <<process, manifest, failed, watch, plan, results, synced, marker, stop,
                   cloud, ledger, laptop, expired, faults, excused, pool>>

WriteDone ==
    /\ At("done")
    /\ marker' = IF failed THEN "FAILED" ELSE "DONE"
    /\ Goto("ended")
    /\ UNCHANGED <<process, i, manifest, failed, watch, plan, status, results, synced, stop,
                   cloud, ledger, laptop, expired, faults, excused, pool>>

\* Outside the try: the thread ends, and nothing says so.
ThreadDies ==
    /\ ctl \in {"launch", "next", "running", "ledger", "publish", "done"} /\ Running /\ Fault
    /\ Goto("died")
    /\ UNCHANGED <<process, i, manifest, failed, watch, plan, blobs, cloud, ledger, laptop,
                   expired, excused, pool>>

----------------------------------------------------------------------------
(* SelfDestructWatchdog and RestrictedReaper.                              *)

Timeout ==
    /\ Running /\ ~expired
    /\ expired' = TRUE
    /\ UNCHANGED <<process, thread, watch, plan, blobs, cloud, ledger, laptop, faults,
                   excused, pool>>

\* Mutant of Terminal: the clock is not looked at.
TerminalUntimed ==
    /\ Running /\ dog = "poll"
    /\ marker # "none" \/ stop
    /\ reason' = IF marker # "none" THEN "done" ELSE "stop"
    /\ dog' = IF armed THEN "runtimes" ELSE "out"
    /\ todo' = ledger
    /\ UNCHANGED <<process, thread, armed, plan, blobs, cloud, ledger, laptop, expired,
                   faults, excused, pool>>

\* should_stop, and the reverse lookup of the ledger.
Terminal ==
    /\ Running /\ dog = "poll"
    /\ marker # "none" \/ expired \/ stop
    /\ reason' = IF marker # "none" THEN "done" ELSE IF expired THEN "timeout" ELSE "stop"
    /\ dog' = IF armed THEN "runtimes" ELSE "out"
    /\ todo' = ledger
    /\ UNCHANGED <<process, thread, armed, plan, blobs, cloud, ledger, laptop, expired,
                   faults, excused, pool>>

\* Each delete is best-effort.
ReapRuntime ==
    /\ Running /\ dog = "runtimes"
    /\ \E n \in todo :
         /\ todo' = todo \ {n}
         /\ \/ runtimes' = runtimes \ {n} /\ UNCHANGED <<faults, excused>>
            \/ Fault /\ excused' = excused \union {n} /\ UNCHANGED runtimes
    /\ UNCHANGED <<process, thread, dog, reason, armed, plan, blobs, nat, box, ledger, laptop,
                   expired, pool>>

\* Mutant of ReapNat: not after the runtimes but beside them.
ReapNatEarly ==
    /\ Running /\ dog = "runtimes"
    /\ dog' = "self" /\ nat' = FALSE
    /\ UNCHANGED <<process, thread, todo, reason, armed, plan, blobs, runtimes, box, ledger,
                   laptop, expired, faults, excused, pool>>

ReapNat ==
    /\ Running /\ dog = "runtimes" /\ todo = {}
    /\ dog' = "self"
    /\ \/ nat' = FALSE /\ UNCHANGED faults
       \/ Fault /\ UNCHANGED nat
    /\ UNCHANGED <<process, thread, todo, reason, armed, plan, blobs, runtimes, box, ledger,
                   laptop, expired, excused, pool>>

\* The instance deletes itself, and the process with it; or the delete fails and main
\* returns.
ReapSelf ==
    /\ Running /\ dog = "self"
    /\ \/ box' = "self-destructed" /\ UNCHANGED faults
       \/ Fault /\ UNCHANGED box
    /\ Ends
    /\ UNCHANGED <<i, manifest, failed, todo, reason, armed, plan, blobs, runtimes, nat,
                   ledger, laptop, expired, excused, pool>>

Unarmed ==
    /\ Running /\ dog = "out"
    /\ Ends
    /\ UNCHANGED <<i, manifest, failed, todo, reason, armed, plan, blobs, cloud, ledger,
                   laptop, expired, faults, excused, pool>>

----------------------------------------------------------------------------
(* csbench teardown on the laptop.                                         *)

SignalStop ==
    /\ laptop = "away"
    /\ stop' = TRUE /\ laptop' = "delete"
    /\ UNCHANGED <<process, thread, watch, plan, status, results, synced, marker, cloud,
                   ledger, expired, faults, excused, pool>>

\* The runtimes of the ledger snapshot on the blob store.
DeleteResidual ==
    /\ laptop = "delete"
    /\ \/ runtimes' = runtimes \ synced /\ UNCHANGED <<faults, excused>>
       \/ \E S \in SUBSET synced :
              Fault /\ runtimes' = runtimes \ S /\ excused' = excused \union (synced \ S)
    /\ laptop' = "destroy"
    /\ UNCHANGED <<process, thread, watch, plan, blobs, nat, box, ledger, expired, pool>>

\* terraform destroy: the instance (with what runs on it) and the NAT gateway.
Destroy ==
    /\ laptop = "destroy"
    /\ laptop' = "over" /\ nat' = FALSE
    /\ IF box = "up" THEN box' = "destroyed" /\ Ends
                     ELSE UNCHANGED <<box, process, ctl, dog>>
    /\ UNCHANGED <<i, manifest, failed, todo, reason, armed, plan, blobs, runtimes, ledger,
                   expired, faults, excused, pool>>

----------------------------------------------------------------------------
Main == Claim \/ Start
Controller == \/ Launch \/ NextTask \/ PublishRunning \/ CreateRuntime \/ BookRuntime
              \/ LazyCreate \/ LazyCreateFails \/ TaskEnds \/ CreateFails
              \/ WriteResult \/ WriteSidecar \/ ResultFails
              \/ SyncLedger \/ PublishEnded \/ WriteDone \/ ThreadDies
Watchdog == Terminal \/ ReapRuntime \/ ReapNat \/ ReapSelf \/ Unarmed
Laptop == SignalStop \/ DeleteResidual \/ Destroy

Over == process = "ended" /\ laptop \in {"away", "over"} /\ UNCHANGED vars

Next == Main \/ Controller \/ Watchdog \/ Laptop \/ Timeout \/ ProcessDies \/ Over

\* The process runs, and time passes.  A task may never end (its stage deadline needs the
\* main thread), and nobody owes the campaign a laptop.
Spec == Init /\ [][Next]_vars /\ WF_vars(Main) /\ WF_vars(Watchdog) /\ WF_vars(Timeout)

----------------------------------------------------------------------------
(* Properties.                                                             *)

Distinct == \A m, n \in Executions : plan[m] = plan[n] => m = n

\* Whoever reads that a task is completed can fetch its result, sidecar included.
ResultBeforeStatus ==
    Distinct => \A n \in Executions : status[n] = "completed" => results[n] = "both"

\* The terminal marker is the last word: what status, fetch and teardown read after it no
\* longer changes, and it says whether anything failed.
MarkerIsFinal ==
    [][marker # "none" => UNCHANGED <<status, results, synced, marker>>]_vars

MarkerIsHonest ==
    marker # "none" /\ Distinct =>
        (marker = "FAILED" <=> \E n \in Executions : status[n] = "failed")

\* The runtimes somebody should have deleted: neither did their create or delete raise, nor
\* did another of the same pool push them out of the transport, where nothing finds them.
Owed == runtimes \ (excused \cup displaced)

\* A campaign that ended by itself owes no runtime: nothing is created between the last
\* look at the ledger and the end of the instance, and what no ledger lists its task's
\* transport has deleted.
DoneLeavesNothing ==
    box = "self-destructed" /\ reason = "done" => Owed = {} /\ (nat => faults > 0)

\* The instance destroys itself in the end, whatever the tasks do, unless a call fails.
SelfDestructs == (process = "running") ~> (box # "up" \/ faults > 0)

\* The operator's teardown owes runtimes of one task at most, the one that was running when
\* it signalled the stop: what an earlier task left is in the copy of the ledger that it
\* reads, and no later task begins.
TeardownMissesOne ==
    laptop = "over" => \A q, r \in Owed : q[1] = r[1]

\* A campaign has an end: its marker is the last word, and its instance goes.
CampaignEnds == MarkerIsFinal /\ SelfDestructs

\* What a campaign leaves is true and complete: whatever object a reader of the blob store
\* sees first, a status is backed by its result and the marker agrees with the statuses; and
\* a campaign that finished or was torn down owes no runtime but its last task's.
CampaignKeepsFaith ==
    ResultBeforeStatus /\ MarkerIsHonest /\ DoneLeavesNothing /\ TeardownMissesOne
=============================================================================
