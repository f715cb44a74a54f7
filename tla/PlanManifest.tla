---------------------------- MODULE PlanManifest ----------------------------
(***************************************************************************)
(* One invocation of `csbench run-plan' (cli/run.py) and the manifest it   *)
(* keeps for those who watch it (core/campaign/manifest.py).  The tasks of *)
(* the plan file are run one after another, each through execute_plan;     *)
(* `csbench progress --watch' is another process, which sees nothing but   *)
(* the manifest file.  Timestamps, counts and the mirrored job progress    *)
(* are left out.                                                           *)
(***************************************************************************)
EXTENDS Naturals, Sequences, FiniteSets

CONSTANTS
    Tasks,       \* task ids a plan file may name
    MaxTasks     \* bound: entries of the plan file

VARIABLES
    plan,        \* the task ids of the plan file, in order; NoPlan without one
    at,          \* where _cmd_run_plan stands
    manifest,    \* the statuses in memory
    onDisk,      \* ... and in the manifest file, << >> while there is none
    results,     \* what execute_plan made of each entry so far
    probe,       \* the in-region probe carrier: "none", "down", "up", "reaped", or
                 \* "left": the call that launched or deleted it raised, and nobody
                 \* has the id of what may be running
    exit,        \* the exit code, 9 while there is none
    watch,       \* the watcher: "off", "on", "done"
    seen         \* the last manifest it printed

campaignVars == <<plan, at, manifest, onDisk, results, probe, exit, watch, seen>>

TERMINAL_STATES == {"completed", "failed"}
Plans == UNION {[1 .. n -> Tasks] : n \in 1 .. MaxTasks}
NoPlan == << >>
Pending == [i \in DOMAIN plan |-> "pending"]
Stopped == {"refused", "finished", "raised", "killed"}
NoCode == 9

ManifestInit ==
    /\ plan \in Plans \cup {NoPlan}
    /\ at = "start" /\ manifest = Pending /\ onDisk = << >> /\ results = << >>
    /\ probe \in {"none", "down"}
    /\ exit = NoCode /\ watch = "off" /\ seen = << >>

\* _task: the first slot that carries the id.
Slot(t) == CHOOSE i \in DOMAIN plan : plan[i] = t /\ \A j \in 1 .. i - 1 : plan[j] # t

Mark(t, status) ==
    /\ manifest' = [manifest EXCEPT ![Slot(t)] = status]
    /\ onDisk' = manifest'      \* write_manifest

Entry == Len(results) + 1
Unwatched == UNCHANGED <<watch, seen>>

\* The manifest is written with every task pending, before anything else is tried.
OpenCampaign ==
    /\ at = "start"
    /\ onDisk' = manifest
    /\ at' = IF probe = "none" THEN "loop" ELSE "hook"
    /\ UNCHANGED <<plan, manifest, results, probe, exit>> /\ Unwatched

\* --probe, and no carrier is registered for the provider.
NoCarrier ==
    /\ at = "hook"
    /\ at' = "refused" /\ exit' = 2
    /\ UNCHANGED <<plan, manifest, onDisk, results, probe>> /\ Unwatched

\* start_campaign_probe may have launched the carrier when it raises: before the cloud
\* was asked, with the answer to the launch, while it waits for the instance, or because
\* that was not ready in time and had to be torn down.
StartProbe ==
    /\ at = "hook"
    /\ \/ at' = "loop" /\ probe' = "up" /\ UNCHANGED exit
       \/ at' = "out" /\ probe' \in {"down", "up", "reaped", "left"} /\ exit' = 1
    /\ UNCHANGED <<plan, manifest, onDisk, results>> /\ Unwatched

\* A repeat that is no number or below one raises here, outside the inner try.
BadEntry ==
    /\ at = "loop" /\ Entry <= Len(plan)
    /\ at' = "out" /\ exit' = 1
    /\ UNCHANGED <<plan, manifest, onDisk, results, probe>> /\ Unwatched

MarkRunning ==
    /\ at = "loop" /\ Entry <= Len(plan)
    /\ Mark(plan[Entry], "running")
    /\ at' = "task"
    /\ UNCHANGED <<plan, results, probe, exit>> /\ Unwatched

\* execute_plan returns an aggregate or raises; either is written down, then the
\* probe's artifacts are synced, which may fail and does not matter.
MarkDone ==
    /\ at = "task"
    /\ \E status \in TERMINAL_STATES :
          /\ results' = Append(results, status)
          /\ Mark(plan[Entry], status)
    /\ at' = "loop"
    /\ UNCHANGED <<plan, probe, exit>> /\ Unwatched

\* Ctrl-C is no Exception: the entry is not marked done.
Interrupt ==
    /\ at \in {"loop", "task"}
    /\ at' = "out" /\ exit' = 130
    /\ UNCHANGED <<plan, manifest, onDisk, results, probe>> /\ Unwatched

LoopEnds ==
    /\ at = "loop" /\ Entry > Len(plan)
    /\ at' = "end"
    /\ exit' = IF \A i \in DOMAIN results : results[i] = "completed" THEN 0 ELSE 1
    /\ UNCHANGED <<plan, manifest, onDisk, results, probe>> /\ Unwatched

\* stop_campaign_probe: a carrier that is known is deleted once; a delete that raises is
\* suppressed, and the carrier's id forgotten.
StopProbe == IF probe = "up" THEN probe' \in {"reaped", "left"} ELSE UNCHANGED probe

\* Mutant: the carrier is stopped only behind a campaign that ran to its end.
LeaveInTheEnd ==
    /\ at \in {"out", "end"}
    /\ IF at = "end" THEN StopProbe ELSE UNCHANGED probe
    /\ at' = IF at = "end" THEN "finished" ELSE "raised"
    /\ UNCHANGED <<plan, manifest, onDisk, results, exit>> /\ Unwatched

\* The finally: a last sync, and the carrier is stopped even if that raises; when
\* it does, the exit code of the campaign is lost to the exception.
Leave ==
    /\ at \in {"out", "end"}
    /\ StopProbe
    /\ \/ /\ at' = IF at = "end" THEN "finished" ELSE "raised"
          /\ UNCHANGED exit
       \/ probe # "none" /\ at' = "raised" /\ exit' = 1
    /\ UNCHANGED <<plan, manifest, onDisk, results>> /\ Unwatched

Killed ==
    /\ at \notin Stopped
    /\ at' = "killed"
    /\ UNCHANGED <<plan, manifest, onDisk, results, probe, exit>> /\ Unwatched

\* `progress --watch' prints what it finds and goes on until all is terminal.
Watch ==
    /\ watch # "done" /\ onDisk # << >>
    /\ seen' = onDisk
    /\ watch' = IF \A i \in DOMAIN onDisk : onDisk[i] \in TERMINAL_STATES THEN "done" ELSE "on"
    /\ UNCHANGED <<plan, at, manifest, onDisk, results, probe, exit>>

CampaignStep ==
    \/ OpenCampaign \/ NoCarrier \/ StartProbe \/ BadEntry \/ MarkRunning \/ MarkDone
    \/ Interrupt \/ LoopEnds \/ Leave

(***************************************************************************)
(* Properties                                                              *)
(***************************************************************************)

Distinct == \A i, j \in DOMAIN plan : plan[i] = plan[j] => i = j

\* Whoever reads the file reads the campaign: of a plan that names no task twice,
\* every finished entry with its own result, then at most one running, then what
\* is still to come; the last picture a watcher saw is how it ended; the exit
\* code is zero only if all of it completed; and no carrier outlives the command
\* unless that was killed, or the cloud raised at the one launch or the one delete
\* (which the command suppresses, and its exit code does not tell).
ManifestIsTrue ==
    /\ Distinct /\ onDisk # << >> =>
          /\ \A i \in DOMAIN plan :
                IF i < Entry THEN onDisk[i] = results[i]
                ELSE onDisk[i] \in (IF i = Entry THEN {"running", "pending"} ELSE {"pending"})
          /\ at = "task" => onDisk[Entry] = "running"
          /\ watch = "done" => seen = results /\ Len(results) = Len(plan)
    /\ exit = 0 => results = [i \in DOMAIN plan |-> "completed"]
    /\ at \in {"finished", "raised"} => probe # "up"

\* A campaign that ran to its end lets every watcher go.
WatchEnds == Distinct /\ at = "finished" /\ watch = "on" ~> watch = "done"
CampaignEnds == onDisk # << >> ~> at \in Stopped
=============================================================================
